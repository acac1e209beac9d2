---- MODULE ModelProofs ----
(***************************************************************************)
(* What a run asks of its model, and which model: proofs about the router, *)
(* the prompts of ContextBuilder and the exchange with Ollama, for any     *)
(* models, workspaces, budgets, tool results and divisions of a body into  *)
(* pieces. What all three need comes first: counting up, and functions     *)
(* that are defined by a step.                                             *)
(***************************************************************************)
EXTENDS ModelRouter, ContextBuilder, OllamaChat, SequenceTheorems,
        FunctionTheorems, FiniteSetTheorems, WellFoundedInduction, TLAPS

LEMMA LeastNatural ==
  ASSUME NEW T, T \subseteq Nat, T # {}
  PROVE  \E n \in T : \A m \in T : n <= m
<1> DEFINE less == {ss \in Nat \X Nat : ss[1] < ss[2]}
<1>1. PICK n \in T : \A m \in T : <<m, n>> \notin less
  <2>1. IsWellFoundedOn(less, Nat)
    BY NatLessThanWellFounded DEF OpToRel
  <2> HIDE DEF less
  <2> QED
    BY <2>1, WFMin
<1>2. n \in Nat
  OBVIOUS
<1>3. ASSUME NEW m \in T
      PROVE  n <= m
  <2>1. m \in Nat /\ <<m, n>> \notin less
    BY <1>1
  <2>2. ~(m < n)
    BY <1>2, <2>1
  <2> QED
    BY <1>2, <2>1, <2>2
<1> QED
  BY <1>3

\* What holds at 0 and goes on holding holds up to n.
LEMMA UpTo ==
  ASSUME NEW n \in Nat, NEW T, 0 \in T,
         \A k \in 0..(n - 1) : k \in T => k + 1 \in T
  PROVE  \A k \in 0..n : k \in T
<1> DEFINE rest == (0..n) \ T
<1>1. SUFFICES ASSUME rest # {} PROVE FALSE
  OBVIOUS
<1>2. PICK k \in rest : \A m \in rest : k <= m
  <2>1. rest \subseteq Nat
    OBVIOUS
  <2> HIDE DEF rest
  <2> QED
    BY <1>1, <2>1, LeastNatural
<1>3. k \in 0..n /\ k \notin T
  OBVIOUS
<1>4. k # 0 /\ k - 1 \in 0..(n - 1)
  BY <1>3
<1>5. k - 1 \notin T
  BY <1>3, <1>4
<1>6. k - 1 \in rest
  BY <1>4, <1>5
<1> QED
  BY <1>2, <1>3, <1>6

StepsTo(n, S) == [1..n -> [S -> S]]
Computed(n, S, first, step) ==
  \E f \in [0..n -> S] : f[0] = first /\ \A i \in 1..n : f[i] = step[i][f[i - 1]]

\* What is computed from a first value by a step for each number exists: a
\* definition f[i \in 0..n] == IF i = 0 THEN first ELSE ... f[i - 1] ... has a
\* solution.
LEMMA Recursion ==
  ASSUME NEW n \in Nat, NEW S, NEW first \in S, NEW step \in StepsTo(n, S)
  PROVE  Computed(n, S, first, step)
<1> DEFINE Steps(f, m) == f[0] = first /\ \A i \in 1..m : f[i] = step[i][f[i - 1]]
           good == {m \in 0..n : \E f \in [0..m -> S] : Steps(f, m)}
<1>1. 0 \in good
  <2> DEFINE f == [i \in 0..0 |-> first]
  <2>1. f \in [0..0 -> S] /\ Steps(f, 0)
    OBVIOUS
  <2> HIDE DEF f
  <2> QED
    BY <2>1
<1>2. ASSUME NEW k \in 0..(n - 1), k \in good
      PROVE  k + 1 \in good
  <2>1. PICK f \in [0..k -> S] : Steps(f, k)
    BY <1>2
  <2> DEFINE g == [i \in 0..(k + 1) |-> IF i = k + 1 THEN step[k + 1][f[k]] ELSE f[i]]
  <2>2. step[k + 1] \in [S -> S] /\ f[k] \in S
    BY DEF StepsTo
  <2>3. g \in [0..(k + 1) -> S]
    BY <2>2
  <2>4. g[0] = first
    BY <2>1
  <2>5. ASSUME NEW i \in 1..(k + 1)
        PROVE  g[i] = step[i][g[i - 1]]
    <3>1. i - 1 \in 0..k /\ g[i - 1] = f[i - 1]
      OBVIOUS
    <3>2. CASE i = k + 1
      BY <3>1, <3>2
    <3>3. CASE i # k + 1
      BY <2>1, <3>1, <3>3
    <3> QED
      BY <3>2, <3>3
  <2> HIDE DEF g
  <2> QED
    BY <2>3, <2>4, <2>5
<1>3. n \in good
  <2> HIDE DEF good
  <2>1. \A k \in 0..n : k \in good
    BY <1>1, <1>2, UpTo
  <2> QED
    BY <2>1
<1> QED
  BY <1>3 DEF Computed

-----------------------------------------------------------------------------
(* ModelRouter.                                                            *)

\* A required capability that a model offers is counted.
LEMMA MatchCounts ==
  ASSUME NEW required \in SUBSET Capability, NEW offered \in SUBSET Capability
  PROVE  LET match == CapabilityMatch(required, offered)
         IN  /\ match.num \in Nat /\ match.den \in Nat \ {0}
             /\ match.num > 0 <=> required = {} \/ required \cap offered # {}
<1>1. IsFiniteSet(Capability)
  <2> DEFINE c == <<"Chat", "Embedding", "ToolUse", "Vision", "Code", "Reasoning">>
  <2>1. \A x \in Capability : \E i \in 1..6 : c[i] = x
    BY DEF Capability
  <2>2. c \in [1..6 -> Capability]
    BY DEF Capability
  <2> HIDE DEF c
  <2>3. c \in Surjection(1..6, Capability)
    BY <2>1, <2>2, Fun_IsSurj
  <2>4. IsFiniteSet(1..6)
    <3>1. \A n \in Int : IsFiniteSet(1..n)
      BY FS_Interval
    <3>2. 6 \in Int
      OBVIOUS
    <3> QED
      BY <3>1, <3>2, Zenon
  <2> QED
    BY <2>3, <2>4, FS_Surjection
<1>2. IsFiniteSet(required) /\ IsFiniteSet(required \cap offered)
  BY <1>1, FS_Subset
<1>3. /\ Cardinality(required) \in Nat /\ Cardinality(required \cap offered) \in Nat
      /\ Cardinality(required) = 0 <=> required = {}
      /\ Cardinality(required \cap offered) = 0 <=> required \cap offered = {}
  BY <1>2, FS_CardinalityType, FS_EmptySet
<1>4. CASE required = {}
  BY <1>4 DEF CapabilityMatch, Fraction
<1>5. CASE required # {}
  <2>1. CapabilityMatch(required, offered)
          = [num |-> Cardinality(required \cap offered), den |-> Cardinality(required)]
    BY <1>5 DEF CapabilityMatch, Fraction
  <2>2. Cardinality(required) \in Nat \ {0}
    BY <1>3, <1>5
  <2>3. Cardinality(required \cap offered) > 0 <=> required \cap offered # {}
    BY <1>3
  <2> QED
    BY <1>3, <1>5, <2>1, <2>2, <2>3
<1> QED
  BY <1>4, <1>5

LEMMA TimesIsPositive ==
  ASSUME NEW a \in Nat, NEW b \in Nat
  PROVE  a * b \in Nat /\ (a * b > 0 <=> a > 0 /\ b > 0)
<1>1. a * b \in Nat
  OBVIOUS
<1>2. ASSUME a > 0, b > 0 PROVE a * b > 0
  BY <1>2
<1>3. ASSUME a = 0 \/ b = 0 PROVE a * b = 0
  BY <1>3
<1> QED
  BY <1>1, <1>2, <1>3

\* A score is above zero just for a model that can serve the request, and is
\* then a fraction or infinite, never NaN.
LEMMA ScorePositive ==
  ASSUME NEW m \in Model, NEW r \in RoutingRequest
  PROVE  LET score == ScoreCandidate(m, r)
         IN  /\ score.num \in Nat /\ score.den \in Nat
             /\ score.num > 0 <=> Serves(m, r)
<1> DEFINE match == CapabilityMatch(r.required_capabilities, m.capabilities)
           fit == MemoryFactor(r, m)
           preference == PreferenceMultiplier(r.preference, m)
<1>0. /\ m.capabilities \in SUBSET Capability /\ r.required_capabilities \in SUBSET Capability
      /\ m.context_length \in Nat /\ m.memory_mb \in Nat /\ m.cost_score \in Nat
      /\ m.quality_score \in Nat /\ m.speed_score \in Nat
      /\ r.context_tokens \in Nat /\ r.estimated_memory_mb \in Nat
      /\ r.preference \in {"PreferCheap", "PreferQuality", "Balanced"}
  BY DEF Model, RoutingRequest
<1>1. /\ match.num \in Nat /\ match.den \in Nat \ {0}
      /\ match.num > 0 <=> \/ r.required_capabilities = {}
                           \/ r.required_capabilities \cap m.capabilities # {}
  BY <1>0, MatchCounts
<1>2. fit.num \in Nat \ {0} /\ fit.den \in Nat
  <2>1. CASE r.estimated_memory_mb > 0
    BY <1>0, <2>1 DEF MemoryFactor, Fraction
  <2>2. CASE ~(r.estimated_memory_mb > 0)
    BY <1>0, <2>2 DEF MemoryFactor, Fraction, Smaller
  <2> QED
    BY <2>1, <2>2
<1>3. /\ preference.num \in Nat /\ preference.den \in Nat \ {0}
      /\ m.quality_score > 0 => preference.num > 0
  <2>1. Cost(m) \in Nat \ {0}
    BY <1>0 DEF Cost, Larger
  <2>2. CASE r.preference = "PreferCheap"
    BY <2>1, <2>2 DEF PreferenceMultiplier, Fraction
  <2>3. CASE r.preference = "PreferQuality"
    BY <1>0, <2>3 DEF PreferenceMultiplier, Fraction
  <2>4. CASE r.preference = "Balanced"
    <3>1. preference = Fraction(m.quality_score * Cost(m) + 400, 40 * Cost(m))
      BY <2>4 DEF PreferenceMultiplier
    <3>2. m.quality_score * Cost(m) \in Nat /\ 40 * Cost(m) \in Nat \ {0}
      BY <1>0, <2>1, TimesIsPositive
    <3> QED
      BY <3>1, <3>2 DEF Fraction
  <2> QED
    BY <1>0, <2>2, <2>3, <2>4
<1> DEFINE out == \/ match.num = 0
                  \/ r.context_tokens > m.context_length
                  \/ r.estimated_memory_mb > 0 /\ m.memory_mb > r.estimated_memory_mb
           num == match.num * m.quality_score * m.speed_score * fit.num * preference.num
           den == match.den * fit.den * preference.den
<1>4. ScoreCandidate(m, r) = IF out THEN Zero ELSE Fraction(num, den)
  BY DEF ScoreCandidate
<1>5. out => ~Serves(m, r)
  BY <1>0, <1>1 DEF Serves
<1>6. ~out => (Serves(m, r) <=> m.quality_score > 0 /\ m.speed_score > 0)
  BY <1>0, <1>1 DEF Serves
<1> HIDE DEF match, fit, preference
<1>7. num \in Nat /\ den \in Nat
  BY <1>0, <1>1, <1>2, <1>3, TimesIsPositive
<1>8. num > 0 <=> /\ match.num > 0 /\ m.quality_score > 0 /\ m.speed_score > 0
                  /\ fit.num > 0 /\ preference.num > 0
  <2>1. /\ match.num * m.quality_score \in Nat
        /\ match.num * m.quality_score > 0 <=> match.num > 0 /\ m.quality_score > 0
    BY <1>0, <1>1, TimesIsPositive
  <2> DEFINE p == match.num * m.quality_score
             q == p * m.speed_score
             t == q * fit.num
  <2> HIDE DEF p
  <2>2. q \in Nat /\ (q > 0 <=> p > 0 /\ m.speed_score > 0)
    BY <1>0, <2>1, TimesIsPositive DEF p
  <2> HIDE DEF q
  <2>3. t \in Nat /\ (t > 0 <=> q > 0 /\ fit.num > 0)
    BY <1>2, <2>2, TimesIsPositive
  <2> HIDE DEF t
  <2>4. t * preference.num > 0 <=> t > 0 /\ preference.num > 0
    BY <1>3, <2>3, TimesIsPositive
  <2>5. num = t * preference.num
    BY DEF p, q, t
  <2> QED
    BY <2>1, <2>2, <2>3, <2>4, <2>5 DEF p
<1> HIDE DEF num, den
<1>9. CASE out
  BY <1>4, <1>5, <1>9 DEF Zero, Fraction
<1>10. CASE ~out
  <2>1. match.num > 0
    BY <1>1, <1>10
  <2>2. fit.num > 0
    BY <1>2
  <2>3. num > 0 <=> m.quality_score > 0 /\ m.speed_score > 0
    BY <1>3, <1>8, <2>1, <2>2
  <2> QED
    BY <1>4, <1>6, <1>7, <1>10, <2>3 DEF Fraction
<1> QED
  BY <1>9, <1>10

\* What exceeds a score exceeds every score that does not exceed that one.
LEMMA ExceedsAll ==
  ASSUME NEW x, NEW y, NEW z,
         x.num \in Nat, x.den \in Nat, y.num \in Nat, y.den \in Nat,
         z.num \in Nat \ {0}, z.den \in Nat,
         Exceeds(x, y), ~Exceeds(z, y)
  PROVE  Exceeds(x, z) /\ ~Exceeds(z, x)
<1> DEFINE xn == x.num  xd == x.den  yn == y.num  yd == y.den  zn == z.num  zd == z.den
<1>1. xn * yd > yn * xd /\ zn * yd <= yn * zd
  BY DEF Exceeds
<1> HIDE DEF xn, xd, yn, yd, zn, zd
<1>2. xn \in Nat /\ xd \in Nat /\ yn \in Nat /\ yd \in Nat /\ zn \in Nat \ {0} /\ zd \in Nat
  BY DEF xn, xd, yn, yd, zn, zd
<1>3. yd > 0
  BY <1>1, <1>2
<1>4. zd > 0
  <2> SUFFICES ASSUME zd = 0 PROVE FALSE
    BY <1>2
  <2>1. zn * yd > 0
    BY <1>2, <1>3, TimesIsPositive
  <2>2. yn * zd = 0
    BY <1>2
  <2> QED
    BY <1>1, <1>2, <2>1, <2>2
<1>5. (xn * yd) * zd > (yn * xd) * zd
  <2> DEFINE a == xn * yd  b == yn * xd
  <2>1. a \in Nat /\ b \in Nat /\ a > b
    BY <1>1, <1>2
  <2> HIDE DEF a, b
  <2>2. a * zd > b * zd
    <3>1. (a - b) * zd > 0
      BY <1>2, <1>4, <2>1
    <3>2. (a - b) * zd = a * zd - b * zd
      BY <1>2, <2>1
    <3> QED
      BY <1>2, <2>1, <3>1, <3>2
  <2> QED
    BY <2>2 DEF a, b
<1>6. (yn * zd) * xd >= (zn * yd) * xd
  <2> DEFINE a == yn * zd  b == zn * yd
  <2>1. a \in Nat /\ b \in Nat /\ a >= b
    BY <1>1, <1>2
  <2> HIDE DEF a, b
  <2>2. a * xd >= b * xd
    <3>1. (a - b) * xd >= 0
      BY <1>2, <2>1
    <3>2. (a - b) * xd = a * xd - b * xd
      BY <1>2, <2>1
    <3> QED
      BY <1>2, <2>1, <3>1, <3>2
  <2> QED
    BY <2>2 DEF a, b
<1>7. (xn * zd) * yd > (zn * xd) * yd
  <2>1. (xn * yd) * zd = (xn * zd) * yd
    BY <1>2
  <2>2. (yn * xd) * zd = (yn * zd) * xd
    BY <1>2
  <2>3. (zn * yd) * xd = (zn * xd) * yd
    BY <1>2
  <2>4. (xn * yd) * zd \in Nat /\ (yn * xd) * zd \in Nat /\ (zn * yd) * xd \in Nat
    BY <1>2
  <2> QED
    BY <1>5, <1>6, <2>1, <2>2, <2>3, <2>4
<1>8. xn * zd > zn * xd
  <2> DEFINE a == xn * zd  b == zn * xd
  <2>1. a \in Nat /\ b \in Nat
    BY <1>2
  <2> HIDE DEF a, b
  <2>2. a * yd > b * yd
    BY <1>7 DEF a, b
  <2>3. ASSUME a <= b PROVE FALSE
    <3>1. (b - a) * yd >= 0
      BY <1>2, <2>1, <2>3
    <3>2. (b - a) * yd = b * yd - a * yd
      BY <1>2, <2>1
    <3> QED
      BY <1>2, <2>1, <2>2, <3>1, <3>2
  <2>4. a > b
    BY <2>1, <2>3
  <2> QED
    BY <2>4 DEF a, b
<1>9. xn * zd \in Nat /\ zn * xd \in Nat
  BY <1>2
<1> QED
  BY <1>8, <1>9 DEF Exceeds, xn, xd, zn, zd

-----------------------------------------------------------------------------
(* The two loops over the registry.                                        *)

\* QualityOf of the id of a model, when no other has that id.
LEMMA QualityFound ==
  ASSUME registry \in Seq(Model), Distinct, NEW i \in DOMAIN registry
  PROVE  QualityOf(registry[i].id) = registry[i].quality_score
<1> DEFINE same == {k \in 1..Len(registry) : registry[k].id = registry[i].id}
<1>1. same = {i}
  BY DEF Distinct
<1>2. SelectInSeq(registry, LAMBDA m : m.id = registry[i].id) = i
  <2>1. Min({i}) = i
    BY DEF Min
  <2>2. SelectInSeq(registry, LAMBDA m : m.id = registry[i].id)
          = IF same # {} THEN Min(same) ELSE 0
    BY DEF SelectInSeq
  <2> HIDE DEF same
  <2> QED
    BY <1>1, <2>1, <2>2
<1>3. i # 0
  OBVIOUS
<1> QED
  BY <1>2, <1>3 DEF QualityOf

LEMMA QualityIsNat ==
  ASSUME NEW m \in Model
  PROVE  m.quality_score \in Nat
BY DEF Model

\* What the loop of check_escalation finds is better than the current model.
LEMMA BestIsAbove ==
  ASSUME registry \in Seq(Model), NEW r, NEW current,
         BestAbove(r, current) # 0
  PROVE  /\ BestAbove(r, current) \in DOMAIN registry
         /\ registry[BestAbove(r, current)].quality_score > QualityOf(current)
<1> DEFINE len == Len(registry)
           Quality(place) ==
             IF place = 0 THEN QualityOf(current) ELSE registry[place].quality_score
           Takes(n, b) == /\ registry[n].id # current
                          /\ ~NotPositive(ScoreCandidate(registry[n], r))
                          /\ Climbs(registry[n], Quality(b))
           step == [n \in 1..len |-> [b \in 0..len |-> IF Takes(n, b) THEN n ELSE b]]
           Loop(f) == [n \in 0..len |-> IF n = 0 THEN 0
                                        ELSE IF Takes(n, f[n - 1]) THEN n ELSE f[n - 1]]
           best == CHOOSE f : f = Loop(f)
<1>1. len \in Nat /\ DOMAIN registry = 1..len
  OBVIOUS
<1>2. BestAbove(r, current) = best[len]
  BY DEF BestAbove
<1> HIDE DEF len, Takes
<1>3. best = Loop(best)
  <2> DEFINE places == 0..len
  <2>1. step \in StepsTo(len, places) /\ 0 \in places
    BY <1>1 DEF StepsTo
  <2> HIDE DEF step, places
  <2>0. Computed(len, places, 0, step)
    BY <1>1, <2>1, Recursion
  <2>2. PICK f \in [0..len -> places] :
          f[0] = 0 /\ \A n \in 1..len : f[n] = step[n][f[n - 1]]
    BY <2>0 DEF Computed
  <2>3. \A n \in 1..len : f[n - 1] \in places
    BY <1>1
  <2>4. \A n \in 1..len : f[n] = IF Takes(n, f[n - 1]) THEN n ELSE f[n - 1]
    BY <1>1, <2>2, <2>3 DEF step, places
  <2>5. f = Loop(f)
    BY <1>1, <2>2, <2>4
  <2> QED
    BY <2>5
<1> HIDE DEF best
<1>4. best[0] = 0 /\ \A n \in 1..len : best[n] = IF Takes(n, best[n - 1]) THEN n ELSE best[n - 1]
  BY <1>1, <1>3
<1> DEFINE good == {n \in 0..len : \/ best[n] = 0
                                   \/ /\ best[n] \in 1..len
                                      /\ registry[best[n]].quality_score > QualityOf(current)}
<1>5. 0 \in good
  BY <1>1, <1>4
<1>6. ASSUME NEW k \in 0..(len - 1), k \in good
      PROVE  k + 1 \in good
  <2>1. k + 1 \in 1..len /\ (k + 1) - 1 = k
    BY <1>1
  <2>2. CASE ~Takes(k + 1, best[k])
    BY <1>4, <1>6, <2>1, <2>2
  <2>3. CASE Takes(k + 1, best[k])
    <3>1. best[k + 1] = k + 1
      BY <1>4, <2>1, <2>3
    <3>2. registry[k + 1].quality_score > Quality(best[k])
      BY <2>3 DEF Takes, Climbs
    <3>3. CASE best[k] = 0
      BY <2>1, <3>1, <3>2, <3>3
    <3>4. CASE best[k] # 0
      <4>1. best[k] \in 1..len /\ registry[best[k]].quality_score > QualityOf(current)
        BY <1>6, <3>4
      <4>2. registry[k + 1] \in Model /\ registry[best[k]] \in Model
        BY <1>1, <2>1, <4>1
      <4>3. /\ registry[k + 1].quality_score \in Nat
            /\ registry[best[k]].quality_score \in Nat
        BY <4>2, QualityIsNat
      <4>4. QualityOf(current) \in Nat
        <5> DEFINE same == {n \in 1..len : registry[n].id = current}
        <5>1. CASE same = {}
          <6>1. SelectInSeq(registry, LAMBDA m : m.id = current) = 0
            BY <5>1 DEF SelectInSeq, len
          <6> QED
            BY <6>1 DEF QualityOf
        <5>2. CASE same # {}
          <6>1. same \subseteq Nat /\ same \subseteq 1..len
            BY <1>1
          <6>2. SelectInSeq(registry, LAMBDA m : m.id = current) = Min(same)
            BY <5>2 DEF SelectInSeq, len
          <6> HIDE DEF same
          <6>3. Min(same) \in same
            BY <5>2, <6>1, LeastNatural DEF Min
          <6>4. Min(same) \in 1..len
            BY <6>1, <6>3
          <6>5. registry[Min(same)] \in Model /\ Min(same) # 0
            BY <1>1, <6>4
          <6>6. registry[Min(same)].quality_score \in Nat
            BY <6>5, QualityIsNat
          <6> QED
            BY <6>2, <6>5, <6>6 DEF QualityOf
        <5> QED
          BY <5>1, <5>2
      <4> HIDE DEF Takes
      <4> QED
        BY <2>1, <3>1, <3>2, <3>4, <4>1, <4>3, <4>4
    <3> QED
      BY <3>3, <3>4
  <2> QED
    BY <2>2, <2>3
<1>7. len \in good
  <2> HIDE DEF good
  <2>1. \A k \in 0..len : k \in good
    BY <1>1, <1>5, <1>6, UpTo
  <2> QED
    BY <1>1, <2>1
<1> QED
  BY <1>1, <1>2, <1>7

\* The places of the models that can be routed to.
Able(r) == {i \in DOMAIN registry : Serves(registry[i], r) /\ ~TooPoor(registry[i], r)}

\* What the loop of route finds is the first of the models that score highest.
LEMMA BestIsFirst ==
  ASSUME registry \in Seq(Model), NEW r \in RoutingRequest
  PROVE  LET best == BestScored(r)
             Score(i) == ScoreCandidate(registry[i], r)
         IN  \/ best = 0 /\ Able(r) = {}
             \/ /\ best \in Able(r)
                /\ \A j \in Able(r) : ~Exceeds(Score(j), Score(best))
                /\ \A j \in Able(r) : j < best => Exceeds(Score(best), Score(j))
<1> DEFINE len == Len(registry)
           Score(i) == ScoreCandidate(registry[i], r)
           Takes(n, b) == /\ ~NotPositive(Score(n))
                          /\ ~TooPoor(registry[n], r)
                          /\ Beats(registry[n], b, r)
           step == [n \in 1..len |-> [b \in 0..len |-> IF Takes(n, b) THEN n ELSE b]]
           Loop(f) == [n \in 0..len |-> IF n = 0 THEN 0
                                        ELSE IF Takes(n, f[n - 1]) THEN n ELSE f[n - 1]]
           best == CHOOSE f : f = Loop(f)
<1>1. len \in Nat /\ DOMAIN registry = 1..len
  OBVIOUS
<1>2. BestScored(r) = best[len]
  BY DEF BestScored
<1>3. \A n \in 1..len : registry[n] \in Model
  OBVIOUS
<1>4. \A n \in 1..len : /\ Score(n).num \in Nat /\ Score(n).den \in Nat
                        /\ Score(n).num > 0 <=> Serves(registry[n], r)
  BY <1>3, ScorePositive
<1>5. \A n \in 1..len : \A b :
        Takes(n, b) <=> n \in Able(r) /\ (b = 0 \/ Exceeds(Score(n), Score(b)))
  <2> SUFFICES ASSUME NEW n \in 1..len, NEW b
               PROVE Takes(n, b) <=> n \in Able(r) /\ (b = 0 \/ Exceeds(Score(n), Score(b)))
    OBVIOUS
  <2>1. /\ Score(n).num \in Nat /\ Score(n).den \in Nat
        /\ Score(n).num > 0 <=> Serves(registry[n], r)
    BY <1>4
  <2>2. Beats(registry[n], b, r) <=> /\ Score(n).den + Score(n).num > 0
                                     /\ b = 0 \/ Exceeds(Score(n), Score(b))
    BY DEF Beats
  <2>3. ~NotPositive(Score(n)) /\ Score(n).den + Score(n).num > 0 <=> Score(n).num > 0
    BY <2>1 DEF NotPositive
  <2>4. n \in Able(r) <=> Serves(registry[n], r) /\ ~TooPoor(registry[n], r)
    BY <1>1 DEF Able
  <2> HIDE DEF Score
  <2> QED
    BY <2>1, <2>2, <2>3, <2>4
<1> HIDE DEF len, Takes
<1>6. best = Loop(best)
  <2> DEFINE places == 0..len
  <2>1. step \in StepsTo(len, places) /\ 0 \in places
    BY <1>1 DEF StepsTo
  <2> HIDE DEF step, places
  <2>0. Computed(len, places, 0, step)
    BY <1>1, <2>1, Recursion
  <2>2. PICK f \in [0..len -> places] :
          f[0] = 0 /\ \A n \in 1..len : f[n] = step[n][f[n - 1]]
    BY <2>0 DEF Computed
  <2>3. \A n \in 1..len : f[n - 1] \in places
    BY <1>1
  <2>4. \A n \in 1..len : f[n] = IF Takes(n, f[n - 1]) THEN n ELSE f[n - 1]
    BY <1>1, <2>2, <2>3 DEF step, places
  <2>5. f = Loop(f)
    BY <1>1, <2>2, <2>4
  <2> QED
    BY <2>5
<1> HIDE DEF best
<1>7. best[0] = 0 /\ \A n \in 1..len : best[n] = IF Takes(n, best[n - 1]) THEN n ELSE best[n - 1]
  BY <1>1, <1>6
<1> HIDE DEF Score
<1> DEFINE First(b, n) ==
             \/ b = 0 /\ \A j \in Able(r) : j > n
             \/ /\ b \in Able(r) /\ b <= n
                /\ \A j \in Able(r) : j <= n => ~Exceeds(Score(j), Score(b))
                /\ \A j \in Able(r) : j < b => Exceeds(Score(b), Score(j))
           good == {n \in 0..len : First(best[n], n)}
<1>8. Able(r) \subseteq 1..len /\ \A j \in Able(r) : Score(j).num \in Nat \ {0}
        /\ Score(j).den \in Nat
  <2>1. Able(r) \subseteq 1..len /\ \A j \in Able(r) : Serves(registry[j], r)
    BY <1>1 DEF Able
  <2> QED
    BY <1>4, <2>1
<1>9. 0 \in good
  BY <1>1, <1>7, <1>8
<1>10. ASSUME NEW k \in 0..(len - 1), k \in good
       PROVE  k + 1 \in good
  <2>1. k + 1 \in 1..len /\ (k + 1) - 1 = k
    BY <1>1
  <2>2. First(best[k], k)
    BY <1>10
  <2>3. CASE ~Takes(k + 1, best[k])
    <3>1. best[k + 1] = best[k]
      BY <1>7, <2>1, <2>3
    <3>2. CASE k + 1 \notin Able(r)
      <4>1. \A j \in Able(r) : (j > k <=> j > k + 1) /\ (j <= k + 1 <=> j <= k)
        BY <1>8, <3>2, <2>1
      <4>2. First(best[k], k + 1)
        BY <1>8, <2>1, <2>2, <4>1
      <4> QED
        BY <2>1, <3>1, <4>2
    <3>3. CASE k + 1 \in Able(r)
      <4>1. best[k] # 0 /\ ~Exceeds(Score(k + 1), Score(best[k]))
        BY <1>5, <2>1, <2>3, <3>3
      <4>2. \A j \in Able(r) : j <= k + 1 => j <= k \/ j = k + 1
        BY <1>8, <2>1
      <4>3. First(best[k], k + 1)
        BY <1>8, <2>1, <2>2, <4>1, <4>2
      <4> QED
        BY <2>1, <3>1, <4>3
    <3> QED
      BY <3>2, <3>3
  <2>4. CASE Takes(k + 1, best[k])
    <3>1. best[k + 1] = k + 1
      BY <1>7, <2>1, <2>4
    <3>2. k + 1 \in Able(r) /\ (best[k] = 0 \/ Exceeds(Score(k + 1), Score(best[k])))
      BY <1>5, <2>1, <2>4
    <3>3. ASSUME NEW j \in Able(r), j <= k
          PROVE  Exceeds(Score(k + 1), Score(j)) /\ ~Exceeds(Score(j), Score(k + 1))
      <4>1. best[k] \in Able(r) /\ ~Exceeds(Score(j), Score(best[k]))
        BY <1>8, <2>1, <2>2, <3>3
      <4>2. best[k] # 0
        BY <1>8, <4>1
      <4>3. Exceeds(Score(k + 1), Score(best[k]))
        BY <3>2, <4>2
      <4> QED
        BY <1>8, <3>2, <4>1, <4>3, ExceedsAll
    <3>4. ~Exceeds(Score(k + 1), Score(k + 1))
      BY <1>8, <3>2 DEF Exceeds
    <3>5. \A j \in Able(r) : /\ j <= k + 1 => j <= k \/ j = k + 1
                             /\ j < k + 1 => j <= k
      BY <1>8, <2>1
    <3>6. First(k + 1, k + 1)
      BY <2>1, <3>2, <3>3, <3>4, <3>5
    <3> QED
      BY <2>1, <3>1, <3>6
  <2> QED
    BY <2>3, <2>4
<1>11. len \in good
  <2> HIDE DEF good
  <2>1. \A k \in 0..len : k \in good
    BY <1>1, <1>9, <1>10, UpTo
  <2> QED
    BY <1>1, <2>1
<1>12. First(best[len], len)
  BY <1>11
<1>13. \A j \in Able(r) : j <= len /\ ~(j > len)
  BY <1>1, <1>8
<1>14. CASE best[len] = 0
  <2>1. 0 \notin Able(r)
    BY <1>8
  <2>2. Able(r) = {}
    BY <1>12, <1>13, <1>14, <2>1
  <2> QED
    BY <1>2, <1>14, <2>2
<1>15. CASE best[len] # 0
  BY <1>2, <1>12, <1>13, <1>15 DEF Score
<1> QED
  BY <1>14, <1>15

-----------------------------------------------------------------------------
(* The router's types, and ChoiceIsBest, which is inductive with them:     *)
(* what it says is of the first decision, which nothing changes before the *)
(* caller asks.                                                            *)
RouterInv ==
  /\ registry \in Registries
  /\ routing \in RoutingRequest
  /\ retry_count \in Nat
  /\ ChoiceIsBest

LEMMA RouterInductive == RouterSpec => []RouterInv
<1>1. RouterInit => RouterInv
  BY RouterAssumption DEF RouterInit, RouterInv, ChoiceIsBest
<1>2. RouterInv /\ [RouterNext]_routerVars => RouterInv'
  <2> SUFFICES ASSUME RouterInv, [RouterNext]_routerVars PROVE RouterInv'
    OBVIOUS
  <2>0. registry \in Seq(Model) /\ routing \in RoutingRequest
    BY RouterAssumption DEF RouterInv
  <2>1. CASE Route
    <3>1. registry' = registry /\ routing' = routing /\ retry_count' = retry_count
      BY <2>1 DEF Route
    <3>2. ASSUME ~routing.escalation_requested PROVE ChoiceIsBest'
      <4> DEFINE best == BestScored(routing)
      <4>1. decision' = IF best = 0 THEN [model |-> Fallback, escalated |-> FALSE]
                        ELSE [model |-> registry[best].id, escalated |-> FALSE]
        BY <2>1, <3>2 DEF Route, RouteFor
      <4>2. \/ best = 0 /\ Able(routing) = {}
            \/ /\ best \in Able(routing)
               /\ \A j \in Able(routing) :
                    ~Exceeds(ScoreCandidate(registry[j], routing), ScoreCandidate(registry[best], routing))
               /\ \A j \in Able(routing) : j < best =>
                    Exceeds(ScoreCandidate(registry[best], routing), ScoreCandidate(registry[j], routing))
        BY <2>0, BestIsFirst
      <4> HIDE DEF best
      <4>3. 0 \notin Able(routing)
        BY <2>0 DEF Able
      <4>4. CASE best = 0
        BY <3>1, <4>1, <4>2, <4>3, <4>4 DEF ChoiceIsBest, Able
      <4>5. CASE best # 0
        <5>1. decision'.model = registry[best].id /\ best \in Able(routing)
          BY <4>1, <4>2, <4>5
        <5> QED
          BY <3>1, <4>2, <4>5, <5>1 DEF ChoiceIsBest, Able
      <4> QED
        BY <4>4, <4>5
    <3>3. ASSUME routing.escalation_requested PROVE ChoiceIsBest'
      BY <3>1, <3>3 DEF ChoiceIsBest
    <3> QED
      BY <3>1, <3>2, <3>3 DEF RouterInv
  <2>2. CASE Escalate
    <3>1. PICK quality \in Qualities : routing' = [routing EXCEPT !.observed_quality = quality]
      BY <2>2 DEF Escalate
    <3>2. quality \in 0..20
      BY RouterAssumption
    <3>3. routing' \in RoutingRequest
      BY <2>0, <3>1, <3>2 DEF RoutingRequest
    <3>4. retry_count' \in Nat /\ retry_count' # 0
      BY <2>2 DEF Escalate, RouterInv
    <3> QED
      BY <2>2, <3>3, <3>4 DEF Escalate, RouterInv, ChoiceIsBest
  <2>3. CASE UNCHANGED routerVars
    BY <2>3 DEF routerVars, RouterInv, ChoiceIsBest
  <2> QED
    BY <2>1, <2>2, <2>3 DEF RouterNext
<1> QED
  BY <1>1, <1>2, PTL DEF RouterSpec

\* For any registry and request, the model routed to without a request to
\* escalate is the first of those that serve the request and score highest.
THEOREM RouteIsBest == RouterSpec => []ChoiceIsBest
<1>1. RouterInv => ChoiceIsBest
  BY DEF RouterInv
<1> QED
  BY <1>1, RouterInductive, PTL

\* For any registry, request and answers, an escalation moves to a model of
\* higher quality, and for one of the three reasons only.
THEOREM EscalationsClimb == RouterSpec => EscalationClimbs
<1> DEFINE Moves == decision # Undecided /\ decision'.model # decision.model =>
              /\ Distinct => QualityOf(decision'.model) > QualityOf(decision.model)
              /\ \/ routing'.observed_quality < QualityThreshold
                 \/ routing'.complexity >= ComplexityThreshold
                 \/ routing'.escalation_requested /\ retry_count = 0
<1>1. RouterInv /\ [RouterNext]_routerVars => [Moves]_routerVars
  <2> SUFFICES ASSUME RouterInv, RouterNext, decision # Undecided,
                      decision'.model # decision.model
               PROVE  Moves
    OBVIOUS
  <2>1. Escalate
    BY DEF RouterNext, Route
  <2>2. registry \in Seq(Model) /\ retry_count \in Nat
    BY RouterAssumption DEF RouterInv
  <2> DEFINE best == BestAbove(routing', decision.model)
  <2>3. /\ WantsEscalation(routing', retry_count) /\ best # 0
        /\ decision'.model = registry[best].id
    BY <2>1 DEF Escalate, CheckEscalation
  <2>4. best \in DOMAIN registry /\ registry[best].quality_score > QualityOf(decision.model)
    BY <2>2, <2>3, BestIsAbove
  <2> HIDE DEF best
  <2>5. Distinct => QualityOf(decision'.model) > QualityOf(decision.model)
    BY <2>2, <2>3, <2>4, QualityFound
  <2>6. \/ routing'.observed_quality < QualityThreshold
        \/ routing'.complexity >= ComplexityThreshold
        \/ routing'.escalation_requested /\ retry_count = 0
    BY <2>2, <2>3 DEF WantsEscalation, RetryLimit
  <2> QED
    BY <2>5, <2>6
<1> QED
  BY <1>1, RouterInductive, PTL DEF RouterSpec, EscalationClimbs

LEMMA ListIsSeq ==
  ASSUME NEW S, NEW n \in Nat, NEW list \in [1..n -> S]
  PROVE  list \in Seq(S) /\ Len(list) = n
BY SeqDef

\* A text grown one piece at a time is the pieces flattened.
LEMMA FlattenIsGrown ==
  ASSUME NEW S, NEW n \in Nat, NEW pieces \in [1..n -> Seq(S)],
         NEW text \in [0..n -> Seq(S)], text[0] = <<>>,
         \A i \in 1..n : text[i] = text[i - 1] \o pieces[i]
  PROVE  FlattenSeq(pieces) = text[n]
<1>1. pieces \in Seq(Seq(S)) /\ Len(pieces) = n
  <2> DEFINE texts == Seq(S)
  <2>1. pieces \in [1..n -> texts]
    OBVIOUS
  <2> HIDE DEF texts
  <2>2. pieces \in Seq(texts) /\ Len(pieces) = n
    BY <2>1, ListIsSeq
  <2> QED
    BY <2>2 DEF texts
<1>2. CASE n = 0
  BY <1>1, <1>2 DEF FlattenSeq
<1>3. CASE n # 0
  <2> DEFINE Grow(f) == [i \in 1..n |-> IF i = 1 THEN pieces[i] ELSE f[i - 1] \o pieces[i]]
             flatten == CHOOSE f : f = Grow(f)
             g == [i \in 1..n |-> text[i]]
  <2>1. FlattenSeq(pieces) = flatten[n]
    BY <1>1, <1>3 DEF FlattenSeq
  <2>2. text[1] = pieces[1]
    <3>1. 1 \in 1..n /\ text[1 - 1] = <<>>
      BY <1>3
    <3>2. pieces[1] \in Seq(S)
      BY <3>1
    <3>3. <<>> \o pieces[1] = pieces[1]
      BY <3>2, ConcatEmptySeq
    <3>4. text[1] = text[1 - 1] \o pieces[1]
      BY <3>1
    <3> QED
      BY <3>1, <3>3, <3>4
  <2>3. g = Grow(g)
    <3>1. ASSUME NEW i \in 1..n
          PROVE  g[i] = IF i = 1 THEN pieces[i] ELSE g[i - 1] \o pieces[i]
      <4>1. CASE i = 1
        BY <2>2, <4>1
      <4>2. CASE i # 1
        <5>1. i - 1 \in 1..n
          BY <4>2
        <5> QED
          BY <4>2, <5>1
      <4> QED
        BY <4>1, <4>2
    <3> QED
      BY <3>1
  <2>4. flatten = Grow(flatten)
    <3> HIDE DEF g
    <3> QED
      BY <2>3
  <2> HIDE DEF flatten
  <2> DEFINE agree == {0} \cup {i \in 1..n : flatten[i] = text[i]}
  <2>5. ASSUME NEW k \in 0..(n - 1), k \in agree
        PROVE  k + 1 \in agree
    <3>1. k + 1 \in 1..n /\ (k + 1) - 1 = k
      OBVIOUS
    <3>2. flatten[k + 1] = IF k + 1 = 1 THEN pieces[k + 1] ELSE flatten[k] \o pieces[k + 1]
      BY <2>4, <3>1
    <3>3. text[k + 1] = text[k] \o pieces[k + 1]
      BY <3>1
    <3>4. CASE k = 0
      BY <2>2, <3>1, <3>2, <3>4
    <3>5. CASE k # 0
      <4>1. flatten[k] = text[k] /\ k + 1 # 1
        BY <2>5, <3>5
      <4> QED
        BY <3>1, <3>2, <3>3, <4>1
    <3> QED
      BY <3>4, <3>5
  <2>6. n \in agree
    <3>1. 0 \in agree
      OBVIOUS
    <3> HIDE DEF agree
    <3>2. \A k \in 0..n : k \in agree
      BY <2>5, <3>1, UpTo
    <3> QED
      BY <3>2
  <2> QED
    BY <1>3, <2>1, <2>6
<1> QED
  BY <1>2, <1>3

FirstOf(n, pieces) == [i \in 1..n |-> pieces[i]]

LEMMA FlattenNone ==
  ASSUME NEW S, NEW pieces \in [1..0 -> S]
  PROVE  FlattenSeq(pieces) = <<>>
<1>1. pieces \in Seq(S) /\ Len(pieces) = 0
  BY ListIsSeq
<1> QED
  BY <1>1 DEF FlattenSeq

Grown(n, S, pieces) ==
  \E text \in [0..n -> Seq(S)] :
    text[0] = <<>> /\ \A i \in 1..n : text[i] = text[i - 1] \o pieces[i]

\* Pieces flattened are a text grown from nothing.
LEMMA TextIsGrown ==
  ASSUME NEW S, NEW n \in Nat, NEW pieces, pieces \in [1..n -> Seq(S)]
  PROVE  Grown(n, S, pieces)
<1> DEFINE texts == Seq(S)
           step == [i \in 1..n |-> [text \in texts |-> text \o pieces[i]]]
           empty == <<>>
<1>1. step \in StepsTo(n, texts) /\ empty \in texts
  <2>1. ASSUME NEW i \in 1..n, NEW text \in texts
        PROVE  text \o pieces[i] \in texts
    <3>1. pieces[i] \in Seq(S)
      OBVIOUS
    <3> QED
      BY <3>1, ConcatProperties
  <2> QED
    BY <2>1 DEF StepsTo
<1>2. \A i \in 1..n : \A text \in texts : step[i][text] = text \o pieces[i]
  OBVIOUS
<1> HIDE DEF step, texts, empty
<1>3. PICK text \in [0..n -> texts] :
        text[0] = empty /\ \A i \in 1..n : text[i] = step[i][text[i - 1]]
  <2>1. Computed(n, texts, empty, step)
    BY <1>1, Recursion
  <2> QED
    BY <2>1 DEF Computed
<1>4. ASSUME NEW i \in 1..n
      PROVE  text[i] = text[i - 1] \o pieces[i]
  <2>1. text[i - 1] \in texts
    BY <1>3
  <2> QED
    BY <1>2, <1>3, <2>1
<1> QED
  BY <1>3, <1>4 DEF texts, empty, Grown

\* The last piece goes after what the others make.
LEMMA FlattenStep ==
  ASSUME NEW S, NEW n \in Nat, NEW pieces \in [1..(n + 1) -> Seq(S)]
  PROVE  /\ FlattenSeq(FirstOf(n, pieces)) \in Seq(S)
         /\ FlattenSeq(pieces) = FlattenSeq(FirstOf(n, pieces)) \o pieces[n + 1]
<1>3. PICK text \in [0..(n + 1) -> Seq(S)] :
        text[0] = <<>> /\ \A i \in 1..(n + 1) : text[i] = text[i - 1] \o pieces[i]
  <2>1. n + 1 \in Nat
    OBVIOUS
  <2>2. Grown(n + 1, S, pieces)
    BY <2>1, TextIsGrown
  <2> QED
    BY <2>2 DEF Grown
<1>5. FlattenSeq(pieces) = text[n + 1]
  <2>1. n + 1 \in Nat
    OBVIOUS
  <2> QED
    BY <1>3, <2>1, FlattenIsGrown
<1>6. FlattenSeq(FirstOf(n, pieces)) = text[n]
  <2> DEFINE less == [i \in 0..n |-> text[i]]
  <2>1. less \in [0..n -> Seq(S)] /\ less[0] = <<>>
    BY <1>3
  <2>2. FirstOf(n, pieces) \in [1..n -> Seq(S)]
    BY DEF FirstOf
  <2>3. ASSUME NEW i \in 1..n
        PROVE  less[i] = less[i - 1] \o FirstOf(n, pieces)[i]
    <3>1. i \in 1..(n + 1) /\ i \in 0..n /\ i - 1 \in 0..n
      OBVIOUS
    <3>2. FirstOf(n, pieces)[i] = pieces[i]
      BY DEF FirstOf
    <3> QED
      BY <1>3, <3>1, <3>2
  <2>4. less[n] = text[n]
    OBVIOUS
  <2> DEFINE pieced == FirstOf(n, pieces)
  <2> HIDE DEF less, pieced
  <2>5. FlattenSeq(pieced) = less[n]
    <3>1. pieced \in [1..n -> Seq(S)] /\ \A i \in 1..n : less[i] = less[i - 1] \o pieced[i]
      BY <2>2, <2>3 DEF pieced
    <3> QED
      BY <2>1, <3>1, FlattenIsGrown
  <2> QED
    BY <1>3, <2>4, <2>5 DEF pieced
<1>7. text[n + 1] = text[n] \o pieces[n + 1] /\ text[n] \in Seq(S)
  <2>1. n \in 0..(n + 1) /\ n + 1 \in 1..(n + 1) /\ (n + 1) - 1 = n
    OBVIOUS
  <2>2. text[n + 1] = text[(n + 1) - 1] \o pieces[n + 1]
    BY <1>3, <2>1
  <2> QED
    BY <2>1, <2>2
<1> QED
  BY <1>5, <1>6, <1>7

\* Pieces of a type make a text of that type.
LEMMA FlattenType ==
  ASSUME NEW S, NEW n \in Nat, NEW pieces \in [1..n -> Seq(S)]
  PROVE  FlattenSeq(pieces) \in Seq(S)
<1> DEFINE more == [i \in 1..(n + 1) |-> IF i = n + 1 THEN <<>> ELSE pieces[i]]
<1>1. more \in [1..(n + 1) -> Seq(S)]
  OBVIOUS
<1>2. FirstOf(n, more) = pieces
  BY DEF FirstOf
<1> HIDE DEF more
<1> QED
  BY <1>1, <1>2, FlattenStep

-----------------------------------------------------------------------------
(* OllamaChat: the body, its lines and the objects in them.                *)

\* What Init chooses and no step changes.
Exchange ==
  /\ mode \in {"plain", "stream", "callback"}
  /\ lines \in Seq(Kind) /\ Len(lines) <= MaxLines
  /\ tail \in {"newline", "whole", "cut"}
  /\ lines = <<>> => tail = "newline"

First(i) == Part(i, "first")
Second(i) == Part(i, "second")
Newline(i) == Part(i, "newline")

LEMMA Tuples ==
  ASSUME NEW a, NEW b, NEW c
  PROVE  /\ <<a>> \o <<b>> = <<a, b>> /\ <<a>> \o <<>> = <<a>>
         /\ <<a, b>> \o <<c>> = <<a, b, c>> /\ <<a, b>> \o <<>> = <<a, b>>
<1> DEFINE S == {a, b, c}
<1>1. <<a>> \in Seq(S) /\ <<a, b>> \in Seq(S) /\ b \in S /\ c \in S
  OBVIOUS
<1>2. Len(<<a>>) = 1 /\ Len(<<a, b>>) = 2 /\ Len(<<a, b, c>>) = 3 /\ <<a, b, c>> \in Seq(S)
  OBVIOUS
<1>5. <<b>> \in Seq(S) /\ Len(<<b>>) = 1 /\ <<c>> \in Seq(S) /\ Len(<<c>>) = 1
  OBVIOUS
<1> HIDE DEF S
<1>3. <<a>> \o <<b>> = <<a, b>>
  <2> DEFINE both == <<a>> \o <<b>>
  <2>1. both \in Seq(S) /\ Len(both) = 2 /\ both[1] = a /\ both[2] = b
    BY <1>1, <1>2, <1>5, ConcatProperties
  <2> HIDE DEF both
  <2>2. \A i \in 1..2 : both[i] = <<a, b>>[i]
    BY <2>1
  <2>3. both = <<a, b>>
    BY <1>1, <1>2, <2>1, <2>2, SeqEqual
  <2> QED
    BY <2>3 DEF both
<1>6. <<a, b>> \o <<c>> = <<a, b, c>>
  <2> DEFINE all == <<a, b>> \o <<c>>
  <2>1. all \in Seq(S) /\ Len(all) = 3 /\ all[1] = a /\ all[2] = b /\ all[3] = c
    BY <1>1, <1>2, <1>5, ConcatProperties
  <2> HIDE DEF all
  <2>2. \A i \in 1..3 : all[i] = <<a, b, c>>[i]
    BY <2>1
  <2>3. all = <<a, b, c>>
    BY <1>1, <1>2, <2>1, <2>2, SeqEqual
  <2> QED
    BY <2>3 DEF all
<1>4. <<a>> \o <<>> = <<a>> /\ <<a, b>> \o <<>> = <<a, b>>
  BY <1>1, ConcatEmptySeq
<1> QED
  BY <1>3, <1>4, <1>6

LEMMA BytesOfLine ==
  ASSUME Exchange, NEW i \in 1..Len(lines)
  PROVE  BytesOf(i) = IF i = Len(lines) /\ tail = "cut" THEN <<First(i)>>
                      ELSE IF i = Len(lines) /\ tail = "whole" THEN <<First(i), Second(i)>>
                      ELSE <<First(i), Second(i), Newline(i)>>
<1> DEFINE a == First(i)
           b == Second(i)
           c == Newline(i)
<1> HIDE DEF a, b, c
<1>1. /\ <<a>> \o <<b>> = <<a, b>> /\ <<a>> \o <<>> = <<a>>
      /\ <<a, b>> \o <<c>> = <<a, b, c>> /\ <<a, b>> \o <<>> = <<a, b>>
  BY Tuples
<1>2. CASE i = Len(lines) /\ tail = "cut"
  BY <1>1, <1>2 DEF a, b, c, BytesOf, First, Second, Newline
<1>3. CASE i = Len(lines) /\ tail = "whole"
  BY <1>1, <1>3 DEF a, b, c, BytesOf, First, Second, Newline
<1>4. CASE ~(i = Len(lines) /\ tail \in {"cut", "whole"})
  BY <1>1, <1>4 DEF a, b, c, BytesOf, First, Second, Newline, Exchange
<1> QED
  BY <1>2, <1>3, <1>4

\* Three bytes for each line with its newline.
Whole(text, k) ==
  /\ text \in Seq(Byte) /\ Len(text) = 3 * k
  /\ \A i \in 0..(k - 1) : /\ text[3 * i + 1] = First(i + 1)
                           /\ text[3 * i + 2] = Second(i + 1)
                           /\ text[3 * i + 3] = Newline(i + 1)

LEMMA WholeLonger ==
  ASSUME NEW k \in Nat, k + 1 <= MaxLines, NEW text, Whole(text, k)
  PROVE  Whole(text \o <<First(k + 1), Second(k + 1), Newline(k + 1)>>, k + 1)
<1> DEFINE more == <<First(k + 1), Second(k + 1), Newline(k + 1)>>
           longer == text \o more
<1>1. text \in Seq(Byte) /\ Len(text) = 3 * k
  BY DEF Whole
<1>2. more \in Seq(Byte) /\ Len(more) = 3
  BY MaxLinesAssumption DEF First, Second, Newline, Part, Byte, Line
<1>3. more[1] = First(k + 1) /\ more[2] = Second(k + 1) /\ more[3] = Newline(k + 1)
  OBVIOUS
<1> HIDE DEF more
<1>4. /\ longer \in Seq(Byte) /\ Len(longer) = 3 * k + 3
      /\ \A i \in 1..(3 * k + 3) : longer[i] = IF i <= 3 * k THEN text[i] ELSE more[i - 3 * k]
  <2>1. /\ longer \in Seq(Byte) /\ Len(longer) = Len(text) + Len(more)
        /\ \A i \in 1..(Len(text) + Len(more)) :
             longer[i] = IF i <= Len(text) THEN text[i] ELSE more[i - Len(text)]
    BY <1>1, <1>2, ConcatProperties
  <2> QED
    BY <1>1, <1>2, <2>1
<1> HIDE DEF longer
<1>5. ASSUME NEW i \in 0..k
      PROVE  /\ longer[3 * i + 1] = First(i + 1)
             /\ longer[3 * i + 2] = Second(i + 1)
             /\ longer[3 * i + 3] = Newline(i + 1)
  <2>1. CASE i = k
    <3>1. /\ longer[3 * k + 1] = more[1] /\ longer[3 * k + 2] = more[2]
          /\ longer[3 * k + 3] = more[3]
      <4>1. ASSUME NEW n \in 1..3
            PROVE  longer[3 * k + n] = more[n]
        <5>1. /\ 3 * k + n \in 1..(3 * k + 3) /\ ~(3 * k + n <= 3 * k)
              /\ (3 * k + n) - 3 * k = n
          BY <1>1
        <5> QED
          BY <1>4, <5>1
      <4> QED
        BY <4>1
    <3> QED
      BY <1>3, <2>1, <3>1
  <2>2. CASE i # k
    <3>1. i \in 0..(k - 1) /\ 3 * i + 3 <= 3 * k
      BY <2>2
    <3>2. /\ longer[3 * i + 1] = text[3 * i + 1] /\ longer[3 * i + 2] = text[3 * i + 2]
          /\ longer[3 * i + 3] = text[3 * i + 3]
      BY <1>4, <3>1
    <3> QED
      BY <3>1, <3>2 DEF Whole
  <2> QED
    BY <2>1, <2>2
<1>6. Whole(longer, k + 1)
  BY <1>4, <1>5 DEF Whole
<1> QED
  BY <1>6 DEF longer, more

Short == IF tail = "newline" THEN 0 ELSE IF tail = "whole" THEN 1 ELSE 2

\* The bytes of the body, by the line they are of.
BodyIsLines ==
  /\ Body \in Seq(Byte)
  /\ Len(Body) = 3 * Len(lines) - Short
  /\ \A k \in 0..(Len(lines) - 1) :
       /\ Body[3 * k + 1] = First(k + 1)
       /\ 3 * k + 2 <= Len(Body) => Body[3 * k + 2] = Second(k + 1)
       /\ 3 * k + 3 <= Len(Body) => Body[3 * k + 3] = Newline(k + 1)

BytesTo(k) == FlattenSeq(FirstOf(k, [i \in 1..Len(lines) |-> BytesOf(i)]))

\* The body line by line.
LEMMA BodyGrows ==
  ASSUME Exchange
  PROVE  /\ BytesTo(0) = <<>> /\ BytesTo(Len(lines)) = Body
         /\ \A i \in 1..Len(lines) : BytesOf(i) \in Seq(Byte)
         /\ \A k \in 0..(Len(lines) - 1) : BytesTo(k + 1) = BytesTo(k) \o BytesOf(k + 1)
<1> DEFINE n == Len(lines)
           bytes == [i \in 1..n |-> BytesOf(i)]
<1>1. n \in Nat /\ n <= MaxLines
  BY DEF Exchange
<1>2. \A i \in 1..n : BytesOf(i) \in Seq(Byte)
  <2> SUFFICES ASSUME NEW i \in 1..n PROVE BytesOf(i) \in Seq(Byte)
    OBVIOUS
  <2>1. i \in Line
    BY <1>1, MaxLinesAssumption DEF Line
  <2>2. First(i) \in Byte /\ Second(i) \in Byte /\ Newline(i) \in Byte
    BY <2>1 DEF First, Second, Newline, Part, Byte
  <2>3. /\ <<First(i)>> \in Seq(Byte) /\ <<First(i), Second(i)>> \in Seq(Byte)
        /\ <<First(i), Second(i), Newline(i)>> \in Seq(Byte)
    BY <2>2
  <2> QED
    BY <2>3, BytesOfLine
<1>3. bytes \in [1..n -> Seq(Byte)] /\ \A i \in 1..n : bytes[i] = BytesOf(i)
  BY <1>2
<1>4. ASSUME NEW k \in 0..(n - 1)
      PROVE  BytesTo(k + 1) = BytesTo(k) \o BytesOf(k + 1)
  <2> DEFINE some == FirstOf(k + 1, bytes)
  <2>1. some \in [1..(k + 1) -> Seq(Byte)]
    BY <1>1, <1>3 DEF FirstOf
  <2>2. FirstOf(k, some) = FirstOf(k, bytes) /\ some[k + 1] = BytesOf(k + 1)
    BY <1>1, <1>3 DEF FirstOf
  <2>3. BytesTo(k + 1) = FlattenSeq(some) /\ BytesTo(k) = FlattenSeq(FirstOf(k, bytes))
    BY DEF BytesTo
  <2> HIDE DEF some, bytes
  <2>4. k \in Nat
    BY <1>1
  <2>5. FlattenSeq(some) = FlattenSeq(FirstOf(k, some)) \o some[k + 1]
    BY <2>1, <2>4, FlattenStep
  <2> QED
    BY <2>2, <2>3, <2>5
<1>5. BytesTo(n) = Body
  <2>1. FirstOf(n, bytes) = bytes
    BY <1>3 DEF FirstOf
  <2> QED
    BY <2>1 DEF BytesTo, Body
<1>6. BytesTo(0) = <<>>
  <2>1. FirstOf(0, bytes) \in [1..0 -> Seq(Byte)]
    BY DEF FirstOf
  <2> QED
    BY <2>1, FlattenNone DEF BytesTo
<1> QED
  BY <1>2, <1>4, <1>5, <1>6

LEMMA BodyBytes ==
  ASSUME Exchange
  PROVE  BodyIsLines
<1> DEFINE n == Len(lines)
<1>1. n \in Nat /\ n <= MaxLines
  BY DEF Exchange
<1>2. \A i \in 1..n : BytesOf(i) \in Seq(Byte)
  BY BodyGrows
<1>3. \A k \in 0..(n - 1) : BytesTo(k + 1) = BytesTo(k) \o BytesOf(k + 1)
  BY BodyGrows
<1> DEFINE whole == {k \in 0..n : k <= n - 1 => Whole(BytesTo(k), k)}
<1>8. ASSUME NEW k \in 0..(n - 1), k \in whole
      PROVE  k + 1 \in whole
  <2> SUFFICES ASSUME k + 1 <= n - 1 PROVE Whole(BytesTo(k + 1), k + 1)
    BY <1>1
  <2>1. BytesOf(k + 1) = <<First(k + 1), Second(k + 1), Newline(k + 1)>>
    <3>1. k + 1 \in 1..n /\ k + 1 # n
      BY <1>1
    <3> QED
      BY <3>1, BytesOfLine
  <2>2. BytesTo(k + 1) = BytesTo(k) \o BytesOf(k + 1)
    BY <1>3
  <2>3. k <= n - 1 /\ k \in Nat /\ k + 1 <= MaxLines
    BY <1>1, MaxLinesAssumption
  <2>4. Whole(BytesTo(k), k)
    BY <1>8, <2>3
  <2> QED
    BY <2>1, <2>2, <2>3, <2>4, WholeLonger
<1>9. 0 \in whole
  <2>1. <<>> \in Seq(Byte) /\ Len(<<>>) = 0
    BY EmptySeq
  <2>2. Whole(<<>>, 0)
    BY <2>1 DEF Whole
  <2> QED
    BY <1>1, <2>2, BodyGrows
<1>10. \A k \in 0..(n - 1) : Whole(BytesTo(k), k)
  <2> HIDE DEF whole
  <2>1. \A k \in 0..n : k \in whole
    BY <1>1, <1>8, <1>9, UpTo
  <2> QED
    BY <1>1, <2>1 DEF whole
<1>11. CASE n = 0
  <2>1. Body = <<>>
    BY <1>11, BodyGrows
  <2>2. tail = "newline"
    BY <1>11 DEF Exchange
  <2> QED
    BY <1>1, <1>11, <2>1, <2>2, EmptySeq DEF BodyIsLines, Short
<1>12. CASE n # 0
  <2> DEFINE m == n - 1
             most == BytesTo(m)
             end == BytesOf(n)
  <2>1. m \in 0..(n - 1) /\ m + 1 = n
    BY <1>1, <1>12
  <2>2. Whole(most, m)
    BY <1>10, <2>1
  <2>3. Body = most \o end
    <3>1. BytesTo(m + 1) = BytesTo(m) \o BytesOf(m + 1)
      BY <1>3, <2>1
    <3> QED
      BY <2>1, <3>1, BodyGrows
  <2>4. end \in Seq(Byte) /\ Len(end) = 3 - Short
    <3>1. n \in 1..n /\ tail \in {"newline", "whole", "cut"}
      BY <1>1, <1>12 DEF Exchange
    <3>2. end \in Seq(Byte)
      BY <1>2, <3>1
    <3>3. end = IF tail = "cut" THEN <<First(n)>>
                ELSE IF tail = "whole" THEN <<First(n), Second(n)>>
                ELSE <<First(n), Second(n), Newline(n)>>
      BY <3>1, BytesOfLine
    <3>4. Len(end) = 3 - Short
      BY <3>1, <3>3 DEF Short
    <3> QED
      BY <3>2, <3>4
  <2>5. /\ end[1] = First(n)
        /\ Len(end) >= 2 => end[2] = Second(n)
        /\ Len(end) >= 3 => end[3] = Newline(n)
    BY <1>1, <1>12, BytesOfLine
  <2> HIDE DEF most, end, n, m
  <2>6. most \in Seq(Byte) /\ Len(most) = 3 * m
    BY <2>2 DEF Whole
  <2>7. /\ Body \in Seq(Byte) /\ Len(Body) = 3 * m + Len(end)
        /\ \A i \in 1..(3 * m + Len(end)) :
             Body[i] = IF i <= 3 * m THEN most[i] ELSE end[i - 3 * m]
    <3>1. /\ most \o end \in Seq(Byte) /\ Len(most \o end) = Len(most) + Len(end)
          /\ \A i \in 1..(Len(most) + Len(end)) :
               (most \o end)[i] = IF i <= Len(most) THEN most[i] ELSE end[i - Len(most)]
      BY <2>4, <2>6, ConcatProperties
    <3> QED
      BY <2>3, <2>6, <3>1
  <2>8. Len(end) \in 1..3
    BY <2>4 DEF Short
  <2>9. ASSUME NEW k \in 0..(n - 1)
        PROVE  /\ Body[3 * k + 1] = First(k + 1)
               /\ 3 * k + 2 <= Len(Body) => Body[3 * k + 2] = Second(k + 1)
               /\ 3 * k + 3 <= Len(Body) => Body[3 * k + 3] = Newline(k + 1)
    <3>1. CASE k = m
      <4>0. ASSUME NEW j \in 1..Len(end)
            PROVE  Body[3 * m + j] = end[j]
        <5>1. 3 * m + j \in 1..(3 * m + Len(end)) /\ ~(3 * m + j <= 3 * m)
          BY <1>1, <2>1, <2>8
        <5>2. (3 * m + j) - 3 * m = j
          BY <1>1, <2>1, <2>8
        <5> QED
          BY <2>7, <5>1, <5>2
      <4>1. Body[3 * m + 1] = end[1]
        BY <2>8, <4>0
      <4>2. 3 * m + 2 <= Len(Body) => Body[3 * m + 2] = end[2] /\ Len(end) >= 2
        BY <1>1, <2>1, <2>7, <2>8, <4>0
      <4>3. 3 * m + 3 <= Len(Body) => Body[3 * m + 3] = end[3] /\ Len(end) >= 3
        BY <1>1, <2>1, <2>7, <2>8, <4>0
      <4> QED
        <5>1. m + 1 = n
          BY <2>1
        <5>2. First(m + 1) = First(n) /\ Second(m + 1) = Second(n) /\ Newline(m + 1) = Newline(n)
          BY <5>1
        <5>3. Body[3 * m + 1] = First(m + 1)
          BY <2>5, <4>1, <5>2
        <5>4. 3 * m + 2 <= Len(Body) => Body[3 * m + 2] = Second(m + 1)
          BY <2>5, <4>2, <5>2
        <5>5. 3 * m + 3 <= Len(Body) => Body[3 * m + 3] = Newline(m + 1)
          BY <2>5, <4>3, <5>2
        <5> QED
          BY <3>1, <5>3, <5>4, <5>5
    <3>2. CASE k # m
      <4>1. k \in 0..(m - 1) /\ 3 * k + 3 <= 3 * m
        BY <1>1, <2>1, <3>2
      <4>2. /\ Body[3 * k + 1] = most[3 * k + 1] /\ Body[3 * k + 2] = most[3 * k + 2]
            /\ Body[3 * k + 3] = most[3 * k + 3]
        BY <1>1, <2>1, <2>7, <2>8, <4>1
      <4> QED
        BY <2>2, <4>1, <4>2 DEF Whole
    <3> QED
      BY <3>1, <3>2
  <2>10. Len(Body) = 3 * n - Short
    BY <1>1, <2>1, <2>4, <2>7 DEF Short
  <2> QED
    BY <2>7, <2>9, <2>10 DEF BodyIsLines, n
<1> QED
  BY <1>11, <1>12

Rest(k, upto) == SubSeq(Body, 3 * k + 1, upto)

\* What has come of the lines after the first k: its first newline ends the
\* line k + 1.
LEMMA RestBytes ==
  ASSUME Exchange, NEW k \in 0..Len(lines), NEW upto \in (3 * k)..Len(Body)
  PROVE  /\ Rest(k, upto) \in Seq(Byte)
         /\ Len(Rest(k, upto)) = upto - 3 * k
         /\ \A j \in 1..(upto - 3 * k) : Rest(k, upto)[j] = Body[3 * k + j]
         /\ NewlineAt(Rest(k, upto)) = IF upto >= 3 * k + 3 THEN 3 ELSE 0
<1> DEFINE n == Len(lines)
           rest == Rest(k, upto)
           ends == {j \in 1..Len(rest) : IsNewline(rest[j])}
<1>1. n \in Nat /\ BodyIsLines
  BY BodyBytes DEF Exchange
<1>2. Body \in Seq(Byte) /\ Len(Body) \in Nat /\ Len(Body) <= 3 * n
  BY <1>1 DEF BodyIsLines, Short
<1>3. rest \in Seq(Byte) /\ Len(rest) = upto - 3 * k
  <2>1. \A i \in (3 * k + 1)..upto : Body[i] \in Byte
    BY <1>2
  <2>2. /\ rest \in Seq(Byte)
        /\ Len(rest) = IF 3 * k + 1 <= upto THEN upto - (3 * k + 1) + 1 ELSE 0
    BY <1>2, <2>1, SubSeqProperties DEF Rest
  <2> QED
    BY <1>2, <2>2
<1>4. ASSUME NEW j \in 1..(upto - 3 * k)
      PROVE  rest[j] = Body[3 * k + j]
  <2>1. \A i \in (3 * k + 1)..upto : Body[i] \in Byte
    BY <1>2
  <2>2. \A i \in 1..(upto - (3 * k + 1) + 1) : rest[i] = Body[(3 * k + 1) + i - 1]
    BY <1>2, <2>1, SubSeqProperties DEF Rest
  <2>3. j \in 1..(upto - (3 * k + 1) + 1) /\ (3 * k + 1) + j - 1 = 3 * k + j
    BY <1>2
  <2> QED
    BY <2>2, <2>3
<1>5. NewlineAt(rest) = IF ends # {} THEN Min(ends) ELSE 0
  BY DEF NewlineAt, SelectInSeq
<1> SUFFICES NewlineAt(rest) = IF upto >= 3 * k + 3 THEN 3 ELSE 0
  BY <1>3, <1>4
<1> HIDE DEF rest
<1>6. CASE upto >= 3 * k + 3
  <2>1. k \in 0..(n - 1) /\ 3 * k + 3 <= Len(Body)
    BY <1>1, <1>2, <1>6
  <2>2. Body[3 * k + 1] = First(k + 1) /\ Body[3 * k + 2] = Second(k + 1)
          /\ Body[3 * k + 3] = Newline(k + 1)
    <3>1. 3 * k + 2 <= Len(Body)
      BY <1>2, <2>1
    <3> QED
      BY <1>1, <2>1, <3>1 DEF BodyIsLines
  <2>3. 1 \in 1..(upto - 3 * k) /\ 2 \in 1..(upto - 3 * k) /\ 3 \in 1..(upto - 3 * k)
    BY <1>2, <1>6
  <2>4. rest[1] = First(k + 1) /\ rest[2] = Second(k + 1) /\ rest[3] = Newline(k + 1)
    BY <1>4, <2>2, <2>3
  <2>5. 3 \in ends /\ 1 \notin ends /\ 2 \notin ends
    BY <1>3, <2>3, <2>4 DEF IsNewline, First, Second, Newline, Part
  <2>6. \A j \in ends : j \in Nat /\ j >= 3
    BY <1>3, <2>5
  <2> HIDE DEF ends
  <2>7. Min(ends) \in ends /\ Min(ends) <= 3
    BY <2>5, <2>6 DEF Min
  <2>8. Min(ends) = 3
    BY <2>6, <2>7
  <2> QED
    BY <1>5, <1>6, <2>5, <2>8
<1>7. CASE ~(upto >= 3 * k + 3)
  <2>1. CASE upto = 3 * k
    <3>1. ends = {}
      BY <1>2, <1>3, <2>1
    <3> QED
      BY <1>5, <1>7, <3>1
  <2>2. CASE upto # 3 * k
    <3>1. k \in 0..(n - 1) /\ 3 * k + 1 <= upto /\ upto <= Len(Body)
      BY <1>1, <1>2, <2>2
    <3>2. Body[3 * k + 1] = First(k + 1) /\ (3 * k + 2 <= upto => Body[3 * k + 2] = Second(k + 1))
      BY <1>1, <1>2, <3>1 DEF BodyIsLines
    <3>3. ASSUME NEW j \in ends PROVE FALSE
      <4>1. j \in 1..(upto - 3 * k) /\ j \in 1..2
        BY <1>2, <1>3, <1>7, <3>1
      <4>2. rest[j] = Body[3 * k + j]
        BY <1>4, <4>1
      <4>3. rest[j] = First(k + 1) \/ rest[j] = Second(k + 1)
        <5>1. CASE j = 1
          BY <3>2, <4>2, <5>1
        <5>2. CASE j = 2
          <6>1. 3 * k + 2 <= upto
            BY <1>2, <4>1, <5>2
          <6> QED
            BY <3>2, <4>2, <5>2, <6>1
        <5> QED
          BY <4>1, <5>1, <5>2
      <4> QED
        BY <4>3 DEF IsNewline, First, Second, Part
    <3>4. ends = {}
      BY <3>3
    <3> QED
      BY <1>5, <1>7, <3>4
  <2> QED
    BY <2>1, <2>2
<1> QED
  BY <1>6, <1>7

\* What a line gives.
Chunk(i) ==
  IF lines[i] # "junk" /\ ~(i = Len(lines) /\ tail = "cut") THEN <<i>> ELSE <<>>

LEMMA LineParsed ==
  ASSUME NEW i, NEW text, Len(text) = 2, text[1] = First(i), text[2] = Second(i)
  PROVE  ParseStreamLine(text) = IF lines[i] # "junk" THEN <<i>> ELSE <<>>
BY DEF ParseStreamLine, First, Second, Part

LEMMA PieceParsed ==
  ASSUME NEW text, Len(text) # 2
  PROVE  ParseStreamLine(text) = <<>>
BY DEF ParseStreamLine

LEMMA ObjectsGrow ==
  ASSUME Exchange
  PROVE  /\ Objects(0) = <<>>
         /\ \A k \in 0..Len(lines) : Objects(k) \in Seq(Line)
         /\ \A k \in 0..(Len(lines) - 1) :
              Chunk(k + 1) \in Seq(Line) /\ Objects(k + 1) = Objects(k) \o Chunk(k + 1)
<1> DEFINE n == Len(lines)
           given(k) == [i \in 1..k |-> Chunk(i)]
<1>1. n \in Nat /\ n <= MaxLines
  BY DEF Exchange
<1>2. ASSUME NEW k \in 0..n
      PROVE  given(k) \in [1..k -> Seq(Line)]
  <2> SUFFICES ASSUME NEW i \in 1..k PROVE Chunk(i) \in Seq(Line)
    OBVIOUS
  <2>1. i \in Line
    BY <1>1, MaxLinesAssumption DEF Line
  <2> QED
    BY <2>1 DEF Chunk
<1>3. \A k \in 0..n : Objects(k) = FlattenSeq(given(k))
  BY DEF Objects, Chunk
<1>4. Objects(0) = <<>>
  <2>1. given(0) \in [1..0 -> Seq(Line)] /\ 0 \in 0..n
    BY <1>1, <1>2
  <2> HIDE DEF given
  <2> QED
    BY <1>3, <2>1, FlattenNone
<1>5. ASSUME NEW k \in 0..n
      PROVE  Objects(k) \in Seq(Line)
  <2>1. k \in Nat /\ given(k) \in [1..k -> Seq(Line)]
    BY <1>1, <1>2
  <2> HIDE DEF given
  <2> QED
    BY <1>3, <2>1, FlattenType
<1>6. ASSUME NEW k \in 0..(n - 1)
      PROVE  Chunk(k + 1) \in Seq(Line) /\ Objects(k + 1) = Objects(k) \o Chunk(k + 1)
  <2>1. k \in Nat /\ k \in 0..n /\ k + 1 \in 0..n
    BY <1>1
  <2>2. given(k + 1) \in [1..(k + 1) -> Seq(Line)]
    BY <1>2, <2>1
  <2>3. FirstOf(k, given(k + 1)) = given(k) /\ given(k + 1)[k + 1] = Chunk(k + 1)
    BY <2>1 DEF FirstOf
  <2>4. Objects(k + 1) = FlattenSeq(given(k + 1)) /\ Objects(k) = FlattenSeq(given(k))
    BY <1>3, <2>1
  <2> DEFINE some == given(k + 1)
             less == given(k)
  <2> HIDE DEF some, less
  <2>5. FlattenSeq(some) = FlattenSeq(FirstOf(k, some)) \o some[k + 1]
    <3>1. some \in [1..(k + 1) -> Seq(Line)]
      BY <2>2 DEF some
    <3> QED
      BY <2>1, <3>1, FlattenStep
  <2>6. Chunk(k + 1) \in Seq(Line)
    BY <2>1, <2>2, <2>3
  <2> QED
    BY <2>3, <2>4, <2>5, <2>6 DEF some, less
<1> QED
  BY <1>4, <1>5, <1>6

\* The objects of some lines begin those of all.
LEMMA ObjectsBegin ==
  ASSUME Exchange, NEW k \in 0..Len(lines)
  PROVE  IsPrefix(Objects(k), Objects(Len(lines)))
<1> DEFINE n == Len(lines)
           begun == {j \in 0..n : j >= k => IsPrefix(Objects(k), Objects(j))}
<1>1. n \in Nat
  BY DEF Exchange
<1>2. ASSUME NEW s \in Seq(Line)
      PROVE  IsPrefix(s, s)
  BY DEF IsPrefix
<1>3. 0 \in begun
  <2>1. CASE k = 0
    BY <1>1, <1>2, <2>1, ObjectsGrow
  <2>2. CASE k # 0
    BY <1>1, <2>2
  <2> QED
    BY <2>1, <2>2
<1>4. ASSUME NEW j \in 0..(n - 1), j \in begun
      PROVE  j + 1 \in begun
  <2> SUFFICES ASSUME j + 1 >= k PROVE IsPrefix(Objects(k), Objects(j + 1))
    BY <1>1
  <2>1. CASE j + 1 = k
    BY <1>2, <2>1, ObjectsGrow
  <2>2. CASE j + 1 # k
    <3> DEFINE s == Objects(k)
               t == Objects(j)
               u == Chunk(j + 1)
    <3>1. s \in Seq(Line) /\ t \in Seq(Line) /\ u \in Seq(Line) /\ Objects(j + 1) = t \o u
      BY <1>1, ObjectsGrow
    <3>2. IsPrefix(s, t)
      BY <1>1, <1>4, <2>2
    <3> HIDE DEF s, t, u
    <3>3. Len(s) <= Len(t) /\ SubSeq(s, 1, Len(s)) = SubSeq(t, 1, Len(s))
      BY <3>2 DEF IsPrefix
    <3>4. t \o u \in Seq(Line) /\ Len(t \o u) = Len(t) + Len(u)
      BY <3>1, ConcatProperties
    <3>5. SubSeq(t \o u, 1, Len(s)) = SubSeq(t, 1, Len(s))
      <4>1. CASE Len(s) = 0
        <5>1. SubSeq(t \o u, 1, 0) = <<>> /\ SubSeq(t, 1, 0) = <<>>
          BY SubSeqEmpty
        <5> QED
          BY <4>1, <5>1
      <4>2. CASE Len(s) # 0
        <5>1. 1 \in 1..Len(t) /\ Len(s) \in 1..Len(t)
          BY <3>1, <3>3, <4>2
        <5> QED
          BY <3>1, <5>1, SubSeqOfConcat1
      <4> QED
        BY <4>1, <4>2
    <3>6. IsPrefix(s, t \o u)
      BY <3>1, <3>3, <3>4, <3>5 DEF IsPrefix
    <3> QED
      BY <3>1, <3>6 DEF s
  <2> QED
    BY <2>1, <2>2
<1> HIDE DEF begun
<1>5. \A j \in 0..n : j \in begun
  BY <1>1, <1>3, <1>4, UpTo
<1>6. n \in begun
  BY <1>1, <1>5
<1> QED
  BY <1>1, <1>6 DEF begun

\* What parse_stream makes of the body at each of its bytes.
LineOf(i) ==
  LET rest == SubSeq(Body, i, Len(Body))
  IN  SubSeq(rest, 1, IF NewlineAt(rest) = 0 THEN Len(rest) ELSE NewlineAt(rest) - 1)
ParsedAt(i) ==
  IF i = 1 \/ IsNewline(Body[i - 1]) THEN ParseStreamLine(LineOf(i)) ELSE <<>>

LEMMA LineStarts ==
  ASSUME Exchange, NEW k \in 0..(Len(lines) - 1)
  PROVE  /\ 3 * k + 1 <= Len(Body) /\ ParsedAt(3 * k + 1) = Chunk(k + 1)
         /\ 3 * k + 2 <= Len(Body) => ParsedAt(3 * k + 2) = <<>>
         /\ 3 * k + 3 <= Len(Body) => ParsedAt(3 * k + 3) = <<>>
<1> DEFINE n == Len(lines)
           len == Len(Body)
           rest == Rest(k, len)
           stop == NewlineAt(rest)
           upto == IF stop = 0 THEN Len(rest) ELSE stop - 1
           line == SubSeq(rest, 1, upto)
<1>1. n \in Nat /\ BodyIsLines /\ k \in 0..n /\ tail \in {"newline", "whole", "cut"}
  BY BodyBytes DEF Exchange
<1>2. len = 3 * n - Short /\ Short \in 0..2 /\ len \in Nat /\ 3 * k + 1 <= len
  BY <1>1 DEF BodyIsLines, Short
<1>3. /\ Body[3 * k + 1] = First(k + 1)
      /\ 3 * k + 2 <= len => Body[3 * k + 2] = Second(k + 1)
      /\ 3 * k + 3 <= len => Body[3 * k + 3] = Newline(k + 1)
  BY <1>1 DEF BodyIsLines
<1>4. ParsedAt(3 * k + 1) = ParseStreamLine(line)
  <2>1. 3 * k + 1 = 1 \/ IsNewline(Body[(3 * k + 1) - 1])
    <3> SUFFICES ASSUME k # 0 PROVE IsNewline(Body[(3 * k + 1) - 1])
      BY <1>1
    <3> DEFINE j == k - 1
    <3>1. j \in 0..(n - 1) /\ 3 * j + 3 = (3 * k + 1) - 1 /\ 3 * j + 3 <= len
      BY <1>1, <1>2
    <3> HIDE DEF j
    <3>2. Body[3 * j + 3] = Newline(j + 1)
      BY <1>1, <3>1 DEF BodyIsLines
    <3> QED
      BY <3>1, <3>2 DEF IsNewline, Newline, Part
  <2>2. LineOf(3 * k + 1) = line
    BY DEF LineOf, Rest
  <2> HIDE DEF line
  <2> QED
    BY <2>1, <2>2 DEF ParsedAt
<1>5. /\ rest \in Seq(Byte) /\ Len(rest) = len - 3 * k
      /\ \A j \in 1..(len - 3 * k) : rest[j] = Body[3 * k + j]
      /\ stop = IF len >= 3 * k + 3 THEN 3 ELSE 0
  <2>1. len \in (3 * k)..Len(Body)
    BY <1>1, <1>2
  <2> QED
    BY <1>1, <2>1, RestBytes
<1> HIDE DEF rest, stop
<1>6. /\ upto \in 1..2 /\ upto <= Len(rest)
      /\ upto = 2 <=> 3 * k + 2 <= len
  <2>1. CASE len >= 3 * k + 3
    <3>1. stop = 3 /\ Len(rest) >= 3
      BY <1>1, <1>2, <1>5, <2>1
    <3> QED
      BY <1>1, <1>2, <2>1, <3>1
  <2>2. CASE ~(len >= 3 * k + 3)
    <3>1. stop = 0 /\ Len(rest) = len - 3 * k
      BY <1>5, <2>2
    <3>2. len - 3 * k \in 1..2
      BY <1>1, <1>2, <2>2
    <3>3. upto = len - 3 * k
      BY <3>1
    <3> HIDE DEF upto, len
    <3> QED
      BY <1>1, <1>2, <3>1, <3>2, <3>3
  <2> QED
    BY <2>1, <2>2
<1>7. Len(line) = upto /\ \A j \in 1..upto : line[j] = rest[j]
  <2> HIDE DEF upto
  <2>1. \A j \in 1..upto : rest[j] \in Byte
    BY <1>5, <1>6
  <2>2. /\ Len(line) = IF 1 <= upto THEN upto - 1 + 1 ELSE 0
        /\ \A j \in 1..(upto - 1 + 1) : line[j] = rest[1 + j - 1]
    BY <1>6, <2>1, SubSeqProperties
  <2>3. \A j \in 1..upto : j \in 1..(upto - 1 + 1) /\ 1 + j - 1 = j
    BY <1>6
  <2>4. Len(line) = upto
    BY <1>6, <2>2
  <2> QED
    BY <2>2, <2>3, <2>4
<1> HIDE DEF upto, line
<1>8. ParseStreamLine(line) = Chunk(k + 1)
  <2>1. CASE upto = 2
    <3>1. line[1] = First(k + 1) /\ line[2] = Second(k + 1) /\ Len(line) = 2
      <4>1. 1 \in 1..upto /\ 2 \in 1..upto /\ 1 \in 1..(len - 3 * k) /\ 2 \in 1..(len - 3 * k)
        BY <1>1, <1>2, <1>5, <1>6, <2>1
      <4>2. line[1] = Body[3 * k + 1] /\ line[2] = Body[3 * k + 2]
        BY <1>5, <1>7, <4>1
      <4> QED
        BY <1>3, <1>6, <1>7, <2>1, <4>2
    <3>2. ~(k + 1 = Len(lines) /\ tail = "cut")
      BY <1>1, <1>2, <1>6, <2>1 DEF Short
    <3> QED
      BY <3>1, <3>2, LineParsed DEF Chunk
  <2>2. CASE upto # 2
    <3>1. k + 1 = Len(lines) /\ tail = "cut"
      BY <1>1, <1>2, <1>6, <2>2 DEF Short
    <3>2. ParseStreamLine(line) = <<>>
      BY <1>7, <2>2, PieceParsed
    <3> QED
      BY <3>1, <3>2 DEF Chunk
  <2> QED
    BY <2>1, <2>2
<1>9. 3 * k + 2 <= len => ParsedAt(3 * k + 2) = <<>>
  <2>1. (3 * k + 2) - 1 = 3 * k + 1 /\ 3 * k + 2 # 1
    BY <1>1
  <2> QED
    BY <1>3, <2>1 DEF ParsedAt, IsNewline, First, Part
<1>10. 3 * k + 3 <= len => ParsedAt(3 * k + 3) = <<>>
  <2>1. (3 * k + 3) - 1 = 3 * k + 2 /\ 3 * k + 3 # 1
    BY <1>1
  <2>2. 3 * k + 3 <= len => 3 * k + 2 <= len
    BY <1>1, <1>2
  <2> QED
    BY <1>3, <2>1, <2>2 DEF ParsedAt, IsNewline, Second, Part
<1> QED
  BY <1>2, <1>4, <1>8, <1>9, <1>10

ParsedTo(m) == FlattenSeq(FirstOf(m, [i \in 1..Len(Body) |-> ParsedAt(i)]))

LEMMA ParsedGrows ==
  ASSUME Exchange, \A i \in 1..Len(Body) : ParsedAt(i) \in Seq(Line), Len(Body) \in Nat
  PROVE  /\ ParsedTo(0) = <<>> /\ ParsedTo(Len(Body)) = ParseStream(Body)
         /\ \A m \in 0..(Len(Body) - 1) : /\ ParsedTo(m) \in Seq(Line)
                                          /\ ParsedTo(m + 1) = ParsedTo(m) \o ParsedAt(m + 1)
<1> DEFINE n == Len(Body)
           pieces == [i \in 1..n |-> ParsedAt(i)]
<1>1. ParseStream(Body) = FlattenSeq(pieces)
  BY DEF ParseStream, ParsedAt, LineOf
<1>2. pieces \in [1..n -> Seq(Line)] /\ \A i \in 1..n : pieces[i] = ParsedAt(i)
  OBVIOUS
<1>3. ParsedTo(0) = <<>>
  <2>1. FirstOf(0, pieces) \in [1..0 -> Seq(Line)]
    BY DEF FirstOf
  <2> QED
    BY <2>1, FlattenNone DEF ParsedTo
<1>4. ParsedTo(n) = ParseStream(Body)
  <2>1. FirstOf(n, pieces) = pieces
    BY <1>2 DEF FirstOf
  <2> QED
    BY <1>1, <2>1 DEF ParsedTo
<1>5. ASSUME NEW m \in 0..(n - 1)
      PROVE  /\ ParsedTo(m) \in Seq(Line)
             /\ ParsedTo(m + 1) = ParsedTo(m) \o ParsedAt(m + 1)
  <2> DEFINE some == FirstOf(m + 1, pieces)
  <2>1. some \in [1..(m + 1) -> Seq(Line)]
    BY <1>2 DEF FirstOf
  <2>2. FirstOf(m, some) = FirstOf(m, pieces) /\ some[m + 1] = ParsedAt(m + 1)
    BY <1>2 DEF FirstOf
  <2>3. ParsedTo(m + 1) = FlattenSeq(some) /\ ParsedTo(m) = FlattenSeq(FirstOf(m, pieces))
    BY DEF ParsedTo
  <2> HIDE DEF some, pieces
  <2>4. m \in Nat
    OBVIOUS
  <2>5. /\ FlattenSeq(FirstOf(m, some)) \in Seq(Line)
        /\ FlattenSeq(some) = FlattenSeq(FirstOf(m, some)) \o some[m + 1]
    BY <2>1, <2>4, FlattenStep
  <2> QED
    BY <2>2, <2>3, <2>5
<1> QED
  BY <1>3, <1>4, <1>5

\* parse_stream finds the objects of the lines in the body, in order.
LEMMA BodyParsed ==
  ASSUME Exchange
  PROVE  ParseStream(Body) = Objects(Len(lines))
<1> DEFINE n == Len(lines)
           len == Len(Body)
<1>1. n \in Nat /\ len = 3 * n - Short /\ Short \in 0..2 /\ len \in Nat /\ (n = 0 => Short = 0)
  <2>1. tail \in {"newline", "whole", "cut"} /\ n \in Nat /\ (n = 0 => tail = "newline")
    BY DEF Exchange
  <2>2. len = 3 * n - Short
    BY BodyBytes DEF BodyIsLines
  <2> QED
    BY <2>1, <2>2 DEF Short
<1>2. ASSUME NEW i \in 1..len
      PROVE  \E k \in 0..(n - 1) : i = 3 * k + 1 \/ i = 3 * k + 2 \/ i = 3 * k + 3
  <2> HIDE DEF n, len
  <2>1. (i - 1) \div 3 \in 0..(n - 1)
    BY <1>1
  <2>2. \/ i = 3 * ((i - 1) \div 3) + 1 \/ i = 3 * ((i - 1) \div 3) + 2
        \/ i = 3 * ((i - 1) \div 3) + 3
    BY <1>1
  <2> QED
    BY <2>1, <2>2
<1>3. \A i \in 1..len : ParsedAt(i) \in Seq(Line)
  <2> SUFFICES ASSUME NEW i \in 1..len PROVE ParsedAt(i) \in Seq(Line)
    OBVIOUS
  <2>1. PICK k \in 0..(n - 1) : i = 3 * k + 1 \/ i = 3 * k + 2 \/ i = 3 * k + 3
    BY <1>2
  <2>2. Chunk(k + 1) \in Seq(Line) /\ <<>> \in Seq(Line)
    BY ObjectsGrow, EmptySeq
  <2>3. CASE i = 3 * k + 1
    BY <2>2, <2>3, LineStarts
  <2>4. CASE i = 3 * k + 2
    <3>1. 3 * k + 2 <= len
      BY <2>4
    <3> QED
      BY <2>2, <2>4, <3>1, LineStarts
  <2>5. CASE i = 3 * k + 3
    <3>1. 3 * k + 3 <= len
      BY <2>5
    <3> QED
      BY <2>2, <2>5, <3>1, LineStarts
  <2> QED
    BY <2>1, <2>3, <2>4, <2>5
<1>4. /\ ParsedTo(0) = <<>> /\ ParsedTo(len) = ParseStream(Body)
      /\ \A m \in 0..(len - 1) : /\ ParsedTo(m) \in Seq(Line)
                                 /\ ParsedTo(m + 1) = ParsedTo(m) \o ParsedAt(m + 1)
  BY <1>1, <1>3, ParsedGrows
<1> DEFINE Done(k) == /\ ParsedTo(3 * k + 1) = Objects(k + 1)
                      /\ 3 * k + 2 <= len => ParsedTo(3 * k + 2) = Objects(k + 1)
                      /\ 3 * k + 3 <= len => ParsedTo(3 * k + 3) = Objects(k + 1)
<1> HIDE DEF len
<1>5. ASSUME NEW k \in 0..(n - 1), ParsedTo(3 * k) = Objects(k)
      PROVE  Done(k)
  <2>1. /\ 3 * k + 1 <= len /\ ParsedAt(3 * k + 1) = Chunk(k + 1)
        /\ 3 * k + 2 <= len => ParsedAt(3 * k + 2) = <<>>
        /\ 3 * k + 3 <= len => ParsedAt(3 * k + 3) = <<>>
    BY LineStarts DEF len
  <2>2. Objects(k + 1) \in Seq(Line) /\ Objects(k + 1) = Objects(k) \o Chunk(k + 1)
    <3>1. k + 1 \in 0..n
      BY <1>1
    <3> QED
      BY <3>1, ObjectsGrow
  <2>3. ParsedTo(3 * k + 1) = Objects(k + 1)
    <3>1. 3 * k \in 0..(len - 1)
      BY <1>1, <2>1
    <3>2. ParsedTo(3 * k + 1) = ParsedTo(3 * k) \o ParsedAt(3 * k + 1)
      BY <1>4, <3>1
    <3> QED
      BY <1>5, <2>1, <2>2, <3>2
  <2>4. ASSUME 3 * k + 2 <= len
        PROVE  ParsedTo(3 * k + 2) = Objects(k + 1)
    <3>1. 3 * k + 1 \in 0..(len - 1) /\ (3 * k + 1) + 1 = 3 * k + 2
      BY <1>1, <2>4
    <3>2. ParsedTo((3 * k + 1) + 1) = ParsedTo(3 * k + 1) \o ParsedAt((3 * k + 1) + 1)
      BY <1>4, <3>1
    <3>3. ParsedTo(3 * k + 2) = Objects(k + 1) \o <<>>
      BY <2>1, <2>3, <2>4, <3>1, <3>2
    <3> QED
      BY <2>2, <3>3, ConcatEmptySeq
  <2>5. ASSUME 3 * k + 3 <= len
        PROVE  ParsedTo(3 * k + 3) = Objects(k + 1)
    <3>1. 3 * k + 2 \in 0..(len - 1) /\ (3 * k + 2) + 1 = 3 * k + 3 /\ 3 * k + 2 <= len
      BY <1>1, <2>5
    <3>2. ParsedTo((3 * k + 2) + 1) = ParsedTo(3 * k + 2) \o ParsedAt((3 * k + 2) + 1)
      BY <1>4, <3>1
    <3>3. ParsedTo(3 * k + 3) = Objects(k + 1) \o <<>>
      BY <2>1, <2>4, <2>5, <3>1, <3>2
    <3> QED
      BY <2>2, <3>3, ConcatEmptySeq
  <2> QED
    BY <2>3, <2>4, <2>5
<1> DEFINE so == {k \in 0..n : k <= n - 1 => ParsedTo(3 * k) = Objects(k)}
<1>6. ASSUME NEW k \in 0..(n - 1), k \in so
      PROVE  k + 1 \in so
  <2> SUFFICES ASSUME k + 1 <= n - 1 PROVE ParsedTo(3 * (k + 1)) = Objects(k + 1)
    BY <1>1
  <2>1. k <= n - 1 /\ 3 * k + 3 <= len /\ 3 * (k + 1) = 3 * k + 3
    BY <1>1
  <2>2. Done(k)
    BY <1>5, <1>6, <2>1
  <2> QED
    BY <2>1, <2>2
<1>7. 0 \in so
  <2>1. 3 * 0 = 0
    OBVIOUS
  <2> QED
    BY <1>1, <1>4, <2>1, ObjectsGrow
<1>8. \A k \in 0..n : k \in so
  <2> HIDE DEF so
  <2> QED
    BY <1>1, <1>6, <1>7, UpTo
<1>9. CASE n = 0
  BY <1>1, <1>4, <1>9, ObjectsGrow
<1>10. CASE n # 0
  <2> DEFINE k == n - 1
  <2>1. k \in 0..(n - 1) /\ k \in so /\ k <= n - 1 /\ k + 1 = n
    BY <1>1, <1>8, <1>10
  <2>2. Done(k)
    BY <1>5, <2>1
  <2>3. len = 3 * k + 1 \/ len = 3 * k + 2 \/ len = 3 * k + 3
    BY <1>1, <2>1
  <2> HIDE DEF k, n
  <2>4. ParsedTo(len) = Objects(k + 1)
    BY <1>1, <2>1, <2>2, <2>3
  <2> QED
    BY <1>4, <2>1, <2>4 DEF n
<1> QED
  BY <1>9, <1>10

LEMMA NothingParsed == ParseStream(<<>>) = <<>>
<1> DEFINE none == <<>>
           parsed == [i \in 1..Len(none) |->
                        LET rest == SubSeq(none, i, Len(none))
                            line == SubSeq(rest, 1, IF NewlineAt(rest) = 0 THEN Len(rest)
                                                    ELSE NewlineAt(rest) - 1)
                        IN  IF i = 1 \/ IsNewline(none[i - 1]) THEN ParseStreamLine(line) ELSE <<>>]
<1>1. ParseStream(none) = FlattenSeq(parsed)
  BY DEF ParseStream
<1>2. Len(none) = 0
  BY EmptySeq
<1>3. parsed \in [1..0 -> Nat]
  <2> HIDE DEF none
  <2> QED
    BY <1>2
<1> HIDE DEF parsed
<1> QED
  BY <1>1, <1>3, FlattenNone

Answer ==
  LET complete == Objects(Len(lines) - (IF tail = "newline" THEN 0 ELSE 1))
  IN  IF Streaming /\ complete = <<>> THEN <<>> ELSE Objects(Len(lines))

\* A streaming exchange has parsed the first k lines and keeps what has come
\* after them.
Taken(k) ==
  /\ 3 * k <= sent
  /\ buffered = Rest(k, sent)
  /\ pc # "returned" => chunks = Objects(k)
  /\ pc \in {"transfer", "answered"} => sent < 3 * k + 3

\* Any other keeps the body and parses nothing before its end.
Kept ==
  /\ buffered = <<>> /\ pc # "on_data"
  /\ body = SubSeq(Body, 1, sent)
  /\ pc # "returned" => chunks = <<>>

ChatInv ==
  /\ Exchange
  /\ sent \in 0..Len(Body)
  /\ pc \in PC
  /\ chunks \in Seq(Line)
  /\ seen = IF mode = "callback" THEN chunks ELSE <<>>
  /\ pc = "answered" => sent = Len(Body)
  /\ Streaming => body = <<>> /\ \E k \in 0..Len(lines) : Taken(k)
  /\ ~Streaming => Kept
  /\ pc = "returned" => chunks = Answer

LEMMA Unmoved ==
  ASSUME UNCHANGED exchange
  PROVE  /\ Body' = Body /\ Answer' = Answer /\ Streaming' = Streaming
         /\ Exchange' = Exchange
         /\ \A k \in 0..Len(lines) : Objects(k)' = Objects(k)
<1>1. mode' = mode /\ lines' = lines /\ tail' = tail
  BY DEF exchange
<1>2. Body' = Body
  BY <1>1 DEF Body, BytesOf, Part
<1>3. \A k \in 0..Len(lines) : Objects(k)' = Objects(k)
  BY <1>1 DEF Objects
<1>4. Answer' = Answer
  BY <1>1 DEF Answer, Objects, Streaming
<1>5. Streaming' = Streaming /\ Exchange' = Exchange
  BY <1>1 DEF Streaming, Exchange
<1> QED
  BY <1>2, <1>3, <1>4, <1>5

LEMMA ChatStarts == ChatInit => ChatInv
<1> SUFFICES ASSUME ChatInit PROVE ChatInv
  OBVIOUS
<1> USE DEF ChatInit
<1>1. Exchange
  <2>1. PICK n \in 0..MaxLines : lines \in [1..n -> Kind]
    OBVIOUS
  <2>2. n \in Nat /\ n <= MaxLines
    BY MaxLinesAssumption
  <2>3. lines \in Seq(Kind) /\ Len(lines) = n
    BY <2>1, <2>2, ListIsSeq
  <2> QED
    BY <2>2, <2>3 DEF Exchange
<1>2. BodyIsLines /\ Objects(0) = <<>>
  BY <1>1, BodyBytes, ObjectsGrow
<1>3. Len(Body) \in Nat /\ Len(lines) \in Nat
  BY <1>1, <1>2 DEF BodyIsLines, Exchange
<1>4. SubSeq(Body, 1, 0) = <<>> /\ <<>> \in Seq(Line)
  BY SubSeqEmpty, EmptySeq
<1>5. Taken(0)
  BY <1>2, <1>4 DEF Taken, Rest
<1>6. Kept
  BY <1>4 DEF Kept
<1> QED
  BY <1>1, <1>3, <1>4, <1>5, <1>6 DEF ChatInv, PC

LEMMA ChatDelivers == ChatInv /\ Deliver => ChatInv'
<1> SUFFICES ASSUME ChatInv, Deliver PROVE ChatInv'
  OBVIOUS
<1> DEFINE n == Len(lines)
           len == Len(Body)
<1>1. PICK upto \in (sent + 1)..len :
        /\ sent' = upto
        /\ IF Streaming
           THEN /\ buffered' = buffered \o SubSeq(Body, sent + 1, upto)
                /\ pc' = "on_data" /\ body' = body
           ELSE /\ body' = body \o SubSeq(Body, sent + 1, upto)
                /\ pc' = pc /\ buffered' = buffered
  BY DEF Deliver
<1>2. UNCHANGED <<exchange, chunks, seen>> /\ pc = "transfer"
  BY DEF Deliver
<1>3. Exchange /\ BodyIsLines /\ sent \in 0..len
  BY BodyBytes DEF ChatInv
<1>4. n \in Nat /\ len \in Nat /\ Body \in Seq(Byte)
  BY <1>3 DEF Exchange, BodyIsLines
<1>5. /\ Body' = Body /\ Answer' = Answer /\ Streaming' = Streaming /\ Exchange' /\ lines' = lines
      /\ \A k \in 0..n : Objects(k)' = Objects(k)
  BY <1>2, <1>3, Unmoved DEF exchange
<1>6. sent' \in 0..Len(Body)' /\ pc' \in PC /\ chunks' \in Seq(Line)
  BY <1>1, <1>2, <1>3, <1>4, <1>5 DEF ChatInv, PC
<1>7. seen' = IF mode' = "callback" THEN chunks' ELSE <<>>
  BY <1>2 DEF ChatInv, exchange
<1>8. ASSUME Streaming
      PROVE  body' = <<>> /\ \E k \in 0..n : Taken(k)'
  <2>1. PICK k \in 0..n : Taken(k)
    BY <1>8 DEF ChatInv
  <2>2. 3 * k <= sent /\ buffered = SubSeq(Body, 3 * k + 1, sent) /\ chunks = Objects(k)
    BY <1>2, <2>1 DEF Taken, Rest
  <2>3. SubSeq(Body, 3 * k + 1, sent) \o SubSeq(Body, sent + 1, upto)
          = SubSeq(Body, 3 * k + 1, upto)
    <3> DEFINE m == 3 * k + 1
    <3>1. m \in 1..(len + 1) /\ sent \in (m - 1)..len /\ upto \in sent..len
      BY <1>1, <1>3, <1>4, <2>2
    <3> HIDE DEF m
    <3> QED
      BY <1>4, <3>1, ConcatAdjacentSubSeq DEF m
  <2>4. buffered' = SubSeq(Body', 3 * k + 1, sent')
    BY <1>1, <1>5, <1>8, <2>2, <2>3
  <2>5. chunks' = Objects(k)' /\ 3 * k <= sent' /\ pc' = "on_data"
    BY <1>1, <1>2, <1>3, <1>4, <1>5, <1>8, <2>2
  <2>6. Taken(k)'
    BY <2>4, <2>5 DEF Taken, Rest
  <2> QED
    BY <1>1, <1>8, <2>6 DEF ChatInv
<1>9. ASSUME ~Streaming
      PROVE  Kept'
  <2>1. Kept
    BY <1>9 DEF ChatInv
  <2>2. SubSeq(Body, 1, sent) \o SubSeq(Body, sent + 1, upto) = SubSeq(Body, 1, upto)
    <3>1. 1 \in 1..(len + 1) /\ sent \in (1 - 1)..len /\ upto \in sent..len
      BY <1>1, <1>3, <1>4
    <3> QED
      BY <1>4, <3>1, ConcatAdjacentSubSeq
  <2>3. body' = SubSeq(Body', 1, sent')
    BY <1>1, <1>5, <1>9, <2>1, <2>2 DEF Kept
  <2> QED
    BY <1>1, <1>2, <1>9, <2>1, <2>3 DEF Kept
<1>10. pc' \notin {"answered", "returned"}
  BY <1>1, <1>2
<1> QED
  BY <1>5, <1>6, <1>7, <1>8, <1>9, <1>10 DEF ChatInv

LEMMA ChatTakesLine == ChatInv /\ OnData => ChatInv'
<1> SUFFICES ASSUME ChatInv, OnData PROVE ChatInv'
  OBVIOUS
<1> DEFINE n == Len(lines)
           len == Len(Body)
<1>2. /\ UNCHANGED <<exchange, sent, pc, body>> /\ pc = "on_data" /\ NewlineAt(buffered) # 0
      /\ TakeLine
  BY DEF OnData
<1>3. Exchange /\ BodyIsLines /\ sent \in 0..len
  BY BodyBytes DEF ChatInv
<1>4. n \in Nat /\ len \in Nat /\ len <= 3 * n /\ Body \in Seq(Byte)
  BY <1>3 DEF Exchange, BodyIsLines, Short
<1>5. /\ Body' = Body /\ Answer' = Answer /\ Streaming' = Streaming /\ Exchange' /\ lines' = lines
      /\ \A k \in 0..n : Objects(k)' = Objects(k)
  BY <1>2, <1>3, Unmoved DEF exchange
<1>6. Streaming
  BY <1>2 DEF ChatInv, Kept
<1>7. PICK k \in 0..n : Taken(k)
  BY <1>6 DEF ChatInv
<1>8. 3 * k <= sent /\ buffered = Rest(k, sent) /\ chunks = Objects(k)
  BY <1>2, <1>7 DEF Taken
<1>9. /\ buffered \in Seq(Byte) /\ Len(buffered) = sent - 3 * k
      /\ \A j \in 1..(sent - 3 * k) : buffered[j] = Body[3 * k + j]
      /\ NewlineAt(buffered) = IF sent >= 3 * k + 3 THEN 3 ELSE 0
  <2>1. sent \in (3 * k)..len
    BY <1>3, <1>4, <1>8
  <2> QED
    BY <1>3, <1>8, <2>1, RestBytes
<1>10. sent >= 3 * k + 3 /\ NewlineAt(buffered) = 3 /\ Len(buffered) >= 3 /\ k \in 0..(n - 1)
  BY <1>2, <1>3, <1>4, <1>9
<1> DEFINE line == SubSeq(buffered, 1, 2)
<1>11. ParseStreamLine(line) = Chunk(k + 1)
  <2>1. \A j \in 1..2 : buffered[j] \in Byte
    BY <1>9, <1>10
  <2>2. Len(line) = 2 /\ line[1] = buffered[1] /\ line[2] = buffered[2]
    BY <2>1, SubSeqProperties
  <2>3. 1 \in 1..(sent - 3 * k) /\ 2 \in 1..(sent - 3 * k) /\ 3 * k + 2 <= len
    BY <1>3, <1>4, <1>10
  <2>4. Body[3 * k + 1] = First(k + 1) /\ Body[3 * k + 2] = Second(k + 1)
    BY <1>3, <1>10, <2>3 DEF BodyIsLines
  <2>5. buffered[1] = First(k + 1) /\ buffered[2] = Second(k + 1)
    BY <1>9, <2>3, <2>4
  <2>6. ~(k + 1 = Len(lines) /\ tail = "cut")
    BY <1>3, <1>4, <1>10 DEF BodyIsLines, Short
  <2> HIDE DEF line
  <2> QED
    BY <2>2, <2>5, <2>6, LineParsed DEF Chunk
<1>12. /\ chunks' = chunks \o ParseStreamLine(line)
       /\ seen' = IF mode = "callback" THEN seen \o ParseStreamLine(line) ELSE seen
       /\ buffered' = SubSeq(buffered, 4, Len(buffered))
  BY <1>2, <1>10 DEF TakeLine, Keep
<1>13. k + 1 \in 0..n /\ Objects(k + 1) = Objects(k) \o Chunk(k + 1) /\ Objects(k + 1) \in Seq(Line)
  <2>1. k + 1 \in 0..n
    BY <1>4, <1>10
  <2> QED
    BY <1>3, <1>10, <2>1, ObjectsGrow
<1>14. chunks' = Objects(k + 1)
  BY <1>8, <1>11, <1>12, <1>13
<1>15. seen' = IF mode' = "callback" THEN chunks' ELSE <<>>
  BY <1>2, <1>12 DEF ChatInv, exchange
<1>16. buffered' = SubSeq(Body, 3 * (k + 1) + 1, sent)
  <2>1. buffered = SubSeq(Body, 3 * k + 1, sent)
    BY <1>8 DEF Rest
  <2>2. CASE sent = 3 * k + 3
    <3>1. Len(buffered) < 4 /\ sent < 3 * (k + 1) + 1
      BY <1>9, <2>2
    <3>2. SubSeq(buffered, 4, Len(buffered)) = <<>>
      BY <1>9, <1>10, <2>2, <3>1, SubSeqEmpty
    <3>3. SubSeq(Body, 3 * (k + 1) + 1, sent) = <<>>
      BY <1>3, <3>1, SubSeqEmpty
    <3> QED
      BY <1>12, <3>2, <3>3
  <2>3. CASE sent # 3 * k + 3
    <3> DEFINE i == 3 * k + 1
               length == Len(buffered)
    <3>1. i \in 1..Len(Body) /\ sent \in 1..Len(Body) /\ 4 \in 1..(sent - i + 1)
            /\ length \in 1..(sent - i + 1)
      BY <1>3, <1>4, <1>9, <1>10, <2>3
    <3>2. i + 4 - 1 = 3 * (k + 1) + 1 /\ i + length - 1 = sent
      BY <1>3, <1>9
    <3> HIDE DEF i, length
    <3>3. SubSeq(SubSeq(Body, i, sent), 4, length) = SubSeq(Body, i + 4 - 1, i + length - 1)
      BY <1>4, <3>1, SubSeqOfSubSeq
    <3> QED
      BY <1>12, <2>1, <3>2, <3>3 DEF i, length
  <2> QED
    BY <2>2, <2>3
<1>17. Taken(k + 1)'
  <2>1. buffered' = SubSeq(Body', 3 * (k + 1) + 1, sent')
    BY <1>2, <1>5, <1>16
  <2>2. 3 * (k + 1) <= sent' /\ pc' = "on_data" /\ chunks' = Objects(k + 1)'
    BY <1>2, <1>3, <1>5, <1>10, <1>13, <1>14
  <2> QED
    BY <2>1, <2>2 DEF Taken, Rest
<1>18. chunks' \in Seq(Line) /\ sent' \in 0..Len(Body)' /\ pc' = "on_data" /\ pc' \in PC
         /\ body' = <<>>
  BY <1>2, <1>3, <1>5, <1>6, <1>13, <1>14 DEF ChatInv
<1> QED
  BY <1>5, <1>6, <1>13, <1>15, <1>17, <1>18 DEF ChatInv

LEMMA ChatWaits == ChatInv /\ (DataTaken \/ ExchangeFails \/ ExchangeEnds \/ UNCHANGED chatVars)
  => ChatInv'
<1> SUFFICES ASSUME ChatInv, DataTaken \/ ExchangeFails \/ ExchangeEnds \/ UNCHANGED chatVars
             PROVE  ChatInv'
  OBVIOUS
<1> USE DEF DataTaken, ExchangeFails, ExchangeEnds, chatVars
<1> DEFINE n == Len(lines)
<1>1. UNCHANGED <<exchange, sent, buffered, body, chunks, seen>>
  BY DEF exchange
<1>2. Exchange /\ BodyIsLines /\ sent \in 0..Len(Body)
  BY BodyBytes DEF ChatInv
<1>3. n \in Nat /\ Len(Body) \in Nat
  BY <1>2 DEF Exchange, BodyIsLines
<1>4. /\ Body' = Body /\ Answer' = Answer /\ Streaming' = Streaming /\ Exchange' /\ lines' = lines
      /\ \A k \in 0..n : Objects(k)' = Objects(k)
  BY <1>1, <1>2, Unmoved DEF exchange
<1>5. /\ pc' \in PC
      /\ pc' = "answered" => sent' = Len(Body)'
      /\ pc' = "returned" <=> pc = "returned"
      /\ pc' = "on_data" => pc = "on_data"
  BY <1>1, <1>4 DEF ChatInv, PC
<1>6. ASSUME Streaming
      PROVE  \E k \in 0..n : Taken(k)'
  <2>1. PICK k \in 0..n : Taken(k)
    BY <1>6 DEF ChatInv
  <2>2. pc' \in {"transfer", "answered"} => sent < 3 * k + 3
    <3>1. CASE DataTaken
      <4>1. sent \in (3 * k)..Len(Body) /\ buffered = Rest(k, sent)
        BY <1>2, <1>3, <2>1 DEF Taken
      <4>2. NewlineAt(buffered) = IF sent >= 3 * k + 3 THEN 3 ELSE 0
        BY <1>2, <4>1, RestBytes
      <4> QED
        BY <1>2, <3>1, <4>2
    <3>2. CASE ~DataTaken
      BY <2>1, <3>2 DEF Taken
    <3> QED
      BY <3>1, <3>2
  <2>3. buffered' = SubSeq(Body', 3 * k + 1, sent')
    BY <1>1, <1>4, <2>1 DEF Taken, Rest
  <2>4. Taken(k)'
    BY <1>1, <1>4, <1>5, <2>1, <2>2, <2>3 DEF Taken, Rest
  <2> QED
    BY <2>4
<1>7. ASSUME ~Streaming
      PROVE  Kept'
  BY <1>1, <1>4, <1>5, <1>7 DEF ChatInv, Kept
<1>8. /\ chunks' \in Seq(Line) /\ sent' \in 0..Len(Body)'
      /\ seen' = IF mode' = "callback" THEN chunks' ELSE <<>>
      /\ Streaming => body' = <<>>
      /\ pc' = "returned" => chunks' = Answer'
  BY <1>1, <1>4, <1>5 DEF ChatInv, exchange
<1> QED
  BY <1>4, <1>5, <1>6, <1>7, <1>8 DEF ChatInv

LEMMA ChatReturns == ChatInv /\ Return => ChatInv'
<1> SUFFICES ASSUME ChatInv, Return PROVE ChatInv'
  OBVIOUS
<1> DEFINE n == Len(lines)
           len == Len(Body)
           parsed == IF chunks = <<>> THEN ParseStream(body) ELSE ParseStreamLine(buffered)
<1>1. /\ UNCHANGED <<exchange, sent, buffered, body>> /\ pc = "answered" /\ pc' = "returned"
      /\ chunks' = chunks \o parsed
      /\ seen' = IF mode = "callback" THEN seen \o parsed ELSE seen
  BY DEF Return, FinishParsing, Keep
<1>2. Exchange /\ BodyIsLines /\ sent = len
  BY <1>1, BodyBytes DEF ChatInv
<1>3. /\ n \in Nat /\ Body \in Seq(Byte) /\ len = 3 * n - Short
           /\ tail \in {"newline", "whole", "cut"}
      /\ n = 0 => tail = "newline"
  BY <1>2 DEF Exchange, BodyIsLines
<1>4. /\ Body' = Body /\ Answer' = Answer /\ Streaming' = Streaming /\ Exchange' /\ lines' = lines
      /\ \A k \in 0..n : Objects(k)' = Objects(k)
  BY <1>1, <1>2, Unmoved DEF exchange
<1>5. \A k \in 0..n : Objects(k) \in Seq(Line)
  BY <1>2, ObjectsGrow
<1>6. ASSUME Streaming
      PROVE  chunks \o parsed = Answer
  <2>1. PICK k \in 0..n : Taken(k)
    BY <1>6 DEF ChatInv
  <2>2. 3 * k <= len /\ len < 3 * k + 3 /\ buffered = Rest(k, len) /\ chunks = Objects(k)
          /\ body = <<>>
    BY <1>1, <1>2, <1>6, <2>1 DEF Taken, ChatInv
  <2>3. Len(buffered) = len - 3 * k /\ \A j \in 1..(len - 3 * k) : buffered[j] = Body[3 * k + j]
    <3>1. len \in (3 * k)..Len(Body)
      BY <1>3, <2>2 DEF Short
    <3> QED
      BY <1>2, <2>2, <3>1, RestBytes
  <2>4. k = n - (IF tail = "newline" THEN 0 ELSE 1)
    BY <1>3, <2>2 DEF Short
  <2>5. Answer = IF chunks = <<>> THEN <<>> ELSE Objects(n)
    BY <1>6, <2>2, <2>4 DEF Answer
  <2>6. CASE chunks = <<>>
    BY <2>2, <2>5, <2>6, NothingParsed, EmptySeq, ConcatEmptySeq
  <2>7. CASE chunks # <<>> /\ tail = "newline"
    <3>1. k = n /\ Len(buffered) # 2
      BY <1>3, <2>3, <2>4, <2>7 DEF Short
    <3>2. ParseStreamLine(buffered) = <<>>
      BY <3>1, PieceParsed
    <3> QED
      BY <1>5, <2>2, <2>5, <2>7, <3>1, <3>2, ConcatEmptySeq
  <2>8. CASE chunks # <<>> /\ tail # "newline"
    <3>1. k = n - 1 /\ k \in 0..(n - 1) /\ k + 1 = n
      BY <1>3, <2>4, <2>8
    <3>2. Objects(n) = Objects(k) \o Chunk(n)
      BY <1>2, <3>1, ObjectsGrow
    <3>3. ParseStreamLine(buffered) = Chunk(n)
      <4>1. CASE tail = "whole"
        <5>1. len - 3 * k = 2 /\ 1 \in 1..(len - 3 * k) /\ 2 \in 1..(len - 3 * k)
                /\ 3 * k + 2 <= len
          BY <1>3, <3>1, <4>1 DEF Short
        <5>2. Body[3 * k + 1] = First(n) /\ Body[3 * k + 2] = Second(n)
          BY <1>2, <3>1, <5>1 DEF BodyIsLines
        <5>3. Len(buffered) = 2 /\ buffered[1] = First(n) /\ buffered[2] = Second(n)
          BY <2>3, <5>1, <5>2
        <5> QED
          BY <4>1, <5>3, LineParsed DEF Chunk
      <4>2. CASE tail = "cut"
        <5>1. Len(buffered) = 1
          BY <1>3, <2>3, <3>1, <4>2 DEF Short
        <5>2. ParseStreamLine(buffered) = <<>>
          BY <5>1, PieceParsed
        <5> QED
          BY <4>2, <5>2 DEF Chunk
      <4> QED
        BY <1>3, <2>8, <4>1, <4>2
    <3> QED
      BY <2>2, <2>5, <2>8, <3>2, <3>3
  <2> QED
    BY <2>6, <2>7, <2>8
<1>7. ASSUME ~Streaming
      PROVE  chunks \o parsed = Answer /\ Kept'
  <2>1. Kept
    BY <1>7 DEF ChatInv
  <2>2. chunks = <<>> /\ body = Body
    BY <1>1, <1>2, <1>3, <2>1, SubSeqFull DEF Kept
  <2>3. parsed = Objects(n)
    BY <1>2, <2>2, BodyParsed
  <2>4. Answer = Objects(n)
    BY <1>7 DEF Answer
  <2>5. <<>> \o Objects(n) = Objects(n)
    <3>1. Objects(n) \in Seq(Line)
      BY <1>3, <1>5
    <3> QED
      BY <3>1, ConcatEmptySeq
  <2>6. Kept'
    BY <1>1, <1>4, <2>1 DEF Kept
  <2> QED
    BY <2>2, <2>3, <2>4, <2>5, <2>6
<1>8. chunks' = Answer
  BY <1>1, <1>6, <1>7
<1>9. chunks' \in Seq(Line)
  <2>1. Answer = <<>> \/ Answer = Objects(n)
    BY DEF Answer
  <2>2. n \in 0..n
    BY <1>3
  <2> QED
    BY <1>5, <1>8, <2>1, <2>2, EmptySeq
<1>10. seen' = IF mode' = "callback" THEN chunks' ELSE <<>>
  BY <1>1 DEF ChatInv, exchange
<1>11. ASSUME Streaming
       PROVE  body' = <<>> /\ \E k \in 0..n : Taken(k)'
  <2>1. PICK k \in 0..n : Taken(k)
    BY <1>11 DEF ChatInv
  <2>2. Taken(k)'
    BY <1>1, <1>4, <2>1 DEF Taken, Rest
  <2> QED
    BY <1>1, <1>11, <2>2 DEF ChatInv
<1>12. sent' \in 0..Len(Body)' /\ pc' \in PC
  BY <1>1, <1>4 DEF ChatInv, PC
<1> QED
  BY <1>1, <1>4, <1>7, <1>8, <1>9, <1>10, <1>11, <1>12 DEF ChatInv

LEMMA ChatInductive == ChatSpec => []ChatInv
<1>1. ChatInit => ChatInv
  BY ChatStarts
<1>2. ChatInv /\ [ChatNext]_chatVars => ChatInv'
  BY ChatDelivers, ChatTakesLine, ChatWaits, ChatReturns DEF ChatNext
<1> QED
  BY <1>1, <1>2, PTL DEF ChatSpec

\* For any body, and however it is cut into pieces: every variable of an
\* exchange keeps its type, its buffers are used as their modes say, and no
\* finished line waits in the buffer between pieces.
THEOREM ExchangeTypes == ChatSpec => []ChatTypeOK
<1>1. ChatInv => ChatTypeOK
  <2> SUFFICES ASSUME ChatInv PROVE ChatTypeOK
    OBVIOUS
  <2>1. Exchange /\ BodyIsLines /\ sent \in 0..Len(Body)
    BY BodyBytes DEF ChatInv
  <2>2. Len(Body) \in Nat /\ Body \in Seq(Byte) /\ Len(lines) \in Nat
    BY <2>1 DEF BodyIsLines, Exchange
  <2>3. /\ buffered \in Seq(Byte)
        /\ ~Streaming => buffered = <<>> /\ pc # "on_data"
        /\ pc = "transfer" => NewlineAt(buffered) = 0
    <3>1. CASE Streaming
      <4>1. PICK k \in 0..Len(lines) : Taken(k)
        BY <3>1 DEF ChatInv
      <4>2. sent \in (3 * k)..Len(Body) /\ buffered = Rest(k, sent)
        BY <2>1, <2>2, <4>1 DEF Taken
      <4>3. buffered \in Seq(Byte) /\ NewlineAt(buffered) = IF sent >= 3 * k + 3 THEN 3 ELSE 0
        BY <2>1, <4>2, RestBytes
      <4> QED
        BY <2>1, <3>1, <4>1, <4>3 DEF Taken
    <3>2. CASE ~Streaming
      <4>1. NewlineAt(<<>>) = 0
        <5> DEFINE none == <<>>
                   ends == {j \in 1..Len(none) : IsNewline(none[j])}
        <5>1. ends = {}
          BY EmptySeq
        <5>2. NewlineAt(none) = IF ends # {} THEN Min(ends) ELSE 0
          BY DEF NewlineAt, SelectInSeq
        <5> QED
          BY <5>1, <5>2
      <4> QED
        BY <3>2, <4>1, EmptySeq DEF ChatInv, Kept
    <3> QED
      BY <3>1, <3>2
  <2>4. body \in Seq(Byte) /\ (Streaming => body = <<>>)
    <3>1. CASE Streaming
      BY <3>1, EmptySeq DEF ChatInv
    <3>2. CASE ~Streaming
      <4>1. body = SubSeq(Body, 1, sent)
        BY <3>2 DEF ChatInv, Kept
      <4>2. \A i \in 1..sent : Body[i] \in Byte
        BY <2>1, <2>2
      <4> QED
        BY <2>1, <3>2, <4>1, <4>2, SubSeqProperties
    <3> QED
      BY <3>1, <3>2
  <2>5. seen \in Seq(Line)
    BY EmptySeq DEF ChatInv
  <2> QED
    BY <2>1, <2>3, <2>4, <2>5 DEF ChatInv, ChatTypeOK, Exchange
<1> QED
  BY <1>1, ChatInductive, PTL

\* For any body, and however it is cut into pieces: the answer is made of the
\* objects in its lines, each once and in order, with the one exception the
\* property names; and a callback is given those objects and no others.
THEOREM PiecesAreImmaterial == ChatSpec => []PiecesDoNotMatter
<1>1. ChatInv => PiecesDoNotMatter
  <2> SUFFICES ASSUME ChatInv PROVE PiecesDoNotMatter
    OBVIOUS
  <2>1. pc = "returned" => AggregateChunks(chunks) = AggregateChunks(Answer)
    BY DEF ChatInv
  <2>2. mode = "callback" => seen = chunks
    BY DEF ChatInv
  <2>3. ASSUME mode = "callback", pc = "threw"
        PROVE  IsPrefix(seen, Objects(Len(lines)))
    <3>1. PICK k \in 0..Len(lines) : Taken(k)
      BY <2>3 DEF ChatInv, Streaming
    <3>2. chunks = Objects(k) /\ Exchange
      BY <2>3, <3>1 DEF Taken, ChatInv
    <3> QED
      BY <2>2, <2>3, <3>2, ObjectsBegin
  <2> QED
    BY <2>1, <2>2, <2>3 DEF PiecesDoNotMatter, Answer
<1> QED
  BY <1>1, ChatInductive, PTL

-----------------------------------------------------------------------------
(* ContextBuilder: what build makes of the entries offered to it.          *)

EntryKind == {"goal", "rule", "file", "message"} \cup Range(ProjectKinds)
EntryType == [kind : EntryKind, n : Nat, tokens : Nat]
Outcome == [items : Seq(EntryType), left : Nat, shut : EntryKind \cup {"none"}]

\* One more entry: "shut" is the kind of the last one that did not fit, and an
\* entry of that kind is not looked at.
Step(o, e) ==
  IF e.kind = o.shut \/ e.tokens > o.left
  THEN [items |-> o.items, left |-> o.left, shut |-> e.kind]
  ELSE [items |-> Append(o.items, e), left |-> o.left - e.tokens, shut |-> o.shut]

Start(budget) == [items |-> <<>>, left |-> budget, shut |-> "none"]

Result(offered, budget) ==
  LET out[i \in 0..Len(offered)] ==
        IF i = 0 THEN Start(budget) ELSE Step(out[i - 1], offered[i])
  IN  out[Len(offered)]

LEMMA StartType ==
  ASSUME NEW budget \in Nat
  PROVE  Start(budget) \in Outcome
<1> DEFINE none == <<>>
<1>1. none \in Seq(EntryType)
  BY EmptySeq
<1> HIDE DEF none
<1>2. [items |-> none, left |-> budget, shut |-> "none"] \in Outcome
  BY <1>1 DEF Outcome
<1> QED
  BY <1>2 DEF Start, none

LEMMA StepType ==
  ASSUME NEW o \in Outcome, NEW e \in EntryType
  PROVE  Step(o, e) \in Outcome
<1>1. o.items \in Seq(EntryType) /\ o.left \in Nat /\ o.shut \in EntryKind \cup {"none"}
  BY DEF Outcome
<1>2. e.kind \in EntryKind /\ e.tokens \in Nat
  BY DEF EntryType
<1>3. Append(o.items, e) \in Seq(EntryType)
  BY <1>1, AppendProperties
<1>4. CASE e.kind = o.shut \/ e.tokens > o.left
  BY <1>1, <1>2, <1>4 DEF Step, Outcome
<1>5. CASE ~(e.kind = o.shut \/ e.tokens > o.left)
  BY <1>1, <1>2, <1>3, <1>5 DEF Step, Outcome
<1> QED
  BY <1>4, <1>5

Stepped(offered, len, budget, f) ==
  /\ len \in Nat /\ Len(offered) = len
  /\ f = [i \in 0..len |-> f[i]] /\ f[0] = Start(budget)
  /\ \A i \in 1..len : f[i] = Step(f[i - 1], offered[i])

\* Steps from the start lead to the result.
LEMMA ResultIsStepped ==
  ASSUME NEW offered, NEW len, NEW budget, NEW f, Stepped(offered, len, budget, f)
  PROVE  Result(offered, budget) = f[len]
<1> USE DEF Stepped
<1> DEFINE Goes(g) == [i \in 0..len |-> IF i = 0 THEN Start(budget) ELSE Step(g[i - 1], offered[i])]
           out == CHOOSE g : g = Goes(g)
<1>1. Result(offered, budget) = out[len]
  BY DEF Result
<1>2. f = Goes(f)
  <2>1. \A i \in 0..len : f[i] = IF i = 0 THEN Start(budget) ELSE Step(f[i - 1], offered[i])
    OBVIOUS
  <2> QED
    BY <2>1
<1>3. out = Goes(out)
  BY <1>2
<1> HIDE DEF out
<1> DEFINE agree == {i \in 0..len : out[i] = f[i]}
<1>4. 0 \in agree
  BY <1>3
<1>5. ASSUME NEW k \in 0..(len - 1), k \in agree
      PROVE  k + 1 \in agree
  <2>1. k + 1 \in 1..len /\ k + 1 \in 0..len /\ (k + 1) - 1 = k /\ k + 1 # 0
    OBVIOUS
  <2>2. out[k + 1] = Step(out[k], offered[k + 1])
    BY <1>3, <2>1
  <2>3. f[k + 1] = Step(f[k], offered[k + 1])
    BY <2>1
  <2> QED
    BY <1>5, <2>1, <2>2, <2>3
<1>6. len \in agree
  <2> HIDE DEF agree
  <2>1. \A k \in 0..len : k \in agree
    BY <1>4, <1>5, UpTo
  <2> QED
    BY <2>1
<1> QED
  BY <1>1, <1>6

ResultOf(offered, budget, f) ==
  /\ f \in [0..Len(offered) -> Outcome]
  /\ f[0] = Start(budget)
  /\ \A i \in 1..Len(offered) : f[i] = Step(f[i - 1], offered[i])

LEMMA ResultSteps ==
  ASSUME NEW offered \in Seq(EntryType), NEW budget \in Nat
  PROVE  \E f : ResultOf(offered, budget, f)
<1> DEFINE len == Len(offered)
           step == [i \in 1..len |-> [o \in Outcome |-> Step(o, offered[i])]]
           start == Start(budget)
<1>1. len \in Nat /\ \A i \in 1..len : offered[i] \in EntryType
  OBVIOUS
<1>2. start \in Outcome
  BY StartType
<1>3. step \in StepsTo(len, Outcome)
  BY <1>1, StepType DEF StepsTo
<1>4. \A i \in 1..len : \A o \in Outcome : step[i][o] = Step(o, offered[i])
  OBVIOUS
<1> HIDE DEF step, start, len
<1>5. Computed(len, Outcome, start, step)
  BY <1>1, <1>2, <1>3, Recursion
<1>6. PICK f \in [0..len -> Outcome] : f[0] = start /\ \A i \in 1..len : f[i] = step[i][f[i - 1]]
  BY <1>5 DEF Computed
<1>7. \A i \in 1..len : f[i] = Step(f[i - 1], offered[i])
  <2> SUFFICES ASSUME NEW i \in 1..len PROVE f[i] = Step(f[i - 1], offered[i])
    OBVIOUS
  <2>1. f[i - 1] \in Outcome
    BY <1>1, <1>6
  <2> QED
    BY <1>4, <1>6, <2>1
<1> QED
  BY <1>6, <1>7 DEF len, start, ResultOf

LEMMA NothingOffered ==
  ASSUME NEW budget \in Nat
  PROVE  Result(<<>>, budget) = Start(budget) /\ Start(budget) \in Outcome
<1> DEFINE none == <<>>
           f == [i \in 0..0 |-> Start(budget)]
<1>1. Len(none) = 0 /\ none \in Seq(EntryType)
  BY EmptySeq
<1>2. f = [i \in 0..0 |-> f[i]] /\ f[0] = Start(budget)
        /\ \A i \in 1..0 : f[i] = Step(f[i - 1], none[i])
  OBVIOUS
<1> HIDE DEF f, none
<1>3. Result(none, budget) = f[0]
  <2>1. Stepped(none, 0, budget, f)
    BY <1>1, <1>2 DEF Stepped
  <2> QED
    BY <2>1, ResultIsStepped
<1>4. Start(budget) \in Outcome
  BY StartType
<1> QED
  BY <1>2, <1>3, <1>4 DEF none

LEMMA OneMoreOffered ==
  ASSUME NEW offered \in Seq(EntryType), NEW e \in EntryType, NEW budget \in Nat
  PROVE  /\ Result(offered, budget) \in Outcome
         /\ Result(offered \o <<e>>, budget) = Step(Result(offered, budget), e)
         /\ offered \o <<e>> \in Seq(EntryType)
         /\ Len(offered \o <<e>>) = Len(offered) + 1
<1> DEFINE len == Len(offered)
           more == offered \o <<e>>
<1>1. len \in Nat
  OBVIOUS
<1>2. /\ more \in Seq(EntryType) /\ Len(more) = len + 1
      /\ more[len + 1] = e /\ \A i \in 1..len : more[i] = offered[i]
  <2>1. <<e>> \in Seq(EntryType) /\ Len(<<e>>) = 1 /\ <<e>>[1] = e
    OBVIOUS
  <2>2. /\ more \in Seq(EntryType) /\ Len(more) = Len(offered) + Len(<<e>>)
        /\ \A i \in 1..(Len(offered) + Len(<<e>>)) :
             more[i] = IF i <= Len(offered) THEN offered[i] ELSE <<e>>[i - Len(offered)]
    BY <2>1, ConcatProperties
  <2> HIDE DEF more
  <2> QED
    BY <1>1, <2>1, <2>2
<1> HIDE DEF more
<1>3. PICK f : ResultOf(more, budget, f)
  BY <1>2, ResultSteps
<1>4. /\ f \in [0..(len + 1) -> Outcome] /\ f[0] = Start(budget)
      /\ \A i \in 1..(len + 1) : f[i] = Step(f[i - 1], more[i])
  BY <1>2, <1>3 DEF ResultOf
<1> HIDE DEF len
<1>5. Result(more, budget) = f[len + 1]
  <2> DEFINE n == len + 1
  <2>1. n \in Nat /\ Len(more) = n /\ f = [i \in 0..n |-> f[i]]
          /\ \A i \in 1..n : f[i] = Step(f[i - 1], more[i])
    BY <1>1, <1>2, <1>4
  <2> HIDE DEF n
  <2>2. Stepped(more, n, budget, f)
    BY <1>4, <2>1 DEF Stepped
  <2>3. Result(more, budget) = f[n]
    BY <2>2, ResultIsStepped
  <2> QED
    BY <2>3 DEF n
<1>6. Result(offered, budget) = f[len]
  <2> DEFINE g == [i \in 0..len |-> f[i]]
  <2>1. g = [i \in 0..len |-> g[i]] /\ g[0] = Start(budget) /\ g[len] = f[len]
    BY <1>1, <1>4
  <2>2. ASSUME NEW i \in 1..len
        PROVE  g[i] = Step(g[i - 1], offered[i])
    <3>1. i \in 1..(len + 1) /\ i \in 0..len /\ i - 1 \in 0..len
      BY <1>1
    <3> QED
      BY <1>2, <1>4, <3>1
  <2> HIDE DEF g
  <2>3. Stepped(offered, len, budget, g)
    BY <1>1, <2>1, <2>2 DEF Stepped, len
  <2>4. Result(offered, budget) = g[len]
    BY <2>3, ResultIsStepped
  <2> QED
    BY <2>1, <2>4
<1>7. f[len + 1] = Step(f[len], more[len + 1]) /\ f[len] \in Outcome
  <2>1. len + 1 \in 1..(len + 1) /\ len \in 0..(len + 1) /\ (len + 1) - 1 = len
    BY <1>1
  <2> QED
    BY <1>4, <2>1
<1> QED
  BY <1>2, <1>5, <1>6, <1>7 DEF more, len

Upto(first, more, i) == first \o SubSeq(more, 1, i)

LEMMA Regrouped ==
  ASSUME NEW S, NEW a, NEW b, NEW c, a \in Seq(S), b \in Seq(S), c \in Seq(S)
  PROVE  a \o (b \o c) = (a \o b) \o c
BY ConcatAssociative

LEMMA EntriesRegrouped == \A a, b, c \in Seq(EntryType) : a \o (b \o c) = (a \o b) \o c
BY Regrouped

LEMMA OneFurther ==
  ASSUME NEW S, NEW first \in Seq(S), NEW more \in Seq(S)
  PROVE  /\ Upto(first, more, 0) = first /\ Upto(first, more, Len(more)) = first \o more
         /\ \A i \in 0..Len(more) : Upto(first, more, i) \in Seq(S)
              /\ Len(Upto(first, more, i)) = Len(first) + i
<1>1. Len(more) \in Nat
  OBVIOUS
<1>2. Upto(first, more, 0) = first
  <2>1. SubSeq(more, 1, 0) = <<>>
    BY SubSeqEmpty
  <2> QED
    BY <2>1, ConcatEmptySeq DEF Upto
<1>3. Upto(first, more, Len(more)) = first \o more
  BY SubSeqFull DEF Upto
<1>4. ASSUME NEW i \in 0..Len(more)
      PROVE  /\ SubSeq(more, 1, i) \in Seq(S) /\ Len(SubSeq(more, 1, i)) = i
             /\ Upto(first, more, i) \in Seq(S) /\ Len(Upto(first, more, i)) = Len(first) + i
  <2> DEFINE part == SubSeq(more, 1, i)
  <2>1. \A j \in 1..i : more[j] \in S
    BY <1>1
  <2>2. part \in Seq(S) /\ Len(part) = i
    BY <1>1, <2>1, SubSeqProperties
  <2> HIDE DEF part
  <2>3. first \o part \in Seq(S) /\ Len(first \o part) = Len(first) + Len(part)
    BY <2>2, ConcatProperties
  <2> QED
    BY <2>2, <2>3 DEF Upto, part
<1> QED
  BY <1>2, <1>3, <1>4

LEMMA NextOne ==
  ASSUME NEW S, NEW first \in Seq(S), NEW more \in Seq(S), NEW i \in 0..(Len(more) - 1)
  PROVE  /\ more[i + 1] \in S
         /\ Upto(first, more, i + 1) = Upto(first, more, i) \o <<more[i + 1]>>
<1> DEFINE part == SubSeq(more, 1, i)
           one == <<more[i + 1]>>
<1>1. 1 \in 1..Len(more) /\ i + 1 \in 1..Len(more) /\ (i + 1) - 1 = i
  OBVIOUS
<1>2. SubSeq(more, 1, i + 1) = part \o one
  BY <1>1, SubSeqRecursiveSecond
<1>3. part \in Seq(S)
  <2>1. \A j \in 1..i : more[j] \in S
    BY <1>1
  <2> QED
    BY <2>1, SubSeqProperties
<1>4. more[i + 1] \in S
  BY <1>1
<1>5. one \in Seq(S)
  BY <1>4
<1>6. first \in Seq(S)
  OBVIOUS
<1> HIDE DEF part, one
<1>7. first \o (part \o one) = (first \o part) \o one
  BY <1>3, <1>5, <1>6, Regrouped
<1> QED
  BY <1>2, <1>4, <1>7 DEF Upto, part, one

\* A prompt of more begins with the prompt of less.
LEMMA PromptGrows ==
  ASSUME NEW first \in Seq(EntryType), NEW more \in Seq(EntryType), NEW budget \in Nat
  PROVE  IsPrefix(Result(first, budget).items, Result(first \o more, budget).items)
<1> DEFINE R(i) == Result(Upto(first, more, i), budget)
           begun == {i \in 0..Len(more) : IsPrefix(R(0).items, R(i).items)}
<1>1. Len(more) \in Nat
  OBVIOUS
<1>2. \A i \in 0..Len(more) : R(i) \in Outcome
  <2> SUFFICES ASSUME NEW i \in 0..Len(more) PROVE R(i) \in Outcome
    OBVIOUS
  <2> DEFINE past == Upto(first, more, i)
  <2>1. past \in Seq(EntryType)
    BY OneFurther
  <2>2. CASE i = 0
    <3>1. past = first
      BY <2>2, OneFurther
    <3> DEFINE e == [kind |-> "goal", n |-> 1, tokens |-> 0]
    <3>2. e \in EntryType
      BY DEF EntryType, EntryKind
    <3> HIDE DEF e, past
    <3> QED
      BY <2>1, <3>2, OneMoreOffered DEF past
  <2>3. CASE i # 0
    <3> DEFINE e == [kind |-> "goal", n |-> 1, tokens |-> 0]
    <3>2. e \in EntryType
      BY DEF EntryType, EntryKind
    <3> HIDE DEF e, past
    <3> QED
      BY <2>1, <3>2, OneMoreOffered DEF past
  <2> QED
    BY <2>2, <2>3
<1>3. 0 \in begun
  <2>1. R(0).items \in Seq(EntryType)
    BY <1>1, <1>2 DEF Outcome
  <2> HIDE DEF R
  <2> QED
    BY <1>1, <2>1 DEF IsPrefix
<1>4. ASSUME NEW i \in 0..(Len(more) - 1), i \in begun
      PROVE  i + 1 \in begun
  <2> DEFINE past == Upto(first, more, i)
             e == more[i + 1]
  <2>0. Upto(first, more, i + 1) = past \o <<e>> /\ e \in EntryType
    BY NextOne
  <2>1. R(i + 1) = Step(R(i), e) /\ e \in EntryType
    <3>1. past \in Seq(EntryType)
      BY <1>1, OneFurther
    <3>2. Result(past \o <<e>>, budget) = Step(Result(past, budget), e)
      <4> HIDE DEF past, e
      <4> QED
        BY <2>0, <3>1, OneMoreOffered
    <3> QED
      BY <2>0, <3>2
  <2> DEFINE s == R(0).items
             t == R(i).items
  <2>2. s \in Seq(EntryType) /\ t \in Seq(EntryType)
    <3>1. R(0) \in Outcome /\ R(i) \in Outcome
      BY <1>1, <1>2
    <3> HIDE DEF R
    <3> QED
      BY <3>1 DEF Outcome
  <2>3. IsPrefix(s, t)
    BY <1>4
  <2>4. R(i + 1).items = t \/ R(i + 1).items = Append(t, e)
    BY <2>1 DEF Step
  <2>5. e \in EntryType
    BY <2>1
  <2> HIDE DEF s, t, e
  <2>6. IsPrefix(s, Append(t, e))
    <3>1. Len(s) <= Len(t) /\ SubSeq(s, 1, Len(s)) = SubSeq(t, 1, Len(s))
      BY <2>3 DEF IsPrefix
    <3>2. Append(t, e) \in Seq(EntryType) /\ Len(Append(t, e)) = Len(t) + 1
            /\ Append(t, e) = t \o <<e>>
      BY <2>2, <2>5, AppendProperties, AppendIsConcat
    <3>3. SubSeq(t \o <<e>>, 1, Len(s)) = SubSeq(t, 1, Len(s))
      <4>1. CASE Len(s) = 0
        <5>1. SubSeq(t \o <<e>>, 1, 0) = <<>> /\ SubSeq(t, 1, 0) = <<>>
          BY SubSeqEmpty
        <5> QED
          BY <4>1, <5>1
      <4>2. CASE Len(s) # 0
        <5>1. 1 \in 1..Len(t) /\ Len(s) \in 1..Len(t) /\ <<e>> \in Seq(EntryType)
          BY <2>2, <2>5, <3>1, <4>2
        <5> QED
          BY <2>2, <5>1, SubSeqOfConcat1
      <4> QED
        BY <4>1, <4>2
    <3> QED
      BY <2>2, <3>1, <3>2, <3>3 DEF IsPrefix
  <2>7. IsPrefix(s, R(i + 1).items)
    BY <2>3, <2>4, <2>6
  <2>8. i + 1 \in 0..Len(more)
    BY <1>1
  <2> QED
    BY <2>7, <2>8 DEF s
<1>5. Len(more) \in begun
  <2> HIDE DEF begun
  <2>1. \A i \in 0..Len(more) : i \in begun
    BY <1>1, <1>3, <1>4, UpTo
  <2> QED
    BY <1>1, <2>1
<1> QED
  BY <1>5, OneFurther

\* What is of the kind that is shut changes nothing.
LEMMA ShutIsSkipped ==
  ASSUME NEW first \in Seq(EntryType), NEW more \in Seq(EntryType), NEW budget \in Nat,
         \A i \in 1..Len(more) : more[i].kind = Result(first, budget).shut
  PROVE  Result(first \o more, budget) = Result(first, budget)
<1> DEFINE R(i) == Result(Upto(first, more, i), budget)
           same == {i \in 0..Len(more) : R(i) = Result(first, budget)}
<1>1. Len(more) \in Nat
  OBVIOUS
<1>2. 0 \in same
  BY <1>1, OneFurther
<1>3. ASSUME NEW i \in 0..(Len(more) - 1), i \in same
      PROVE  i + 1 \in same
  <2> DEFINE past == Upto(first, more, i)
             e == more[i + 1]
  <2>1. Upto(first, more, i + 1) = past \o <<e>> /\ e \in EntryType
    BY NextOne
  <2>2. past \in Seq(EntryType)
    BY <1>1, OneFurther
  <2>3. i + 1 \in 1..Len(more) /\ i + 1 \in 0..Len(more)
    BY <1>1
  <2>4. e.kind = Result(first, budget).shut
    BY <2>3
  <2>5. Result(past, budget) = Result(first, budget)
    BY <1>3
  <2> HIDE DEF past, e
  <2>6. Result(past \o <<e>>, budget) = Step(Result(past, budget), e)
          /\ Result(past, budget) \in Outcome
    BY <2>1, <2>2, OneMoreOffered
  <2> DEFINE o == Result(past, budget)
  <2>7. o \in Outcome /\ e.kind = o.shut
    BY <2>4, <2>5, <2>6
  <2> HIDE DEF o
  <2>8. Step(o, e) = o
    BY <2>7 DEF Step, Outcome
  <2> QED
    BY <2>1, <2>3, <2>5, <2>6, <2>8 DEF o
<1>4. Len(more) \in same
  <2> HIDE DEF same
  <2>1. \A i \in 0..Len(more) : i \in same
    BY <1>1, <1>2, <1>3, UpTo
  <2> QED
    BY <1>1, <2>1
<1> QED
  BY <1>4, OneFurther

\* What is shut is of a kind that was offered.
KindsOf(offered) == {offered[i].kind : i \in 1..Len(offered)}

Faithful(prompt, shut, offered) ==
  /\ Len(prompt) <= Len(offered)
  /\ shut \in KindsOf(offered) \cup {"none"}
  /\ InOrder(prompt, offered)

LEMMA OneMoreFaithful ==
  ASSUME NEW o \in Outcome, NEW offered \in Seq(EntryType), NEW e \in EntryType,
         Faithful(o.items, o.shut, offered)
  PROVE  Faithful(Step(o, e).items, Step(o, e).shut, offered \o <<e>>)
<1> DEFINE len == Len(offered)
           more == offered \o <<e>>
           prompt == o.items
           longer == Append(prompt, e)
<1>1. /\ more \in Seq(EntryType) /\ Len(more) = len + 1 /\ len \in Nat
      /\ more[len + 1] = e /\ \A i \in 1..len : more[i] = offered[i]
  <2>1. more = Append(offered, e)
    BY AppendIsConcat
  <2> QED
    BY <2>1, AppendProperties
<1>2. prompt \in Seq(EntryType) /\ longer \in Seq(EntryType) /\ Len(longer) = Len(prompt) + 1
  BY AppendProperties DEF Outcome
<1>3. longer[Len(prompt) + 1] = e /\ \A i \in 1..Len(prompt) : longer[i] = prompt[i]
  BY <1>2, AppendProperties
<1>4. /\ Step(o, e).items \in {prompt, longer}
      /\ Step(o, e).shut \in {o.shut, e.kind}
  BY DEF Step
<1>5. KindsOf(offered) \cup {e.kind} \subseteq KindsOf(more)
  <2>1. \A i \in 1..len : offered[i].kind \in KindsOf(more)
    <3> HIDE DEF more
    <3> QED
      BY <1>1 DEF KindsOf
  <2>2. e.kind \in KindsOf(more)
    <3> HIDE DEF more
    <3>1. len + 1 \in 1..Len(more)
      BY <1>1
    <3> QED
      BY <1>1, <3>1 DEF KindsOf
  <2> QED
    BY <2>1, <2>2 DEF KindsOf
<1>6. Len(prompt) <= len /\ InOrder(prompt, offered) /\ o.shut \in KindsOf(offered) \cup {"none"}
  BY DEF Faithful
<1> HIDE DEF more, prompt, longer, len
<1>7. Len(more) = len + 1 /\ Len(offered) = len /\ Len(longer) = Len(prompt) + 1
  BY <1>1, <1>2 DEF len
<1>8. ASSUME NEW j \in 1..Len(prompt)
      PROVE  \E l \in 1..len : /\ prompt[j] = more[l]
                               /\ \A i \in 1..(j - 1) : \E k \in 1..(l - 1) : prompt[i] = more[k]
  <2>1. PICK l \in 1..len : /\ prompt[j] = offered[l]
                            /\ \A i \in 1..(j - 1) : \E k \in 1..(l - 1) : prompt[i] = offered[k]
    BY <1>6, <1>7 DEF InOrder
  <2>2. prompt[j] = more[l]
    BY <1>1, <2>1
  <2>3. \A i \in 1..(j - 1) : \E k \in 1..(l - 1) : prompt[i] = more[k]
    <3> SUFFICES ASSUME NEW i \in 1..(j - 1) PROVE \E k \in 1..(l - 1) : prompt[i] = more[k]
      OBVIOUS
    <3>1. PICK k \in 1..(l - 1) : prompt[i] = offered[k]
      BY <2>1
    <3>2. k \in 1..len
      BY <1>1
    <3> QED
      BY <1>1, <3>1, <3>2
  <2> QED
    BY <2>2, <2>3
<1>9. InOrder(prompt, more)
  <2> SUFFICES ASSUME NEW j \in 1..Len(prompt)
               PROVE  \E l \in 1..(len + 1) :
                        /\ prompt[j] = more[l]
                        /\ \A i \in 1..(j - 1) : \E k \in 1..(l - 1) : prompt[i] = more[k]
    BY <1>7 DEF InOrder
  <2>1. \A l \in 1..len : l \in 1..(len + 1)
    BY <1>1
  <2> QED
    BY <1>8, <2>1
<1>10. InOrder(longer, more)
  <2> DEFINE Right(j, top) == \E l \in 1..top :
                           /\ longer[j] = more[l]
                           /\ \A i \in 1..(j - 1) : \E k \in 1..(l - 1) : longer[i] = more[k]
  <2>1. ASSUME NEW j \in 1..(Len(prompt) + 1)
        PROVE  Right(j, len + 1)
    <3>0. Len(prompt) \in Nat
      BY <1>2
    <3>1. CASE j # Len(prompt) + 1
      <4>1. j \in 1..Len(prompt)
        BY <3>0, <3>1
      <4>2. PICK l \in 1..len : /\ prompt[j] = more[l]
                                /\ \A i \in 1..(j - 1) : \E k \in 1..(l - 1) : prompt[i] = more[k]
        BY <1>8, <4>1
      <4>3. l \in 1..(len + 1) /\ longer[j] = more[l]
        BY <1>1, <1>3, <4>1, <4>2
      <4>4. \A i \in 1..(j - 1) : longer[i] = prompt[i]
        BY <1>3, <4>1, <3>0
      <4> QED
        BY <4>2, <4>3, <4>4
    <3>2. CASE j = Len(prompt) + 1
      <4>1. longer[j] = more[len + 1] /\ len + 1 \in 1..(len + 1)
        BY <1>1, <1>3, <3>2
      <4>2. ASSUME NEW i \in 1..(j - 1)
            PROVE  \E k \in 1..((len + 1) - 1) : longer[i] = more[k]
        <5>1. i \in 1..Len(prompt)
          BY <3>0, <3>2
        <5>2. PICK l \in 1..len : prompt[i] = more[l]
          BY <1>8, <5>1
        <5>3. l \in 1..((len + 1) - 1) /\ longer[i] = more[l]
          BY <1>1, <1>3, <5>1, <5>2
        <5> QED
          BY <5>3
      <4> QED
        BY <4>1, <4>2
    <3> QED
      BY <3>1, <3>2
  <2> HIDE DEF Right
  <2>2. \A j \in 1..Len(longer) : Right(j, Len(more))
    BY <1>7, <2>1
  <2> QED
    BY <2>2 DEF InOrder, Right
<1>11. Len(prompt) <= Len(more) /\ Len(longer) <= Len(more)
  BY <1>1, <1>2, <1>6
<1> QED
  BY <1>4, <1>5, <1>6, <1>9, <1>10, <1>11 DEF Faithful, more, prompt

LEMMA ResultFaithful ==
  ASSUME NEW offered \in Seq(EntryType), NEW budget \in Nat
  PROVE  /\ Result(offered, budget) \in Outcome
         /\ Faithful(Result(offered, budget).items, Result(offered, budget).shut, offered)
<1> DEFINE none == <<>>
           past(i) == Upto(none, offered, i)
           R(i) == Result(past(i), budget)
           so == {i \in 0..Len(offered) : R(i) \in Outcome /\ Faithful(R(i).items, R(i).shut, past(i))}
<1>1. Len(offered) \in Nat /\ none \in Seq(EntryType)
  BY EmptySeq
<1> HIDE DEF none
<1>2. 0 \in so
  <2>1. past(0) = <<>>
    BY <1>1, OneFurther DEF none
  <2>2. R(0) = Start(budget) /\ R(0) \in Outcome
    BY <2>1, NothingOffered
  <2>3. R(0).items = <<>> /\ R(0).shut = "none"
    BY <2>2 DEF Start
  <2>4. Faithful(<<>>, "none", <<>>)
    BY EmptySeq DEF Faithful, InOrder
  <2> QED
    BY <1>1, <2>1, <2>2, <2>3, <2>4
<1>3. ASSUME NEW i \in 0..(Len(offered) - 1), i \in so
      PROVE  i + 1 \in so
  <2> DEFINE e == offered[i + 1]
             s == past(i)
  <2>1. past(i + 1) = s \o <<e>> /\ e \in EntryType
    BY <1>1, NextOne
  <2>2. s \in Seq(EntryType) /\ i + 1 \in 0..Len(offered)
    BY <1>1, OneFurther
  <2>3. Faithful(Result(s, budget).items, Result(s, budget).shut, s)
          /\ Result(s, budget) \in Outcome
    BY <1>3
  <2> HIDE DEF e, s, past
  <2>4. Result(s \o <<e>>, budget) = Step(Result(s, budget), e)
    BY <2>1, <2>2, OneMoreOffered
  <2> DEFINE o == Result(s, budget)
  <2> HIDE DEF o
  <2>5. o \in Outcome /\ Faithful(o.items, o.shut, s)
    BY <2>3 DEF o
  <2>6. Step(o, e) \in Outcome /\ Faithful(Step(o, e).items, Step(o, e).shut, s \o <<e>>)
    BY <2>1, <2>2, <2>5, StepType, OneMoreFaithful
  <2>7. R(i + 1) = Step(o, e)
    BY <2>1, <2>4 DEF o
  <2> QED
    BY <2>1, <2>2, <2>6, <2>7
<1>4. Len(offered) \in so
  <2> HIDE DEF so
  <2>1. \A i \in 0..Len(offered) : i \in so
    BY <1>1, <1>2, <1>3, UpTo
  <2> QED
    BY <1>1, <2>1
<1>5. past(Len(offered)) = offered
  <2>1. Upto(none, offered, Len(offered)) = none \o offered
    BY <1>1, OneFurther
  <2>2. none \o offered = offered
    BY ConcatEmptySeq DEF none
  <2> QED
    BY <2>1, <2>2
<1> QED
  BY <1>4, <1>5

Summed(prompt, f) ==
  /\ f \in [0..Len(prompt) -> Nat]
  /\ f[0] = 0
  /\ \A i \in 1..Len(prompt) : f[i] = f[i - 1] + prompt[i].tokens

LEMMA TokensAreSummed ==
  ASSUME NEW prompt \in Seq(EntryType), NEW f, Summed(prompt, f)
  PROVE  TokensOf(prompt) = f[Len(prompt)]
<1> USE DEF Summed
<1> DEFINE len == Len(prompt)
           Sums(g) == [i \in 0..len |-> IF i = 0 THEN 0 ELSE g[i - 1] + prompt[i].tokens]
           sum == CHOOSE g : g = Sums(g)
<1>1. TokensOf(prompt) = sum[len] /\ len \in Nat
  BY DEF TokensOf
<1>2. f = Sums(f)
  <2>1. \A i \in 0..len : f[i] = IF i = 0 THEN 0 ELSE f[i - 1] + prompt[i].tokens
    OBVIOUS
  <2>2. f = [i \in 0..len |-> f[i]]
    OBVIOUS
  <2> QED
    BY <2>1, <2>2
<1>3. sum = Sums(sum)
  BY <1>2
<1> HIDE DEF sum, len
<1> DEFINE agree == {i \in 0..len : sum[i] = f[i]}
<1>4. 0 \in agree
  BY <1>1, <1>3
<1>5. ASSUME NEW k \in 0..(len - 1), k \in agree
      PROVE  k + 1 \in agree
  <2>1. k + 1 \in 1..len /\ k + 1 \in 0..len /\ (k + 1) - 1 = k /\ k + 1 # 0
    BY <1>1
  <2>2. sum[k + 1] = sum[k] + prompt[k + 1].tokens
    BY <1>3, <2>1
  <2>3. f[k + 1] = f[k] + prompt[k + 1].tokens
    BY <2>1 DEF len
  <2> QED
    BY <1>5, <2>1, <2>2, <2>3
<1>6. len \in agree
  <2> HIDE DEF agree
  <2>1. \A k \in 0..len : k \in agree
    BY <1>1, <1>4, <1>5, UpTo
  <2> QED
    BY <1>1, <2>1
<1> QED
  BY <1>1, <1>6 DEF len

LEMMA SumsExist ==
  ASSUME NEW prompt \in Seq(EntryType)
  PROVE  \E f : Summed(prompt, f)
<1> DEFINE len == Len(prompt)
           step == [i \in 1..len |-> [sum \in Nat |-> sum + prompt[i].tokens]]
<1>1. len \in Nat /\ \A i \in 1..len : prompt[i].tokens \in Nat
  <2>1. len \in Nat /\ \A i \in 1..len : prompt[i] \in EntryType
    OBVIOUS
  <2>2. \A e \in EntryType : e.tokens \in Nat
    BY DEF EntryType
  <2> QED
    BY <2>1, <2>2
<1>2. step \in StepsTo(len, Nat)
  BY <1>1 DEF StepsTo
<1>3. \A i \in 1..len : \A sum \in Nat : step[i][sum] = sum + prompt[i].tokens
  OBVIOUS
<1> HIDE DEF step, len
<1>4. Computed(len, Nat, 0, step)
  BY <1>1, <1>2, Recursion
<1>5. PICK f \in [0..len -> Nat] : f[0] = 0 /\ \A i \in 1..len : f[i] = step[i][f[i - 1]]
  BY <1>4 DEF Computed
<1>6. \A i \in 1..len : f[i] = f[i - 1] + prompt[i].tokens
  <2> SUFFICES ASSUME NEW i \in 1..len PROVE f[i] = f[i - 1] + prompt[i].tokens
    OBVIOUS
  <2>1. f[i - 1] \in Nat
    BY <1>1, <1>5
  <2> QED
    BY <1>3, <1>5, <2>1
<1> QED
  BY <1>5, <1>6 DEF len, Summed

LEMMA TokensOfMore ==
  ASSUME NEW prompt \in Seq(EntryType), NEW e \in EntryType
  PROVE  /\ TokensOf(prompt) \in Nat
         /\ TokensOf(Append(prompt, e)) = TokensOf(prompt) + e.tokens
<1> DEFINE len == Len(prompt)
           more == Append(prompt, e)
<1>1. /\ more \in Seq(EntryType) /\ Len(more) = len + 1 /\ len \in Nat
      /\ more[len + 1] = e /\ \A i \in 1..len : more[i] = prompt[i]
  BY AppendProperties
<1> HIDE DEF more
<1>2. PICK f : Summed(more, f)
  BY <1>1, SumsExist
<1>3. TokensOf(more) = f[len + 1]
  BY <1>1, <1>2, TokensAreSummed
<1>4. f[len + 1] = f[len] + e.tokens /\ f[len] \in Nat
  <2>1. len + 1 \in 1..Len(more) /\ len \in 0..Len(more) /\ (len + 1) - 1 = len
    BY <1>1
  <2> QED
    BY <1>1, <1>2, <2>1 DEF Summed
<1>5. TokensOf(prompt) = f[len]
  <2> DEFINE g == [i \in 0..len |-> f[i]]
  <2>1. g \in [0..len -> Nat] /\ g[0] = 0 /\ g[len] = f[len]
    BY <1>1, <1>2 DEF Summed
  <2>2. ASSUME NEW i \in 1..len
        PROVE  g[i] = g[i - 1] + prompt[i].tokens
    <3>1. i \in 1..Len(more) /\ i \in 0..len /\ i - 1 \in 0..len
      BY <1>1
    <3> QED
      BY <1>1, <1>2, <3>1 DEF Summed
  <2> HIDE DEF g
  <2>3. Summed(prompt, g)
    BY <2>1, <2>2 DEF Summed
  <2> QED
    BY <2>1, <2>3, TokensAreSummed
<1> QED
  BY <1>3, <1>4, <1>5 DEF more

LEMMA NoTokens == TokensOf(<<>>) = 0
<1> DEFINE none == <<>>
           f == [i \in 0..0 |-> 0]
<1>1. none \in Seq(EntryType) /\ Len(none) = 0
  BY EmptySeq
<1>2. f \in [0..0 -> Nat] /\ f[0] = 0 /\ \A i \in 1..0 : f[i] = f[i - 1] + none[i].tokens
  OBVIOUS
<1> HIDE DEF f, none
<1>3. Summed(none, f)
  BY <1>1, <1>2 DEF Summed
<1>4. TokensOf(none) = f[0]
  BY <1>1, <1>3, TokensAreSummed
<1> QED
  BY <1>2, <1>4 DEF none

\* When the last of the entries of a kind is not shut out, none of them is.
LEMMA NoneShutOut ==
  ASSUME NEW first \in Seq(EntryType), NEW more \in Seq(EntryType), NEW budget \in Nat, NEW kind,
         \A i \in 1..Len(more) : more[i].kind = kind,
         Result(first \o more, budget).shut # kind
  PROVE  Range(more) \subseteq Range(Result(first \o more, budget).items)
<1> DEFINE R(i) == Result(Upto(first, more, i), budget)
           In(i) == \A j \in 1..i : \E x \in 1..Len(R(i).items) : R(i).items[x] = more[j]
           so == {i \in 0..Len(more) : R(i).shut # kind => In(i)}
<1>1. Len(more) \in Nat
  OBVIOUS
<1>2. 0 \in so
  BY <1>1
<1>3. ASSUME NEW i \in 0..(Len(more) - 1), i \in so
      PROVE  i + 1 \in so
  <2> DEFINE past == Upto(first, more, i)
             e == more[i + 1]
             o == Result(past, budget)
  <2>1. Upto(first, more, i + 1) = past \o <<e>> /\ e \in EntryType
    BY NextOne
  <2>2. past \in Seq(EntryType)
    BY <1>1, OneFurther
  <2>3. i + 1 \in 1..Len(more) /\ i + 1 \in 0..Len(more)
    BY <1>1
  <2>4. e.kind = kind
    BY <2>3
  <2>5. o.shut # kind => \A j \in 1..i : \E x \in 1..Len(o.items) : o.items[x] = more[j]
    BY <1>3
  <2>6. Result(past \o <<e>>, budget) = Step(o, e) /\ o \in Outcome
    <3> HIDE DEF past, e
    <3> QED
      BY <2>1, <2>2, OneMoreOffered
  <2>7. R(i + 1) = Step(o, e)
    BY <2>1, <2>6
  <2> HIDE DEF o, R, past
  <2>8. ASSUME Step(o, e).shut # kind
        PROVE  \A j \in 1..(i + 1) : \E x \in 1..Len(Step(o, e).items) :
                 Step(o, e).items[x] = more[j]
    <3>1. Step(o, e).items = Append(o.items, e) /\ o.shut # kind
      BY <2>4, <2>8 DEF Step
    <3> DEFINE s == o.items
               t == Append(s, e)
    <3>2. s \in Seq(EntryType)
      BY <2>6 DEF Outcome
    <3>3. Len(t) = Len(s) + 1 /\ t[Len(s) + 1] = e /\ (\A x \in 1..Len(s) : t[x] = s[x])
            /\ Len(s) \in Nat
      BY <2>1, <3>2, AppendProperties
    <3>4. ASSUME NEW j \in 1..(i + 1)
          PROVE  \E x \in 1..Len(t) : t[x] = more[j]
      <4>1. CASE j = i + 1
        <5>1. Len(s) + 1 \in 1..Len(t)
          BY <3>3
        <5> QED
          BY <3>3, <4>1, <5>1
      <4>2. CASE j # i + 1
        <5>1. j \in 1..i
          BY <4>2
        <5>2. PICK x \in 1..Len(s) : s[x] = more[j]
          BY <2>5, <3>1, <5>1
        <5>3. x \in 1..Len(t) /\ t[x] = more[j]
          BY <3>3, <5>2
        <5> QED
          BY <5>3
      <4> QED
        BY <4>1, <4>2
    <3> QED
      BY <3>1, <3>4
  <2> QED
    BY <2>3, <2>7, <2>8
<1>4. Len(more) \in so
  <2> HIDE DEF so
  <2>1. \A i \in 0..Len(more) : i \in so
    BY <1>1, <1>2, <1>3, UpTo
  <2> QED
    BY <1>1, <2>1
<1> DEFINE o == Result(first \o more, budget)
<1>5. R(Len(more)) = o
  BY OneFurther
<1>6. \A j \in 1..Len(more) : \E x \in 1..Len(o.items) : o.items[x] = more[j]
  BY <1>4, <1>5
<1>7. o.items \in Seq(EntryType)
  <2>1. first \o more \in Seq(EntryType)
    BY ConcatProperties
  <2>2. o \in Outcome
    BY <2>1, ResultFaithful
  <2> HIDE DEF o
  <2> QED
    BY <2>2 DEF Outcome
<1> HIDE DEF o
<1>8. Range(more) = {more[j] : j \in 1..Len(more)}
        /\ Range(o.items) = {o.items[x] : x \in 1..Len(o.items)}
  BY <1>7, RangeEquality
<1> QED
  BY <1>6, <1>8 DEF o

-----------------------------------------------------------------------------
(* What is offered to build in the state of a run.                         *)

Opening == <<Goal>>
WithRules == Opening \o Rules
WithProject == WithRules \o Detected(workspace.markers)
Fixed == WithProject \o Files
FilesTo(n) == FlattenSeq([i \in 1..n |-> FileEntry(i)])
Numbers == [n \in DOMAIN request.file_paths |-> n]

Budget == request.token_budget
Kinded(offered, kind) == \A i \in 1..Len(offered) : offered[i].kind = kind

LEMMA EntryTyped ==
  ASSUME NEW kind \in EntryKind, NEW n \in Nat, NEW length \in Nat
  PROVE  Entry(kind, n, length) \in EntryType /\ Entry(kind, n, length).kind = kind
<1>1. (length + 3) \div 4 \in Nat
  OBVIOUS
<1> QED
  BY <1>1 DEF Entry, EntryType

LEMMA EntriesTyped ==
  ASSUME NEW kind \in EntryKind, NEW lengths \in Seq(Nat)
  PROVE  /\ EntriesOf(kind, lengths) \in Seq(EntryType)
         /\ Len(EntriesOf(kind, lengths)) = Len(lengths)
         /\ Kinded(EntriesOf(kind, lengths), kind)
<1> DEFINE n == Len(lengths)
           list == EntriesOf(kind, lengths)
<1>1. n \in Nat /\ \A i \in 1..n : lengths[i] \in Nat
  OBVIOUS
<1>2. list = [i \in 1..n |-> Entry(kind, i, lengths[i])]
  BY DEF EntriesOf
<1>3. \A i \in 1..n : Entry(kind, i, lengths[i]) \in EntryType
        /\ Entry(kind, i, lengths[i]).kind = kind
  BY <1>1, EntryTyped
<1>4. list \in [1..n -> EntryType] /\ \A i \in 1..n : list[i].kind = kind
  BY <1>2, <1>3
<1> HIDE DEF list, n
<1>5. list \in Seq(EntryType) /\ Len(list) = n
  BY <1>1, <1>4, ListIsSeq
<1> QED
  BY <1>4, <1>5 DEF Kinded, list, n

LEMMA KnownKinds == Range(ProjectKinds) = {"cpp", "python", "go", "scala"}
<1>1. Range(ProjectKinds) = {ProjectKinds[i] : i \in 1..4}
  BY DEF ProjectKinds, Range
<1>2. \A i \in 1..4 : i = 1 \/ i = 2 \/ i = 3 \/ i = 4
  OBVIOUS
<1> QED
  BY <1>1, <1>2 DEF ProjectKinds

LEMMA DetectedTyped ==
  ASSUME NEW markers
  PROVE  \/ Detected(markers) = <<>>
         \/ \E e \in EntryType : e.kind \in Range(ProjectKinds) /\ Detected(markers) = <<e>>
<1> DEFINE Marked(kind) == kind \in markers
           found == SelectInSeq(ProjectKinds, Marked)
           marked == {i \in 1..4 : ProjectKinds[i] \in markers}
<1>1. found = 0 \/ found \in 1..4
  <2>1. Len(ProjectKinds) = 4
    BY DEF ProjectKinds
  <2>2. CASE marked = {}
    BY <2>1, <2>2 DEF SelectInSeq
  <2>3. CASE marked # {}
    <3>1. PICK n \in marked : \A m \in marked : n <= m
      <4>1. marked \subseteq Nat
        OBVIOUS
      <4> HIDE DEF marked
      <4> QED
        BY <2>3, <4>1, LeastNatural
    <3> QED
      BY <2>1, <2>3, <3>1 DEF SelectInSeq, Min
  <2> QED
    BY <2>2, <2>3
<1>2. Detected(markers) = IF found = 0 THEN <<>>
        ELSE <<Entry(ProjectKinds[found], 1, InfoLength[ProjectKinds[found]])>>
  BY DEF Detected
<1> HIDE DEF found
<1>3. CASE found = 0
  BY <1>2, <1>3
<1>4. CASE found # 0
  <2> DEFINE kind == ProjectKinds[found]
             e == Entry(kind, 1, InfoLength[kind])
  <2>1. kind \in Range(ProjectKinds)
    BY <1>1, <1>4 DEF Range, ProjectKinds
  <2>2. InfoLength[kind] \in Nat
    BY <2>1, ContextAssumption DEF ContextAssumption
  <2>3. e \in EntryType /\ e.kind = kind
    <3>1. kind \in EntryKind /\ 1 \in Nat
      BY <2>1 DEF EntryKind
    <3> HIDE DEF kind
    <3> QED
      BY <2>2, <3>1, EntryTyped
  <2> QED
    BY <1>2, <1>4, <2>1, <2>3
<1> QED
  BY <1>3, <1>4

\* The request and the workspace of a run.
Given == request \in Request /\ workspace \in Workspace

LEMMA GivenIs ==
  ASSUME Given
  PROVE  /\ request.goal \in Nat /\ Budget \in Nat /\ request.file_paths \in Seq(Paths)
         /\ workspace.rules \in Seq(Nat)
         /\ workspace.files \in [Paths -> Nat \cup {Missing}]
BY DEF Given, Request, Workspace, Budget

\* The entry of a path is nothing or the entry of a file.
LEMMA FileTyped ==
  ASSUME Given, NEW n \in 1..Len(request.file_paths)
  PROVE  \/ FileEntry(n) = <<>>
         \/ \E e \in EntryType : e.kind = "file" /\ FileEntry(n) = <<e>>
<1>1. CASE FileLength(n) = Missing
  BY <1>1 DEF FileEntry
<1>2. CASE FileLength(n) # Missing
  <2>1. FileLength(n) \in Nat
    <3>1. request.file_paths[n] \in Paths
      BY GivenIs
    <3> QED
      BY <1>2, <3>1, GivenIs DEF FileLength
  <2>2. Snippet(FileLength(n)) \in Nat
    BY <2>1, ContextAssumption DEF ContextAssumption, Snippet
  <2> DEFINE length == Snippet(FileLength(n))
             e == Entry("file", n, length)
  <2>3. e \in EntryType /\ e.kind = "file"
    <3>1. "file" \in EntryKind /\ n \in Nat /\ length \in Nat
      BY <2>2, GivenIs DEF EntryKind
    <3> HIDE DEF length
    <3> QED
      BY <3>1, EntryTyped
  <2>4. FileEntry(n) = <<e>>
    BY <1>2 DEF FileEntry
  <2> QED
    BY <2>3, <2>4
<1> QED
  BY <1>1, <1>2

LEMMA FileIsSeq ==
  ASSUME Given, NEW n \in 1..Len(request.file_paths)
  PROVE  FileEntry(n) \in Seq(EntryType) /\ Kinded(FileEntry(n), "file")
<1>1. CASE FileEntry(n) = <<>>
  BY <1>1 DEF Kinded
<1>2. CASE FileEntry(n) # <<>>
  <2>1. PICK e \in EntryType : e.kind = "file" /\ FileEntry(n) = <<e>>
    BY <1>2, FileTyped
  <2>2. <<e>> \in Seq(EntryType) /\ Kinded(<<e>>, "file")
    BY <2>1 DEF Kinded
  <2> QED
    BY <2>1, <2>2
<1> QED
  BY <1>1, <1>2

\* The files looked at, one more at a time.
LEMMA FilesGrow ==
  ASSUME Given
  PROVE  /\ FilesTo(0) = <<>> /\ FilesTo(Len(request.file_paths)) = Files
         /\ \A n \in 0..Len(request.file_paths) : FilesTo(n) \in Seq(EntryType)
         /\ \A n \in 0..(Len(request.file_paths) - 1) :
              FilesTo(n + 1) = FilesTo(n) \o FileEntry(n + 1)
<1> DEFINE len == Len(request.file_paths)
           pieces(n) == [i \in 1..n |-> FileEntry(i)]
           S == EntryType
<1>1. len \in Nat /\ \A i \in 1..len : FileEntry(i) \in Seq(S)
  BY GivenIs, FileIsSeq
<1>2. \A n \in 0..len : pieces(n) \in [1..n -> Seq(S)]
  BY <1>1
<1>3. FilesTo(0) = <<>>
  <2> DEFINE none == pieces(0)
  <2>1. none \in [1..0 -> S]
    OBVIOUS
  <2>2. FilesTo(0) = FlattenSeq(none)
    BY DEF FilesTo
  <2> HIDE DEF none
  <2> QED
    BY <2>1, <2>2, FlattenNone
<1>4. FilesTo(len) = Files
  BY DEF FilesTo, Files
<1>5. ASSUME NEW n \in 0..len
      PROVE  FilesTo(n) \in Seq(S)
  <2> DEFINE some == pieces(n)
  <2>1. some \in [1..n -> Seq(S)] /\ n \in Nat
    BY <1>1, <1>2
  <2>2. FilesTo(n) = FlattenSeq(some)
    BY DEF FilesTo
  <2> HIDE DEF some, S
  <2>3. FlattenSeq(some) \in Seq(S)
    BY <2>1, FlattenType
  <2> QED
    BY <2>2, <2>3
<1>6. ASSUME NEW n \in 0..(len - 1)
      PROVE  FilesTo(n + 1) = FilesTo(n) \o FileEntry(n + 1)
  <2> DEFINE some == pieces(n + 1)
  <2>0. n + 1 \in 0..len /\ n + 1 \in 1..(n + 1)
    BY <1>1
  <2>1. some \in [1..(n + 1) -> Seq(S)] /\ n \in Nat /\ some[n + 1] = FileEntry(n + 1)
    BY <1>2, <2>0
  <2>2. FilesTo(n + 1) = FlattenSeq(some)
    BY DEF FilesTo
  <2>3. FirstOf(n, some) = pieces(n)
    BY DEF FirstOf
  <2>4. FilesTo(n) = FlattenSeq(FirstOf(n, some))
    BY <2>3 DEF FilesTo
  <2> HIDE DEF some, S
  <2>5. FlattenSeq(some) = FlattenSeq(FirstOf(n, some)) \o some[n + 1]
    BY <2>1, FlattenStep
  <2> QED
    BY <2>1, <2>2, <2>4, <2>5
<1> QED
  BY <1>1, <1>3, <1>4, <1>5, <1>6

LEMMA KindedConcat ==
  ASSUME NEW a \in Seq(EntryType), NEW b \in Seq(EntryType), NEW kind, Kinded(a, kind),
           Kinded(b, kind)
  PROVE  a \o b \in Seq(EntryType) /\ Kinded(a \o b, kind)
<1>1. /\ a \o b \in Seq(EntryType) /\ Len(a \o b) = Len(a) + Len(b)
      /\ \A i \in 1..(Len(a) + Len(b)) : (a \o b)[i] = IF i <= Len(a) THEN a[i] ELSE b[i - Len(a)]
  BY ConcatProperties
<1>2. ASSUME NEW i \in 1..(Len(a) + Len(b))
      PROVE  (a \o b)[i].kind = kind
  <2>1. CASE i <= Len(a)
    <3>1. i \in 1..Len(a)
      BY <2>1
    <3> QED
      BY <1>1, <2>1, <3>1 DEF Kinded
  <2>2. CASE i > Len(a)
    <3>1. i - Len(a) \in 1..Len(b) /\ ~(i <= Len(a))
      BY <2>2
    <3>2. (a \o b)[i] = b[i - Len(a)]
      BY <1>1, <3>1
    <3> QED
      BY <3>1, <3>2 DEF Kinded
  <2> QED
    BY <2>1, <2>2
<1> QED
  BY <1>1, <1>2 DEF Kinded

\* From any of them on there are only files.
LEMMA FilesRest ==
  ASSUME Given, NEW n \in 0..Len(request.file_paths)
  PROVE  \E rest \in Seq(EntryType) : Kinded(rest, "file") /\ Files = FilesTo(n) \o rest
<1> DEFINE len == Len(request.file_paths)
           more(k) == \E rest \in Seq(EntryType) : Kinded(rest, "file")
             /\ FilesTo(n + k) = FilesTo(n) \o rest
           so == {k \in 0..(len - n) : more(k)}
<1>1. len \in Nat /\ n \in 0..len /\ len - n \in Nat /\ n + (len - n) = len /\ n + 0 = n
  BY GivenIs
<1>2. 0 \in so
  <2> DEFINE none == <<>>
  <2>1. none \in Seq(EntryType) /\ Kinded(none, "file") /\ FilesTo(n) \o none = FilesTo(n)
    BY FilesGrow, EmptySeq, ConcatEmptySeq DEF Kinded
  <2> HIDE DEF none
  <2>2. FilesTo(n + 0) = FilesTo(n)
    BY <1>1
  <2>3. more(0)
    BY <2>1, <2>2
  <2> QED
    BY <1>1, <2>3
<1>3. ASSUME NEW k \in 0..((len - n) - 1), k \in so
      PROVE  k + 1 \in so
  <2>1. PICK rest \in Seq(EntryType) : Kinded(rest, "file") /\ FilesTo(n + k) = FilesTo(n) \o rest
    BY <1>3
  <2> DEFINE m == n + k
             entry == FileEntry(m + 1)
             begun == FilesTo(n)
  <2>2. m \in 0..(len - 1) /\ m + 1 \in 1..len /\ n + (k + 1) = m + 1 /\ k + 1 \in 0..(len - n)
    BY <1>1
  <2>3. FilesTo(m + 1) = FilesTo(m) \o entry /\ begun \in Seq(EntryType)
    BY <1>1, <2>2, FilesGrow
  <2>4. entry \in Seq(EntryType) /\ Kinded(entry, "file")
    BY <2>2, FileIsSeq
  <2>5. FilesTo(m) = begun \o rest
    BY <2>1
  <2> HIDE DEF m, entry, begun
  <2>6. begun \o (rest \o entry) = (begun \o rest) \o entry
    <3>1. begun \in Seq(EntryType) /\ rest \in Seq(EntryType) /\ entry \in Seq(EntryType)
      BY <2>3, <2>4
    <3> QED
      BY <3>1, EntriesRegrouped
  <2>7. rest \o entry \in Seq(EntryType) /\ Kinded(rest \o entry, "file")
    BY <2>1, <2>4, KindedConcat
  <2>8. FilesTo(n + (k + 1)) = begun \o (rest \o entry)
    BY <2>2, <2>3, <2>5, <2>6
  <2>9. more(k + 1)
    BY <2>7, <2>8 DEF begun
  <2> QED
    BY <2>2, <2>9
<1>4. len - n \in so
  <2> HIDE DEF so
  <2>1. \A k \in 0..(len - n) : k \in so
    BY <1>1, <1>2, <1>3, UpTo
  <2> QED
    BY <1>1, <2>1
<1> QED
  BY <1>1, <1>4, FilesGrow

LEMMA KindsOfConcat ==
  ASSUME NEW a \in Seq(EntryType), NEW b \in Seq(EntryType)
  PROVE  a \o b \in Seq(EntryType) /\ KindsOf(a \o b) \subseteq KindsOf(a) \cup KindsOf(b)
<1>1. /\ a \o b \in Seq(EntryType) /\ Len(a \o b) = Len(a) + Len(b)
      /\ \A i \in 1..(Len(a) + Len(b)) : (a \o b)[i] = IF i <= Len(a) THEN a[i] ELSE b[i - Len(a)]
  BY ConcatProperties
<1>2. ASSUME NEW i \in 1..(Len(a) + Len(b))
      PROVE  (a \o b)[i].kind \in KindsOf(a) \cup KindsOf(b)
  <2>1. CASE i <= Len(a)
    <3>1. i \in 1..Len(a) /\ (a \o b)[i] = a[i]
      BY <1>1, <2>1
    <3> QED
      BY <3>1 DEF KindsOf
  <2>2. CASE i > Len(a)
    <3>1. i - Len(a) \in 1..Len(b) /\ ~(i <= Len(a))
      BY <2>2
    <3>2. (a \o b)[i] = b[i - Len(a)]
      BY <1>1, <3>1
    <3> QED
      BY <3>1, <3>2 DEF KindsOf
  <2> QED
    BY <2>1, <2>2
<1>3. KindsOf(a \o b) = {(a \o b)[i].kind : i \in 1..(Len(a) + Len(b))}
  BY <1>1 DEF KindsOf
<1> QED
  BY <1>1, <1>2, <1>3

LEMMA KindedIs ==
  ASSUME NEW a, NEW kind, Kinded(a, kind)
  PROVE  KindsOf(a) \subseteq {kind}
BY DEF Kinded, KindsOf

\* The rest of a section after some of its entries.
Rested(first, more, kind, n) ==
  \E rest \in Seq(EntryType) : Kinded(rest, kind) /\ first \o more = Upto(first, more, n) \o rest

LEMMA RestOf ==
  ASSUME NEW first \in Seq(EntryType), NEW more \in Seq(EntryType), NEW kind, Kinded(more, kind),
         NEW n \in 0..Len(more)
  PROVE  Rested(first, more, kind, n)
<1> DEFINE len == Len(more)
           goes(k) == \E rest \in Seq(EntryType) :
                        Kinded(rest, kind)
                          /\ Upto(first, more, n + k) = Upto(first, more, n) \o rest
           so == {k \in 0..(len - n) : goes(k)}
<1>1. len \in Nat /\ n \in 0..len /\ len - n \in Nat /\ n + (len - n) = len /\ n + 0 = n
  OBVIOUS
<1>2. 0 \in so
  <2> DEFINE none == <<>>
  <2>1. none \in Seq(EntryType) /\ Kinded(none, kind)
    BY EmptySeq DEF Kinded
  <2>2. Upto(first, more, n) \o none = Upto(first, more, n)
    BY OneFurther, ConcatEmptySeq
  <2> HIDE DEF none
  <2>3. Upto(first, more, n + 0) = Upto(first, more, n)
    BY <1>1
  <2>4. goes(0)
    BY <2>1, <2>2, <2>3
  <2> QED
    BY <1>1, <2>4
<1>3. ASSUME NEW k \in 0..((len - n) - 1), k \in so
      PROVE  k + 1 \in so
  <2>1. PICK rest \in Seq(EntryType) :
          Kinded(rest, kind) /\ Upto(first, more, n + k) = Upto(first, more, n) \o rest
    BY <1>3
  <2> DEFINE m == n + k
             one == <<more[m + 1]>>
             begun == Upto(first, more, n)
  <2>2. m \in 0..(Len(more) - 1) /\ m + 1 \in 1..len /\ n + (k + 1) = m + 1
          /\ k + 1 \in 0..(len - n)
    BY <1>1
  <2>3. Upto(first, more, m) = begun \o rest
    BY <2>1
  <2> HIDE DEF m
  <2>4. Upto(first, more, m + 1) = Upto(first, more, m) \o one /\ more[m + 1] \in EntryType
    BY <2>2, NextOne
  <2>5. begun \in Seq(EntryType)
    BY <1>1, OneFurther
  <2>6. one \in Seq(EntryType) /\ Kinded(one, kind)
    <3>1. more[m + 1].kind = kind
      BY <2>2 DEF Kinded
    <3> QED
      BY <2>4, <3>1 DEF Kinded
  <2> HIDE DEF one, begun
  <2>7. begun \o (rest \o one) = (begun \o rest) \o one
    <3>1. begun \in Seq(EntryType) /\ rest \in Seq(EntryType) /\ one \in Seq(EntryType)
      BY <2>5, <2>6
    <3> QED
      BY <3>1, EntriesRegrouped
  <2>8. rest \o one \in Seq(EntryType) /\ Kinded(rest \o one, kind)
    BY <2>1, <2>6, KindedConcat
  <2>9. goes(k + 1)
    <3>1. Upto(first, more, n + (k + 1)) = begun \o (rest \o one)
      BY <2>2, <2>3, <2>4, <2>7
    <3> QED
      BY <2>8, <3>1 DEF begun
  <2> QED
    BY <2>2, <2>9
<1>4. len - n \in so
  <2> HIDE DEF so
  <2>1. \A k \in 0..(len - n) : k \in so
    BY <1>1, <1>2, <1>3, UpTo
  <2> QED
    BY <1>1, <2>1
<1>5. Upto(first, more, len) = first \o more
  BY OneFurther
<1> QED
  BY <1>1, <1>4, <1>5 DEF Rested

Heard == conversation \in Seq(Nat)

LEMMA Shapes ==
  ASSUME Given, Heard
  PROVE  /\ Goal \in EntryType /\ Goal.kind = "goal"
         /\ Opening \in Seq(EntryType) /\ KindsOf(Opening) \subseteq {"goal"}
         /\ Rules \in Seq(EntryType) /\ Kinded(Rules, "rule") /\ Len(Rules) = Len(workspace.rules)
         /\ WithRules \in Seq(EntryType) /\ KindsOf(WithRules) \subseteq {"goal", "rule"}
         /\ WithProject \in Seq(EntryType)
         /\ KindsOf(WithProject) \subseteq {"goal", "rule"} \cup Range(ProjectKinds)
         /\ Fixed \in Seq(EntryType)
         /\ KindsOf(Fixed) \subseteq {"goal", "rule", "file"} \cup Range(ProjectKinds)
         /\ Messages \in Seq(EntryType) /\ Kinded(Messages, "message")
              /\ Len(Messages) = Len(conversation)
         /\ Offered \in Seq(EntryType) /\ Offered = Fixed \o Messages
<1>1. Goal \in EntryType /\ Goal.kind = "goal"
  BY GivenIs, EntryTyped DEF Goal, EntryKind
<1>2. Opening \in Seq(EntryType) /\ KindsOf(Opening) \subseteq {"goal"}
  <2>1. Opening \in Seq(EntryType) /\ Kinded(Opening, "goal")
    BY <1>1 DEF Opening, Kinded
  <2> QED
    BY <2>1, KindedIs
<1>3. Rules \in Seq(EntryType) /\ Kinded(Rules, "rule") /\ Len(Rules) = Len(workspace.rules)
  BY GivenIs, EntriesTyped DEF Rules, EntryKind
<1>4. WithRules \in Seq(EntryType) /\ KindsOf(WithRules) \subseteq {"goal", "rule"}
  <2>1. KindsOf(Rules) \subseteq {"rule"}
    BY <1>3, KindedIs
  <2>2. Opening \o Rules \in Seq(EntryType)
          /\ KindsOf(Opening \o Rules) \subseteq KindsOf(Opening) \cup KindsOf(Rules)
    BY <1>2, <1>3, KindsOfConcat
  <2> QED
    BY <1>2, <2>1, <2>2 DEF WithRules
<1>5. /\ WithProject \in Seq(EntryType)
      /\ KindsOf(WithProject) \subseteq {"goal", "rule"} \cup Range(ProjectKinds)
  <2> DEFINE info == Detected(workspace.markers)
  <2>1. info \in Seq(EntryType) /\ KindsOf(info) \subseteq Range(ProjectKinds)
    <3>1. CASE info = <<>>
      BY <3>1 DEF KindsOf
    <3>2. CASE info # <<>>
      <4>1. PICK e \in EntryType : e.kind \in Range(ProjectKinds) /\ info = <<e>>
        BY <3>2, DetectedTyped
      <4>2. <<e>> \in Seq(EntryType) /\ KindsOf(<<e>>) \subseteq Range(ProjectKinds)
        BY <4>1 DEF KindsOf
      <4> QED
        BY <4>1, <4>2
    <3> QED
      BY <3>1, <3>2
  <2> HIDE DEF info
  <2>2. /\ WithRules \o info \in Seq(EntryType)
        /\ KindsOf(WithRules \o info) \subseteq KindsOf(WithRules) \cup KindsOf(info)
    BY <1>4, <2>1, KindsOfConcat
  <2> QED
    BY <1>4, <2>1, <2>2 DEF WithProject, info
<1>6. Files \in Seq(EntryType) /\ KindsOf(Files) \subseteq {"file"}
  <2>1. 0 \in 0..Len(request.file_paths)
    BY GivenIs
  <2>2. PICK rest \in Seq(EntryType) : Kinded(rest, "file") /\ Files = FilesTo(0) \o rest
    BY <2>1, FilesRest
  <2>3. FilesTo(0) \o rest = rest
    BY FilesGrow, ConcatEmptySeq
  <2> QED
    BY <2>2, <2>3, KindedIs
<1>7. /\ Fixed \in Seq(EntryType)
      /\ KindsOf(Fixed) \subseteq {"goal", "rule", "file"} \cup Range(ProjectKinds)
  <2>1. /\ WithProject \o Files \in Seq(EntryType)
        /\ KindsOf(WithProject \o Files) \subseteq KindsOf(WithProject) \cup KindsOf(Files)
    BY <1>5, <1>6, KindsOfConcat
  <2> QED
    BY <1>5, <1>6, <2>1 DEF Fixed
<1>8. Messages \in Seq(EntryType) /\ Kinded(Messages, "message")
        /\ Len(Messages) = Len(conversation)
  BY EntriesTyped DEF Messages, EntryKind, Heard
<1>9. Offered = Fixed \o Messages
  BY DEF Offered, Fixed, WithProject, WithRules, Opening
<1>10. Offered \in Seq(EntryType)
  BY <1>7, <1>8, <1>9, KindsOfConcat
<1> QED
  BY <1>1, <1>2, <1>3, <1>4, <1>5, <1>7, <1>8, <1>9, <1>10

\* A prompt that holds of what was seen just what there was room for.
Fits(prompt, rest, cut, past, budget) ==
  /\ prompt = Result(past, budget).items /\ rest = Result(past, budget).left
  /\ cut <=> Len(prompt) < Len(past)

LEMMA FitsNothing ==
  ASSUME NEW budget \in Nat
  PROVE  Fits(<<>>, budget, FALSE, <<>>, budget)
<1> DEFINE none == <<>>
           o == Result(none, budget)
<1>1. o = Start(budget)
  BY NothingOffered
<1>2. Start(budget).items = none /\ Start(budget).left = budget
  BY DEF Start
<1>3. ~(Len(none) < Len(none))
  OBVIOUS
<1> HIDE DEF none, o
<1>4. none = o.items /\ budget = o.left
  BY <1>1, <1>2
<1>5. Fits(none, budget, FALSE, none, budget)
  BY <1>3, <1>4 DEF Fits, o
<1> QED
  BY <1>5 DEF none

LEMMA FitsWithin ==
  ASSUME NEW past \in Seq(EntryType), NEW budget \in Nat, NEW prompt, NEW rest, NEW cut,
         Fits(prompt, rest, cut, past, budget)
  PROVE  prompt \in Seq(EntryType) /\ rest \in Nat /\ Len(prompt) <= Len(past)
<1>1. /\ Result(past, budget) \in Outcome
      /\ Faithful(Result(past, budget).items, Result(past, budget).shut, past)
  BY ResultFaithful
<1>2. Result(past, budget).items \in Seq(EntryType) /\ Result(past, budget).left \in Nat
  BY <1>1 DEF Outcome
<1> QED
  BY <1>1, <1>2 DEF Fits, Faithful

LEMMA FitsOneMore ==
  ASSUME NEW past \in Seq(EntryType), NEW e \in EntryType, NEW budget \in Nat,
         NEW prompt, NEW rest, NEW cut \in BOOLEAN, Fits(prompt, rest, cut, past, budget),
         Result(past, budget).shut # e.kind, e.tokens <= rest
  PROVE  /\ Fits(Append(prompt, e), rest - e.tokens, cut, past \o <<e>>, budget)
         /\ Result(past \o <<e>>, budget).shut = Result(past, budget).shut
<1> DEFINE o == Result(past, budget)
<1>1. /\ o \in Outcome /\ Result(past \o <<e>>, budget) = Step(o, e)
      /\ Len(past \o <<e>>) = Len(past) + 1
  BY OneMoreOffered
<1>2. prompt = o.items /\ rest = o.left /\ (cut <=> Len(prompt) < Len(past)) /\ e.kind # o.shut
  BY DEF Fits
<1> HIDE DEF o
<1>3. rest \in Nat /\ e.tokens \in Nat /\ prompt \in Seq(EntryType) /\ Len(past) \in Nat
  BY <1>1, <1>2 DEF Outcome, EntryType
<1>4. Step(o, e) = [items |-> Append(o.items, e), left |-> o.left - e.tokens, shut |-> o.shut]
  BY <1>2, <1>3 DEF Step
<1>5. Len(Append(prompt, e)) = Len(prompt) + 1 /\ Len(prompt) \in Nat
  BY <1>3, AppendProperties
<1>6. cut <=> Len(Append(prompt, e)) < Len(past \o <<e>>)
  BY <1>1, <1>2, <1>3, <1>5
<1>7. /\ Append(prompt, e) = Step(o, e).items /\ rest - e.tokens = Step(o, e).left
      /\ Step(o, e).shut = o.shut
  BY <1>2, <1>4
<1> QED
  BY <1>1, <1>6, <1>7 DEF Fits, o

\* What follows of the kind that did not fit is not looked at.
LEMMA FitsNoMore ==
  ASSUME NEW past \in Seq(EntryType), NEW e \in EntryType, NEW budget \in Nat,
         NEW prompt, NEW rest, NEW cut \in BOOLEAN, Fits(prompt, rest, cut, past, budget),
         e.tokens > rest, NEW others \in Seq(EntryType), Kinded(others, e.kind)
  PROVE  Fits(prompt, rest, TRUE, (past \o <<e>>) \o others, budget)
<1> DEFINE o == Result(past, budget)
           more == past \o <<e>>
<1>1. /\ o \in Outcome /\ Result(more, budget) = Step(o, e)
      /\ more \in Seq(EntryType) /\ Len(more) = Len(past) + 1
  BY OneMoreOffered
<1>2. prompt = o.items /\ rest = o.left
  BY DEF Fits
<1>3. prompt \in Seq(EntryType) /\ rest \in Nat /\ Len(prompt) <= Len(past)
  BY FitsWithin
<1> HIDE DEF o, more
<1>4. Step(o, e) = [items |-> o.items, left |-> o.left, shut |-> e.kind]
  BY <1>2 DEF Step
<1>5. \A i \in 1..Len(others) : others[i].kind = Result(more, budget).shut
  BY <1>1, <1>4 DEF Kinded
<1>6. Result(more \o others, budget) = Result(more, budget)
  BY <1>1, <1>5, ShutIsSkipped
<1>7. Len(more \o others) = Len(more) + Len(others) /\ Len(others) \in Nat /\ Len(past) \in Nat
  <2>1. more \in Seq(EntryType)
    BY <1>1
  <2>2. Len(others) \in Nat /\ Len(past) \in Nat
    OBVIOUS
  <2> QED
    BY <2>1, <2>2, ConcatProperties
<1>8. Len(prompt) < Len(more \o others)
  <2>1. Len(prompt) \in Nat
    BY <1>3
  <2> QED
    BY <1>1, <1>3, <1>7, <2>1
<1>9. prompt = Result(more \o others, budget).items /\ rest = Result(more \o others, budget).left
  BY <1>1, <1>2, <1>4, <1>6
<1> QED
  BY <1>8, <1>9 DEF Fits, more

\* What is left of a section after n of its entries.
Remains(rest, whole, n) ==
  /\ n \in 0..Len(whole) /\ Len(rest) = Len(whole) - n
  /\ \A i \in 1..Len(rest) : rest[i] = whole[n + i]

LEMMA RemainsWhole ==
  ASSUME NEW S, NEW whole \in Seq(S)
  PROVE  Remains(whole, whole, 0)
<1>1. Len(whole) \in Nat /\ \A i \in 1..Len(whole) : 0 + i = i
  OBVIOUS
<1> QED
  BY <1>1 DEF Remains

LEMMA RemainsNext ==
  ASSUME NEW S, NEW T, NEW rest \in Seq(S), NEW whole \in Seq(T), NEW n, Remains(rest, whole, n),
           rest # <<>>
  PROVE  /\ n \in 0..(Len(whole) - 1) /\ n + 1 \in 0..Len(whole) /\ Head(rest) = whole[n + 1]
         /\ Tail(rest) \in Seq(S) /\ Remains(Tail(rest), whole, n + 1)
<1>1. /\ n \in 0..Len(whole) /\ Len(rest) = Len(whole) - n /\ Len(whole) \in Nat
           /\ Len(rest) \in Nat
      /\ \A i \in 1..Len(rest) : rest[i] = whole[n + i]
  BY DEF Remains
<1>2. Len(rest) # 0
  BY EmptySeq
<1>3. /\ Head(rest) = rest[1] /\ Tail(rest) \in Seq(S) /\ Len(Tail(rest)) = Len(rest) - 1
      /\ \A i \in 1..(Len(rest) - 1) : Tail(rest)[i] = rest[i + 1]
  BY HeadTailProperties
<1>4. n \in 0..(Len(whole) - 1) /\ n + 1 \in 0..Len(whole) /\ 1 \in 1..Len(rest)
  BY <1>1, <1>2
<1>5. ASSUME NEW i \in 1..(Len(rest) - 1)
      PROVE  Tail(rest)[i] = whole[(n + 1) + i]
  <2>1. i + 1 \in 1..Len(rest) /\ n + (i + 1) = (n + 1) + i
    BY <1>1
  <2>2. rest[i + 1] = whole[n + (i + 1)]
    BY <1>1, <2>1
  <2> QED
    BY <1>3, <2>1, <2>2
<1>6. Len(Tail(rest)) = Len(whole) - (n + 1)
  BY <1>1, <1>3
<1> QED
  BY <1>1, <1>3, <1>4, <1>5, <1>6 DEF Remains

LEMMA RemainsNothing ==
  ASSUME NEW T, NEW whole \in Seq(T), NEW n, Remains(<<>>, whole, n)
  PROVE  n = Len(whole)
<1>1. Len(<<>>) = 0 /\ Len(whole) \in Nat
  OBVIOUS
<1> QED
  BY <1>1 DEF Remains

-----------------------------------------------------------------------------
(* The invariant of a run of prompts.                                      *)

TypedInv ==
  /\ ContextTypeOK
  /\ items \in Seq(EntryType)
  /\ at \in {"rules", "conversation"} => todo \in Seq(EntryType)
  /\ at = "files" => todo \in Seq(1..Len(request.file_paths))
  /\ total_tokens + left = request.token_budget
  /\ total_tokens = TokensOf(items)
  /\ builds = 1 => conversation = <<>> /\ at # "observing"

Fitted(past) == Fits(items, left, truncated, past, Budget)
Refitted(past) == Fits(items', left', truncated', past, Budget)
ShutAfter(past) == Result(past, Budget).shut

\* Some entries of a section have been looked at, and all of them fitted.
Partly(first, whole, kind) ==
  \E n \in 0..Len(whole) :
    /\ Fitted(Upto(first, whole, n)) /\ Remains(todo, whole, n)
    /\ ShutAfter(Upto(first, whole, n)) # kind
PartlyNext(first, whole, kind) ==
  \E n \in 0..Len(whole) :
    /\ Refitted(Upto(first, whole, n)) /\ Remains(todo', whole, n)
    /\ ShutAfter(Upto(first, whole, n)) # kind

PartlyFiles ==
  \E n \in 0..Len(request.file_paths) :
    /\ Fitted(WithProject \o FilesTo(n)) /\ Remains(todo, Numbers, n)
    /\ ShutAfter(WithProject \o FilesTo(n)) # "file"
PartlyFilesNext ==
  \E n \in 0..Len(request.file_paths) :
    /\ Refitted(WithProject \o FilesTo(n)) /\ Remains(todo', Numbers, n)
    /\ ShutAfter(WithProject \o FilesTo(n)) # "file"

PlaceInv ==
  steady =>
    /\ at = "goal" => Fitted(<<>>)
    /\ at = "load" => Fitted(Opening)
    /\ at = "rules" => Partly(Opening, Rules, "rule")
    /\ at = "project" => Fitted(WithRules)
    /\ at = "files" => PartlyFiles
    /\ at = "conversation" => Partly(Fixed, Messages, "message")
    /\ at = "built" => Fitted(Offered)

\* The prompt before was of the same files and of no more messages.
Before(prompt, cut, past) ==
  prompt = Result(past, Budget).items /\ (cut => ShutAfter(past) = "message")
BeforeInv ==
  steady =>
    \/ previous.items = <<>> /\ ~previous.cut
    \/ \E q \in 0..Len(conversation) :
         Before(previous.items, previous.cut, Upto(Fixed, Messages, q))

ContextInv == TypedInv /\ PlaceInv /\ BeforeInv

LEMMA GivenAndHeard ==
  ASSUME TypedInv
  PROVE  Given /\ Heard /\ Budget \in Nat
<1>1. request \in Request /\ workspace \in Workspace
  BY ContextAssumption DEF TypedInv, ContextTypeOK, ContextAssumption
<1>2. conversation \in Seq(Nat)
  <2> DEFINE lengths == Observations \cup {BuiltLength}
  <2>1. lengths \subseteq Nat
    BY ContextAssumption DEF ContextAssumption, BuiltLength
  <2>2. conversation \in Seq(lengths)
    BY DEF TypedInv, ContextTypeOK
  <2> HIDE DEF lengths
  <2> DEFINE n == Len(conversation)
  <2>3. n \in Nat /\ conversation \in [1..n -> lengths]
    BY <2>2
  <2>4. conversation \in [1..n -> Nat]
    BY <2>1, <2>3
  <2> HIDE DEF n
  <2> QED
    BY <2>3, <2>4, ListIsSeq
<1> QED
  BY <1>1, <1>2, GivenIs DEF Given, Heard

\* The same run and the same workspace offer the same.
SameRun == request' = request /\ workspace' = workspace

LEMMA SameOffered ==
  ASSUME SameRun
  PROVE  /\ Opening' = Opening /\ Rules' = Rules /\ WithRules' = WithRules
         /\ WithProject' = WithProject /\ Files' = Files /\ Fixed' = Fixed
         /\ Numbers' = Numbers /\ Budget' = Budget
         /\ \A n : FilesTo(n)' = FilesTo(n)
         /\ conversation' = conversation => Messages' = Messages /\ Offered' = Offered
BY DEF SameRun, Opening, Rules, WithRules, WithProject, Files, Fixed, Numbers, Budget, FilesTo,
       Messages, Offered, Goal, FileEntry, FileLength

\* An entry that fits is in the prompt; when one does not, nothing of its kind
\* that follows is.
LEMMA AddingFits ==
  ASSUME Given, truncated \in BOOLEAN, left \in Nat,
         NEW past \in Seq(EntryType), NEW e \in EntryType, Fitted(past), ShutAfter(past) # e.kind,
         AddItem(e)
  PROVE  /\ Added(e) => Refitted(past \o <<e>>) /\ ShutAfter(past \o <<e>>) = ShutAfter(past)
         /\ ~Added(e) => \A others \in Seq(EntryType) :
                           Kinded(others, e.kind) => Refitted((past \o <<e>>) \o others)
<1>1. e.tokens \in Nat /\ Budget \in Nat
  BY GivenIs DEF EntryType
<1>2. CASE Added(e)
  <2>1. /\ items' = Append(items, e) /\ left' = left - e.tokens /\ truncated' = truncated
        /\ e.tokens <= left
    BY <1>1, <1>2 DEF AddItem, Added
  <2>2. /\ Fits(Append(items, e), left - e.tokens, truncated, past \o <<e>>, Budget)
        /\ Result(past \o <<e>>, Budget).shut = Result(past, Budget).shut
    BY <1>1, <2>1, FitsOneMore DEF Fitted, ShutAfter
  <2> QED
    BY <1>2, <2>1, <2>2 DEF Refitted, ShutAfter
<1>3. CASE ~Added(e)
  <2>1. items' = items /\ left' = left /\ truncated' = TRUE /\ e.tokens > left
    BY <1>1, <1>3 DEF AddItem, Added
  <2>2. \A others \in Seq(EntryType) :
          Kinded(others, e.kind) => Fits(items, left, TRUE, (past \o <<e>>) \o others, Budget)
    BY <1>1, <2>1, FitsNoMore DEF Fitted
  <2> QED
    BY <1>3, <2>1, <2>2 DEF Refitted
<1> QED
  BY <1>2, <1>3

\* The next entry of the rules or the messages.
LEMMA AddingNext ==
  ASSUME Given, truncated \in BOOLEAN, left \in Nat,
         NEW first \in Seq(EntryType), NEW whole \in Seq(EntryType), NEW kind, Kinded(whole, kind),
         Partly(first, whole, kind), todo \in Seq(EntryType), todo # <<>>, AddItem(Head(todo))
  PROVE  /\ Added(Head(todo)) /\ todo' = Tail(todo) => PartlyNext(first, whole, kind)
         /\ ~Added(Head(todo)) => Refitted(first \o whole)
<1>1. PICK n \in 0..Len(whole) :
        /\ Fitted(Upto(first, whole, n)) /\ Remains(todo, whole, n)
        /\ ShutAfter(Upto(first, whole, n)) # kind
  BY DEF Partly
<1> DEFINE past == Upto(first, whole, n)
           e == whole[n + 1]
<1>2. /\ n \in 0..(Len(whole) - 1) /\ n + 1 \in 0..Len(whole) /\ Head(todo) = e
      /\ Remains(Tail(todo), whole, n + 1)
  BY <1>1, RemainsNext
<1>3. /\ e \in EntryType /\ Upto(first, whole, n + 1) = past \o <<e>>
  BY <1>2, NextOne
<1>4. e.kind = kind /\ past \in Seq(EntryType)
  <2>1. n + 1 \in 1..Len(whole)
    BY <1>2
  <2> QED
    BY <1>1, <2>1, OneFurther DEF Kinded
<1>5. Fitted(past) /\ ShutAfter(past) # kind /\ AddItem(e)
  BY <1>1, <1>2
<1> HIDE DEF past, e
<1>6. /\ Added(e) => Refitted(past \o <<e>>) /\ ShutAfter(past \o <<e>>) = ShutAfter(past)
      /\ ~Added(e) => \A others \in Seq(EntryType) :
                        Kinded(others, e.kind) => Refitted((past \o <<e>>) \o others)
  BY <1>3, <1>4, <1>5, AddingFits
<1>7. ASSUME Added(e), todo' = Tail(todo)
      PROVE  PartlyNext(first, whole, kind)
  <2>1. Refitted(Upto(first, whole, n + 1)) /\ ShutAfter(Upto(first, whole, n + 1)) # kind
    BY <1>3, <1>5, <1>6, <1>7
  <2>2. Remains(todo', whole, n + 1)
    BY <1>2, <1>7
  <2> QED
    BY <1>2, <2>1, <2>2 DEF PartlyNext
<1>8. ASSUME ~Added(e)
      PROVE  Refitted(first \o whole)
  <2> DEFINE m == n + 1
  <2>1. m \in 0..Len(whole) /\ Upto(first, whole, m) = past \o <<e>>
    BY <1>2, <1>3
  <2> HIDE DEF m
  <2>2. PICK others \in Seq(EntryType) :
          Kinded(others, kind) /\ first \o whole = Upto(first, whole, m) \o others
    <3>1. Rested(first, whole, kind, m)
      BY <2>1, RestOf
    <3> QED
      BY <3>1 DEF Rested
  <2> QED
    BY <1>4, <1>6, <1>8, <2>1, <2>2
<1> QED
  BY <1>2, <1>7, <1>8

\* The next path.
LEMMA AddingFile ==
  ASSUME Given, Heard, truncated \in BOOLEAN, left \in Nat, PartlyFiles,
         todo \in Seq(1..Len(request.file_paths)), todo # <<>>
  PROVE  /\ /\ FileEntry(Head(todo)) = <<>> /\ UNCHANGED building
            /\ todo' = Tail(todo)
            => PartlyFilesNext
         /\ /\ FileEntry(Head(todo)) # <<>> /\ AddItem(FileEntry(Head(todo))[1])
            /\ Added(FileEntry(Head(todo))[1]) /\ todo' = Tail(todo)
            => PartlyFilesNext
         /\ /\ FileEntry(Head(todo)) # <<>> /\ AddItem(FileEntry(Head(todo))[1])
            /\ ~Added(FileEntry(Head(todo))[1])
            => Refitted(Fixed)
<1> DEFINE len == Len(request.file_paths)
<1>1. PICK n \in 0..len :
        /\ Fitted(WithProject \o FilesTo(n)) /\ Remains(todo, Numbers, n)
        /\ ShutAfter(WithProject \o FilesTo(n)) # "file"
  BY DEF PartlyFiles
<1>2. len \in Nat /\ Numbers \in Seq(Nat) /\ Len(Numbers) = len /\ \A i \in 1..len : Numbers[i] = i
  <2>1. len \in Nat /\ Numbers = [i \in 1..len |-> i]
    BY GivenIs DEF Numbers
  <2>2. Numbers \in [1..len -> Nat]
    BY <2>1
  <2> HIDE DEF len
  <2>3. Numbers \in Seq(Nat) /\ Len(Numbers) = len
    BY <2>1, <2>2, ListIsSeq
  <2> QED
    BY <2>1, <2>3
<1> DEFINE entry == FileEntry(n + 1)
           past == WithProject \o FilesTo(n)
<1>3. /\ n \in 0..(len - 1) /\ n + 1 \in 0..len /\ n + 1 \in 1..len
      /\ Head(todo) = n + 1 /\ Remains(Tail(todo), Numbers, n + 1)
  <2>1. /\ n \in 0..(Len(Numbers) - 1) /\ n + 1 \in 0..Len(Numbers) /\ Head(todo) = Numbers[n + 1]
        /\ Remains(Tail(todo), Numbers, n + 1)
    BY <1>1, <1>2, RemainsNext
  <2>2. n + 1 \in 1..len
    BY <1>2, <2>1
  <2> QED
    BY <1>2, <2>1, <2>2
<1>4. past \in Seq(EntryType) /\ entry \in Seq(EntryType) /\ FilesTo(n) \in Seq(EntryType)
  BY <1>3, Shapes, FilesGrow, FileIsSeq, ConcatProperties
<1>5. WithProject \o FilesTo(n + 1) = past \o entry
  <2>1. FilesTo(n + 1) = FilesTo(n) \o entry
    BY <1>3, FilesGrow
  <2>2. WithProject \in Seq(EntryType)
    BY Shapes
  <2> HIDE DEF entry
  <2>3. WithProject \o (FilesTo(n) \o entry) = (WithProject \o FilesTo(n)) \o entry
    BY <1>4, <2>2, EntriesRegrouped
  <2> QED
    BY <2>1, <2>3
<1>6. Fitted(past) /\ ShutAfter(past) # "file"
  BY <1>1
<1> HIDE DEF past, entry
<1>7. ASSUME entry = <<>>, UNCHANGED building, todo' = Tail(todo)
      PROVE  PartlyFilesNext
  <2>1. past \o entry = past
    BY <1>4, <1>7, ConcatEmptySeq
  <2>2. Refitted(past)
    BY <1>6, <1>7 DEF Fitted, Refitted, building
  <2> QED
    BY <1>3, <1>5, <1>6, <1>7, <2>1, <2>2 DEF PartlyFilesNext, len
<1>8. ASSUME entry # <<>>, AddItem(entry[1])
      PROVE  /\ Added(entry[1]) /\ todo' = Tail(todo) => PartlyFilesNext
             /\ ~Added(entry[1]) => Refitted(Fixed)
  <2>1. PICK e \in EntryType : e.kind = "file" /\ entry = <<e>>
    BY <1>3, <1>8, FileTyped DEF entry, len
  <2>2. entry[1] = e
    BY <2>1
  <2>3. /\ Added(e) => Refitted(past \o <<e>>) /\ ShutAfter(past \o <<e>>) = ShutAfter(past)
        /\ ~Added(e) => \A others \in Seq(EntryType) :
                          Kinded(others, e.kind) => Refitted((past \o <<e>>) \o others)
    BY <1>4, <1>6, <1>8, <2>1, <2>2, AddingFits
  <2>4. ASSUME Added(e), todo' = Tail(todo)
        PROVE  PartlyFilesNext
    <3>1. /\ Refitted(WithProject \o FilesTo(n + 1))
          /\ ShutAfter(WithProject \o FilesTo(n + 1)) # "file"
      BY <1>5, <1>6, <2>1, <2>3, <2>4
    <3> QED
      BY <1>3, <2>4, <3>1 DEF PartlyFilesNext, len
  <2>5. ASSUME ~Added(e)
        PROVE  Refitted(Fixed)
    <3>1. PICK others \in Seq(EntryType) : Kinded(others, "file")
                 /\ Files = FilesTo(n + 1) \o others
      BY <1>3, FilesRest DEF len
    <3>2. Fixed = (WithProject \o FilesTo(n + 1)) \o others
      <4>1. WithProject \in Seq(EntryType) /\ FilesTo(n + 1) \in Seq(EntryType)
        BY <1>3, Shapes, FilesGrow DEF len
      <4> QED
        BY <3>1, <4>1, EntriesRegrouped DEF Fixed
    <3> QED
      BY <1>5, <2>1, <2>3, <2>5, <3>1, <3>2
  <2> QED
    BY <2>2, <2>4, <2>5
<1> QED
  BY <1>3, <1>7, <1>8 DEF entry

\* What is counted of the prompt, and what is left to look at.
Counts ==
  /\ items \in Seq(EntryType) /\ left \in Nat /\ total_tokens \in Nat /\ truncated \in BOOLEAN
  /\ total_tokens + left = Budget /\ total_tokens = TokensOf(items)
Pending ==
  /\ at \in {"rules", "conversation"} => todo \in Seq(EntryType)
  /\ at = "files" => todo \in Seq(1..Len(request.file_paths))

LEMMA Counted ==
  ASSUME TypedInv
  PROVE  Counts /\ Pending
BY DEF TypedInv, ContextTypeOK, Counts, Pending, Budget

LEMMA AddingCounts ==
  ASSUME Counts, NEW e \in EntryType, AddItem(e), SameRun
  PROVE  Counts'
<1>1. Budget' = Budget
  BY SameOffered
<1>2. /\ items \in Seq(EntryType) /\ left \in Nat /\ total_tokens \in Nat /\ truncated \in BOOLEAN
      /\ total_tokens + left = Budget /\ total_tokens = TokensOf(items) /\ e.tokens \in Nat
  BY DEF Counts, EntryType
<1>3. CASE e.tokens > left
  BY <1>1, <1>2, <1>3 DEF AddItem, Counts
<1>4. CASE ~(e.tokens > left)
  <2>1. /\ left' = left - e.tokens /\ total_tokens' = total_tokens + e.tokens
        /\ items' = Append(items, e) /\ truncated' = truncated
    BY <1>4 DEF AddItem
  <2>2. items' \in Seq(EntryType) /\ TokensOf(items') = TokensOf(items) + e.tokens
    BY <1>2, <2>1, AppendProperties, TokensOfMore
  <2>3. left' \in Nat /\ total_tokens' \in Nat /\ total_tokens' + left' = Budget
    BY <1>2, <1>4, <2>1
  <2> QED
    BY <1>1, <1>2, <2>1, <2>2, <2>3 DEF Counts
<1> QED
  BY <1>3, <1>4

LEMMA EnteringPends ==
  ASSUME Given, Heard, SameRun, NEW section \in Sections, Enter(section)
  PROVE  at' \in Sections /\ at' = section /\ Pending'
<1>1. at' = section
  BY DEF Enter
<1>2. section = "rules" => todo' = Rules
  BY DEF Enter
<1>3. section = "conversation" => todo' = Messages
  BY DEF Enter
<1>4. section = "files" => todo' = [n \in DOMAIN request.file_paths |-> n]
  BY DEF Enter
<1>5. Rules \in Seq(EntryType) /\ Messages \in Seq(EntryType)
  BY Shapes
<1>6. [n \in DOMAIN request.file_paths |-> n] \in Seq(1..Len(request.file_paths))
  <2> DEFINE len == Len(request.file_paths)
             S == 1..len
             list == [n \in DOMAIN request.file_paths |-> n]
  <2>1. len \in Nat /\ list \in [1..len -> S]
    BY GivenIs
  <2> HIDE DEF list, S, len
  <2>2. list \in Seq(S)
    BY <2>1, ListIsSeq
  <2> QED
    BY <2>2 DEF list, S, len
<1>7. request' = request
  BY DEF SameRun
<1> QED
  BY <1>1, <1>2, <1>3, <1>4, <1>5, <1>6, <1>7 DEF Pending

LEMMA BuildTyped ==
  ASSUME TypedInv, UNCHANGED <<run, workspace, steady>>, Counts', Pending',
         at' \in Sections \cup {"threw"}
  PROVE  TypedInv'
<1>1. /\ request' = request /\ conversation' = conversation /\ builds' = builds /\ used' = used
      /\ previous' = previous /\ workspace' = workspace /\ steady' = steady
  BY DEF run
<1>2. at' # "observing"
  BY DEF Sections
<1>3. ContextTypeOK'
  BY <1>1 DEF TypedInv, ContextTypeOK, Counts
<1> QED
  BY <1>1, <1>2, <1>3 DEF TypedInv, Counts, Pending, Budget

LEMMA TypedStep ==
  ASSUME TypedInv, [ContextNext]_contextVars
  PROVE  TypedInv'
<1>0. Given /\ Heard /\ Counts /\ Pending
  BY GivenAndHeard, Counted
<1>1. CASE AddGoal
  <2>1. SameRun /\ UNCHANGED <<run, workspace, steady>> /\ AddItem(Goal) /\ Enter("load")
    BY <1>1 DEF AddGoal, SameRun, run
  <2>2. Counts'
    BY <1>0, <2>1, AddingCounts, Shapes
  <2>3. Pending' /\ at' \in Sections
    BY <1>0, <2>1, EnteringPends DEF Sections
  <2> QED
    BY <2>1, <2>2, <2>3, BuildTyped
<1>2. CASE LoadRules
  <2>1. SameRun /\ UNCHANGED <<run, workspace, steady>> /\ UNCHANGED building /\ Enter("rules")
    BY <1>2 DEF LoadRules, SameRun, run
  <2>2. Counts'
    BY <1>0, <2>1 DEF Counts, building, SameRun, Budget
  <2>3. Pending' /\ at' \in Sections
    BY <1>0, <2>1, EnteringPends DEF Sections
  <2> QED
    BY <2>1, <2>2, <2>3, BuildTyped
<1>3. ASSUME NEW section \in {"rules", "conversation"}, AddNext(section)
      PROVE  TypedInv'
  <2>1. /\ SameRun /\ UNCHANGED <<run, workspace, steady>> /\ AddItem(Head(todo))
        /\ at = section /\ todo # <<>>
    BY <1>3 DEF AddNext, SameRun, run
  <2>2. todo \in Seq(EntryType) /\ Head(todo) \in EntryType /\ Tail(todo) \in Seq(EntryType)
    <3>1. todo \in Seq(EntryType)
      BY <1>0, <2>1 DEF Pending
    <3> QED
      BY <2>1, <3>1, HeadTailProperties
  <2>3. Counts'
    BY <1>0, <2>1, <2>2, AddingCounts
  <2>4. CASE Added(Head(todo))
    <3>1. at' = at /\ todo' = Tail(todo)
      BY <1>3, <2>4 DEF AddNext
    <3>2. Pending' /\ at' \in Sections
      BY <2>1, <2>2, <3>1 DEF Pending, Sections
    <3> QED
      BY <2>1, <2>3, <3>2, BuildTyped
  <2>5. CASE ~Added(Head(todo))
    <3>1. Enter(After[section]) /\ After[section] \in Sections
      BY <1>3, <2>5 DEF AddNext, After, Sections
    <3>2. Pending' /\ at' \in Sections
      BY <1>0, <2>1, <3>1, EnteringPends
    <3> QED
      BY <2>1, <2>3, <3>2, BuildTyped
  <2> QED
    BY <2>4, <2>5
<1>4. CASE AddProject
  <2>1. SameRun /\ UNCHANGED <<run, workspace, steady>> /\ Enter("files")
    BY <1>4 DEF AddProject, SameRun, run
  <2>2. Counts'
    <3> DEFINE info == Detected(workspace.markers)
    <3>1. IF info = <<>> THEN UNCHANGED building ELSE AddItem(info[1])
      BY <1>4 DEF AddProject
    <3>2. CASE info = <<>>
      BY <1>0, <2>1, <3>1, <3>2 DEF Counts, building, SameRun, Budget
    <3>3. CASE info # <<>>
      <4>1. PICK e \in EntryType : info = <<e>>
        BY <3>3, DetectedTyped
      <4>2. info[1] = e
        BY <4>1
      <4> HIDE DEF info
      <4> QED
        BY <1>0, <2>1, <3>1, <3>3, <4>2, AddingCounts
    <3> QED
      BY <3>2, <3>3
  <2>3. Pending' /\ at' \in Sections
    BY <1>0, <2>1, EnteringPends DEF Sections
  <2> QED
    BY <2>1, <2>2, <2>3, BuildTyped
<1>5. CASE AddFile
  <2> DEFINE entry == FileEntry(Head(todo))
  <2>1. SameRun /\ UNCHANGED <<run, workspace, steady>> /\ at = "files" /\ todo # <<>>
    BY <1>5 DEF AddFile, SameRun, run
  <2>2. /\ Head(todo) \in 1..Len(request.file_paths)
        /\ Tail(todo) \in Seq(1..Len(request.file_paths))
    <3> DEFINE S == 1..Len(request.file_paths)
    <3>1. todo \in Seq(S)
      BY <1>0, <2>1 DEF Pending
    <3> HIDE DEF S
    <3>2. Head(todo) \in S /\ Tail(todo) \in Seq(S)
      BY <2>1, <3>1, HeadTailProperties
    <3> QED
      BY <3>2 DEF S
  <2>3. IF entry = <<>> THEN at' = at /\ todo' = Tail(todo) /\ UNCHANGED building
        ELSE /\ AddItem(entry[1])
             /\ IF Added(entry[1]) THEN at' = at /\ todo' = Tail(todo) ELSE Enter("conversation")
    BY <1>5 DEF AddFile
  <2>4. entry = <<>> \/ \E e \in EntryType : entry = <<e>>
    BY <1>0, <2>2, FileTyped
  <2> HIDE DEF entry
  <2>5. Counts'
    <3>1. CASE entry = <<>>
      BY <1>0, <2>1, <2>3, <3>1 DEF Counts, building, SameRun, Budget
    <3>2. CASE entry # <<>>
      <4>1. PICK e \in EntryType : entry = <<e>>
        BY <2>4, <3>2
      <4>2. entry[1] = e
        BY <4>1
      <4> QED
        BY <1>0, <2>1, <2>3, <3>2, <4>2, AddingCounts
    <3> QED
      BY <3>1, <3>2
  <2>6. Pending' /\ at' \in Sections
    <3>1. CASE at' = at /\ todo' = Tail(todo)
      BY <2>1, <2>2, <3>1 DEF Pending, Sections, SameRun
    <3>2. CASE Enter("conversation")
      BY <1>0, <2>1, <3>2, EnteringPends DEF Sections
    <3> QED
      BY <2>3, <3>1, <3>2
  <2> QED
    BY <2>1, <2>5, <2>6, BuildTyped
<1>6. CASE EndSection
  <2>1. /\ SameRun /\ UNCHANGED <<run, workspace, steady>> /\ UNCHANGED building
        /\ Enter(After[at]) /\ After[at] \in Sections
    BY <1>6 DEF EndSection, SameRun, run, After, Sections
  <2>2. Counts'
    BY <1>0, <2>1 DEF Counts, building, SameRun, Budget
  <2>3. Pending' /\ at' \in Sections
    BY <1>0, <2>1, EnteringPends
  <2> QED
    BY <2>1, <2>2, <2>3, BuildTyped
<1>7. CASE BuildThrows
  <2>1. SameRun /\ UNCHANGED <<run, workspace, steady>> /\ UNCHANGED building /\ at' = "threw"
    BY <1>7 DEF BuildThrows, SameRun, run
  <2>2. Counts'
    BY <1>0, <2>1 DEF Counts, building, SameRun, Budget
  <2>3. Pending'
    BY <2>1 DEF Pending
  <2> QED
    BY <2>1, <2>2, <2>3, BuildTyped
<1>8. ASSUME NextBuild, request' = request, workspace' = workspace, steady' = steady,
               Remember \/ previous' = previous,
             used' = used, conversation' \in Seq(Observations \cup {BuiltLength})
      PROVE  TypedInv'
  <2>1. /\ builds' = builds + 1 /\ at' = "goal" /\ todo' = <<>> /\ left' = request.token_budget
        /\ items' = <<>> /\ total_tokens' = 0 /\ truncated' = FALSE /\ builds < MaxBuilds
    BY <1>8 DEF NextBuild, BeginBuild
  <2>2. request.token_budget \in Nat /\ builds \in 1..MaxBuilds /\ MaxBuilds \in Nat
    BY <1>0, GivenIs, ContextAssumption DEF Budget, TypedInv, ContextTypeOK, ContextAssumption
  <2>3. builds' \in 1..MaxBuilds /\ builds' # 1
    BY <2>1, <2>2
  <2>4. previous'.cut \in BOOLEAN
    <3>1. CASE previous' = previous
      BY <3>1 DEF TypedInv, ContextTypeOK
    <3>2. CASE Remember
      BY <3>2 DEF Remember
    <3> QED
      BY <1>8, <3>1, <3>2
  <2>5. items' \in Seq(EntryType)
    BY <2>1, EmptySeq
  <2>6. total_tokens' = TokensOf(items')
    BY <2>1, NoTokens
  <2>7. ContextTypeOK'
    <3>1. request \in Requests /\ workspace \in Workspaces /\ used \in Nat /\ steady \in BOOLEAN
      BY DEF TypedInv, ContextTypeOK
    <3>2. request' \in Requests /\ workspace' \in Workspaces /\ used' \in Nat /\ steady' \in BOOLEAN
      BY <1>8, <3>1
    <3>3. left' \in Nat /\ total_tokens' \in Nat /\ truncated' \in BOOLEAN
      BY <2>1, <2>2
    <3>4. at' \in Sections \cup {"observing", "threw"}
      BY <2>1 DEF Sections
    <3> QED
      BY <1>8, <2>3, <2>4, <3>2, <3>3, <3>4 DEF ContextTypeOK
  <2>8. total_tokens' + left' = request'.token_budget
    BY <1>8, <2>1, <2>2
  <2> QED
    BY <2>1, <2>3, <2>5, <2>6, <2>7, <2>8 DEF TypedInv
<1>9. CASE FirstBuilt
  <2>1. conversation' = <<BuiltLength>> /\ conversation' \in Seq(Observations \cup {BuiltLength})
    BY <1>9 DEF FirstBuilt
  <2> QED
    BY <1>8, <1>9, <2>1 DEF FirstBuilt
<1>10. CASE Ask
  <2>1. /\ request' = request /\ conversation' = conversation /\ builds' = builds /\ builds > 1
        /\ left' = left /\ items' = items /\ total_tokens' = total_tokens /\ truncated' = truncated
        /\ workspace' = workspace /\ steady' = steady /\ at' = "observing"
             /\ used' \in {used, used + total_tokens}
        /\ Remember
    BY <1>10 DEF Ask, building
  <2>2. previous'.cut \in BOOLEAN
    BY <2>1 DEF Remember
  <2>3. used' \in Nat
    BY <2>1 DEF TypedInv, ContextTypeOK
  <2>4. ContextTypeOK'
    BY <2>1, <2>2, <2>3 DEF TypedInv, ContextTypeOK
  <2>5. builds' # 1
    BY <2>1 DEF TypedInv, ContextTypeOK
  <2> QED
    BY <2>1, <2>4, <2>5 DEF TypedInv
<1>11. CASE Observe
  <2>1. /\ UNCHANGED <<request, builds, used, previous, building, workspace, at, todo, steady>>
        /\ at = "observing"
    BY <1>11 DEF Observe
  <2>2. conversation' \in Seq(Observations \cup {BuiltLength})
    <3> DEFINE lengths == Observations \cup {BuiltLength}
    <3>1. PICK length \in lengths : conversation' = Append(conversation, length)
      BY <1>11 DEF Observe
    <3>2. conversation \in Seq(lengths)
      BY DEF TypedInv, ContextTypeOK
    <3> HIDE DEF lengths
    <3>3. conversation' \in Seq(lengths)
      BY <3>1, <3>2, AppendProperties
    <3> QED
      BY <3>3 DEF lengths
  <2>3. ContextTypeOK'
    BY <2>1, <2>2 DEF TypedInv, ContextTypeOK, building
  <2>4. builds # 1
    BY <2>1 DEF TypedInv
  <2> QED
    BY <2>1, <2>3, <2>4 DEF TypedInv, building
<1>12. CASE NextTurn
  <2>1. conversation' \in Seq(Observations \cup {BuiltLength})
    BY <1>12 DEF NextTurn, TypedInv, ContextTypeOK
  <2> QED
    BY <1>8, <1>12, <2>1 DEF NextTurn
<1>13. CASE Edit
  <2>1. /\ UNCHANGED <<run, building, at, todo>> /\ workspace' \in Workspaces /\ steady' = FALSE
    BY <1>13 DEF Edit
  <2>2. ContextTypeOK'
    BY <2>1 DEF TypedInv, ContextTypeOK, building, run
  <2> QED
    BY <2>1, <2>2 DEF TypedInv, building, run
<1>14. CASE UNCHANGED contextVars
  BY <1>14 DEF TypedInv, ContextTypeOK, contextVars, building, run
<1> QED
  BY <1>1, <1>2, <1>3, <1>4, <1>5, <1>6, <1>7, <1>9, <1>10, <1>11, <1>12, <1>13,
    <1>14 DEF ContextNext

LEMMA ShutWithin ==
  ASSUME NEW past \in Seq(EntryType), NEW budget \in Nat, NEW K, KindsOf(past) \subseteq K
  PROVE  Result(past, budget).shut \in K \cup {"none"}
<1>1. Faithful(Result(past, budget).items, Result(past, budget).shut, past)
  BY ResultFaithful
<1> QED
  BY <1>1 DEF Faithful

\* No section is shut before it is entered.
LEMMA NotShut ==
  ASSUME Given, Heard
  PROVE  /\ ShutAfter(Opening) # "rule"
         /\ \A e : e.kind \in Range(ProjectKinds) => ShutAfter(WithRules) # e.kind
         /\ ShutAfter(WithProject) # "file" /\ ShutAfter(Fixed) # "message"
<1>1. Budget \in Nat
  BY GivenIs
<1>2. ShutAfter(Opening) \in {"goal", "none"}
  <2>1. Opening \in Seq(EntryType) /\ KindsOf(Opening) \subseteq {"goal"}
    BY Shapes
  <2> QED
    BY <1>1, <2>1, ShutWithin DEF ShutAfter
<1>3. ShutAfter(WithRules) \in {"goal", "rule", "none"}
  <2>1. WithRules \in Seq(EntryType) /\ KindsOf(WithRules) \subseteq {"goal", "rule"}
    BY Shapes
  <2> QED
    BY <1>1, <2>1, ShutWithin DEF ShutAfter
<1>4. ShutAfter(WithProject) \in {"goal", "rule", "none"} \cup Range(ProjectKinds)
  <2> DEFINE K == {"goal", "rule"} \cup Range(ProjectKinds)
  <2>1. WithProject \in Seq(EntryType) /\ KindsOf(WithProject) \subseteq K
    BY Shapes
  <2> HIDE DEF K
  <2>2. ShutAfter(WithProject) \in K \cup {"none"}
    BY <1>1, <2>1, ShutWithin DEF ShutAfter
  <2> QED
    BY <2>2 DEF K
<1>5. ShutAfter(Fixed) \in {"goal", "rule", "file", "none"} \cup Range(ProjectKinds)
  <2> DEFINE K == {"goal", "rule", "file"} \cup Range(ProjectKinds)
  <2>1. Fixed \in Seq(EntryType) /\ KindsOf(Fixed) \subseteq K
    BY Shapes
  <2> HIDE DEF K
  <2>2. ShutAfter(Fixed) \in K \cup {"none"}
    BY <1>1, <2>1, ShutWithin DEF ShutAfter
  <2> QED
    BY <2>2 DEF K
<1> QED
  BY <1>2, <1>3, <1>4, <1>5, KnownKinds

\* What holds of the prompt as it will be holds in the next state.
LEMMA NextPlace ==
  ASSUME SameRun
  PROVE  /\ Refitted(<<>>) => Fitted(<<>>)'
         /\ Refitted(Opening) => Fitted(Opening)'
         /\ Refitted(WithRules) => Fitted(WithRules)'
         /\ PartlyNext(Opening, Rules, "rule") => Partly(Opening, Rules, "rule")'
         /\ PartlyFilesNext => PartlyFiles'
         /\ conversation' = conversation =>
              /\ Refitted(Offered) => Fitted(Offered)'
              /\ PartlyNext(Fixed, Messages, "message") => Partly(Fixed, Messages, "message")'
<1>1. /\ Opening' = Opening /\ Rules' = Rules /\ WithRules' = WithRules
      /\ WithProject' = WithProject /\ Fixed' = Fixed
      /\ Numbers' = Numbers /\ Budget' = Budget
      /\ \A n : FilesTo(n)' = FilesTo(n)
      /\ conversation' = conversation => Messages' = Messages /\ Offered' = Offered
  BY SameOffered
<1>2. Refitted(<<>>) => Fitted(<<>>)'
  BY <1>1 DEF Refitted, Fitted
<1>3. Refitted(Opening) => Fitted(Opening)'
  BY <1>1 DEF Refitted, Fitted
<1>4. Refitted(WithRules) => Fitted(WithRules)'
  BY <1>1 DEF Refitted, Fitted
<1>5. PartlyNext(Opening, Rules, "rule") => Partly(Opening, Rules, "rule")'
  BY <1>1 DEF Refitted, Fitted, PartlyNext, Partly, ShutAfter
<1>6. PartlyFilesNext => PartlyFiles'
  BY <1>1 DEF Refitted, Fitted, PartlyFilesNext, PartlyFiles, ShutAfter, SameRun
<1>7. ASSUME conversation' = conversation
      PROVE  /\ Refitted(Offered) => Fitted(Offered)'
             /\ PartlyNext(Fixed, Messages, "message") => Partly(Fixed, Messages, "message")'
  <2>1. Refitted(Offered) => Fitted(Offered)'
    BY <1>1, <1>7 DEF Refitted, Fitted
  <2>2. PartlyNext(Fixed, Messages, "message") => Partly(Fixed, Messages, "message")'
    BY <1>1, <1>7 DEF Refitted, Fitted, PartlyNext, Partly, ShutAfter
  <2> QED
    BY <2>1, <2>2
<1> QED
  BY <1>2, <1>3, <1>4, <1>5, <1>6, <1>7

LEMMA EnteringSection ==
  ASSUME Given, NEW first \in Seq(EntryType), NEW whole \in Seq(EntryType), NEW kind,
         Refitted(first), todo' = whole, ShutAfter(first) # kind
  PROVE  PartlyNext(first, whole, kind)
<1>1. 0 \in 0..Len(whole) /\ Upto(first, whole, 0) = first /\ Remains(todo', whole, 0)
  BY OneFurther, RemainsWhole
<1> QED
  BY <1>1 DEF PartlyNext

\* Where the build comes to next.
LEMMA Entering ==
  ASSUME Given, Heard, SameRun, conversation' = conversation, NEW section \in Sections,
           Enter(section)
  PROVE  /\ section = "load" /\ Refitted(Opening) => PlaceInv'
         /\ section = "rules" /\ Refitted(Opening) => PlaceInv'
         /\ section = "project" /\ Refitted(WithRules) => PlaceInv'
         /\ section = "files" /\ Refitted(WithProject) => PlaceInv'
         /\ section = "conversation" /\ Refitted(Fixed) => PlaceInv'
         /\ section = "built" /\ Refitted(Offered) => PlaceInv'
<1>0. at' = section
  BY DEF Enter
<1>1. ASSUME section = "load", Refitted(Opening)
      PROVE  PlaceInv'
  <2>1. at' = "load" /\ Fitted(Opening)'
    BY <1>0, <1>1, NextPlace
  <2> QED
    BY <2>1 DEF PlaceInv
<1>2. ASSUME section = "rules", Refitted(Opening)
      PROVE  PlaceInv'
  <2>1. todo' = Rules
    BY <1>2 DEF Enter
  <2>2. Opening \in Seq(EntryType) /\ Rules \in Seq(EntryType) /\ ShutAfter(Opening) # "rule"
    BY Shapes, NotShut
  <2>3. PartlyNext(Opening, Rules, "rule")
    BY <1>2, <2>1, <2>2, EnteringSection
  <2>4. at' = "rules" /\ Partly(Opening, Rules, "rule")'
    BY <1>0, <1>2, <2>3, NextPlace
  <2> QED
    BY <2>4 DEF PlaceInv
<1>3. ASSUME section = "project", Refitted(WithRules)
      PROVE  PlaceInv'
  <2>1. at' = "project" /\ Fitted(WithRules)'
    BY <1>0, <1>3, NextPlace
  <2> QED
    BY <2>1 DEF PlaceInv
<1>4. ASSUME section = "files", Refitted(WithProject)
      PROVE  PlaceInv'
  <2>1. todo' = Numbers
    BY <1>4 DEF Enter, Numbers
  <2>2. FilesTo(0) = <<>> /\ 0 \in 0..Len(request.file_paths)
    BY GivenIs, FilesGrow
  <2>3. WithProject \o FilesTo(0) = WithProject
    BY <2>2, Shapes, ConcatEmptySeq
  <2>4. Remains(todo', Numbers, 0)
    <3> DEFINE len == Len(request.file_paths)
    <3>1. len \in Nat /\ Numbers \in [1..len -> Nat]
      BY GivenIs DEF Numbers
    <3> HIDE DEF len
    <3>2. Numbers \in Seq(Nat)
      BY <3>1, ListIsSeq
    <3> QED
      BY <2>1, <3>2, RemainsWhole
  <2>5. PartlyFilesNext
    BY <1>4, <2>2, <2>3, <2>4, NotShut DEF PartlyFilesNext
  <2>6. at' = "files" /\ PartlyFiles'
    BY <1>0, <1>4, <2>5, NextPlace
  <2> QED
    BY <2>6 DEF PlaceInv
<1>5. ASSUME section = "conversation", Refitted(Fixed)
      PROVE  PlaceInv'
  <2>1. todo' = Messages
    BY <1>5 DEF Enter
  <2>2. Fixed \in Seq(EntryType) /\ Messages \in Seq(EntryType) /\ ShutAfter(Fixed) # "message"
    BY Shapes, NotShut
  <2>3. PartlyNext(Fixed, Messages, "message")
    BY <1>5, <2>1, <2>2, EnteringSection
  <2>4. at' = "conversation" /\ Partly(Fixed, Messages, "message")'
    BY <1>0, <1>5, <2>3, NextPlace
  <2> QED
    BY <2>4 DEF PlaceInv
<1>6. ASSUME section = "built", Refitted(Offered)
      PROVE  PlaceInv'
  <2>1. at' = "built" /\ Fitted(Offered)'
    BY <1>0, <1>6, NextPlace
  <2> QED
    BY <2>1 DEF PlaceInv
<1> QED
  BY <1>1, <1>2, <1>3, <1>4, <1>5, <1>6

\* A section all of whose entries have been looked at.
LEMMA PartlyAll ==
  ASSUME NEW first \in Seq(EntryType), NEW whole \in Seq(EntryType), NEW kind,
         Partly(first, whole, kind), todo = <<>>
  PROVE  Fitted(first \o whole)
<1>1. PICK n \in 0..Len(whole) : Fitted(Upto(first, whole, n)) /\ Remains(<<>>, whole, n)
  BY DEF Partly
<1>2. n = Len(whole)
  BY <1>1, RemainsNothing
<1> QED
  BY <1>1, <1>2, OneFurther

LEMMA PartlyAllFiles ==
  ASSUME Given, PartlyFiles, todo = <<>>
  PROVE  Fitted(Fixed)
<1>1. PICK n \in 0..Len(request.file_paths) :
        Fitted(WithProject \o FilesTo(n)) /\ Remains(<<>>, Numbers, n)
  BY DEF PartlyFiles
<1>2. Numbers \in Seq(Nat) /\ Len(Numbers) = Len(request.file_paths)
  <2> DEFINE len == Len(request.file_paths)
  <2>1. len \in Nat /\ Numbers \in [1..len -> Nat]
    BY GivenIs DEF Numbers
  <2> HIDE DEF len
  <2>2. Numbers \in Seq(Nat) /\ Len(Numbers) = len
    BY <2>1, ListIsSeq
  <2> QED
    BY <2>2 DEF len
<1>3. n = Len(request.file_paths)
  BY <1>1, <1>2, RemainsNothing
<1> QED
  BY <1>1, <1>3, FilesGrow DEF Fixed

LEMMA PlaceStep ==
  ASSUME TypedInv, PlaceInv, [ContextNext]_contextVars
  PROVE  PlaceInv'
<1>1. SUFFICES ASSUME steady'
      PROVE  PlaceInv'
  BY DEF PlaceInv
<1>0. /\ Given /\ Heard /\ Counts /\ Pending /\ Budget \in Nat
      /\ truncated \in BOOLEAN /\ left \in Nat
  BY GivenAndHeard, Counted DEF Counts
<1> DEFINE Built == UNCHANGED <<run, workspace, steady>>
<1>2. Built => steady /\ SameRun /\ conversation' = conversation
  BY <1>1 DEF SameRun, run
<1>3. UNCHANGED building => \A past : Fitted(past) => Refitted(past)
  BY DEF Fitted, Refitted, building
<1>4. CASE AddGoal
  <2>1. /\ SameRun /\ conversation' = conversation /\ AddItem(Goal) /\ Enter("load")
        /\ steady /\ at = "goal"
    BY <1>2, <1>4 DEF AddGoal
  <2> DEFINE none == <<>>
  <2>2. Fitted(none)
    BY <2>1 DEF PlaceInv
  <2>3. none \in Seq(EntryType) /\ Kinded(none, Goal.kind) /\ Goal \in EntryType
          /\ Goal.kind = "goal"
    BY <1>0, EmptySeq, Shapes DEF Kinded
  <2>4. ShutAfter(none) # Goal.kind
    <3>1. ShutAfter(none) = "none"
      <4>1. Result(none, Budget) = Start(Budget)
        BY <1>0, NothingOffered
      <4>2. Start(Budget).shut = "none"
        BY DEF Start
      <4> QED
        BY <4>1, <4>2 DEF ShutAfter
    <3> QED
      BY <2>3, <3>1
  <2>5. none \o <<Goal>> = Opening /\ Opening \o none = Opening
    <3>1. Opening \in Seq(EntryType) /\ Opening = <<Goal>>
      BY <1>0, Shapes DEF Opening
    <3> QED
      BY <3>1, ConcatEmptySeq
  <2> HIDE DEF none
  <2>6. Refitted(Opening)
    <3>1. /\ Added(Goal) => Refitted(none \o <<Goal>>)
          /\ ~Added(Goal) => \A others \in Seq(EntryType) :
               Kinded(others, Goal.kind) => Refitted((none \o <<Goal>>) \o others)
      BY <1>0, <2>1, <2>2, <2>3, <2>4, AddingFits
    <3> QED
      BY <2>3, <2>5, <3>1
  <2> QED
    BY <1>0, <2>1, <2>6, Entering DEF Sections
<1>5. CASE LoadRules
  <2>1. /\ SameRun /\ conversation' = conversation /\ UNCHANGED building /\ Enter("rules")
        /\ steady /\ at = "load"
    BY <1>2, <1>5 DEF LoadRules
  <2>2. Refitted(Opening)
    BY <1>3, <2>1 DEF PlaceInv
  <2> QED
    BY <1>0, <2>1, <2>2, Entering DEF Sections
<1>6. CASE AddNext("rules")
  <2>1. /\ SameRun /\ conversation' = conversation /\ steady /\ at = "rules" /\ todo # <<>>
        /\ AddItem(Head(todo))
    BY <1>2, <1>6 DEF AddNext
  <2>2. Partly(Opening, Rules, "rule") /\ todo \in Seq(EntryType)
    BY <1>0, <2>1 DEF PlaceInv, Pending
  <2>3. Opening \in Seq(EntryType) /\ Rules \in Seq(EntryType) /\ Kinded(Rules, "rule")
    BY <1>0, Shapes
  <2>4. /\ Added(Head(todo)) /\ todo' = Tail(todo) => PartlyNext(Opening, Rules, "rule")
        /\ ~Added(Head(todo)) => Refitted(Opening \o Rules)
    BY <1>0, <2>1, <2>2, <2>3, AddingNext
  <2>5. CASE Added(Head(todo))
    <3>1. at' = "rules" /\ todo' = Tail(todo)
      BY <1>6, <2>1, <2>5 DEF AddNext
    <3>2. Partly(Opening, Rules, "rule")'
      BY <2>1, <2>4, <2>5, <3>1, NextPlace
    <3> QED
      BY <3>1, <3>2 DEF PlaceInv
  <2>6. CASE ~Added(Head(todo))
    <3>1. Enter("project") /\ Refitted(WithRules)
      BY <1>6, <2>4, <2>6 DEF AddNext, After, WithRules
    <3> QED
      BY <1>0, <2>1, <3>1, Entering DEF Sections
  <2> QED
    BY <2>5, <2>6
<1>7. CASE AddProject
  <2> DEFINE info == Detected(workspace.markers)
  <2>1. /\ SameRun /\ conversation' = conversation /\ steady /\ at = "project" /\ Enter("files")
        /\ IF info = <<>> THEN UNCHANGED building ELSE AddItem(info[1])
    BY <1>2, <1>7 DEF AddProject
  <2>2. Fitted(WithRules) /\ WithRules \in Seq(EntryType) /\ WithProject = WithRules \o info
    BY <1>0, <2>1, Shapes DEF PlaceInv, WithProject
  <2>3. info = <<>> \/ \E e \in EntryType : e.kind \in Range(ProjectKinds) /\ info = <<e>>
    BY DetectedTyped
  <2> HIDE DEF info
  <2>4. Refitted(WithProject)
    <3>1. CASE info = <<>>
      <4>1. WithProject = WithRules
        BY <2>2, <3>1, ConcatEmptySeq
      <4> QED
        BY <1>3, <2>1, <2>2, <3>1, <4>1
    <3>2. CASE info # <<>>
      <4>1. PICK e \in EntryType : e.kind \in Range(ProjectKinds) /\ info = <<e>>
        BY <2>3, <3>2
      <4>2. AddItem(e)
        <5>1. info[1] = e
          BY <4>1
        <5> QED
          BY <2>1, <3>2, <5>1
      <4>3. ShutAfter(WithRules) # e.kind
        BY <1>0, <4>1, NotShut
      <4> DEFINE past == WithRules \o <<e>>
                 none == <<>>
      <4>4. WithProject = past /\ past \in Seq(EntryType)
        BY <1>0, <2>2, <4>1, Shapes
      <4>5. none \in Seq(EntryType) /\ Kinded(none, e.kind) /\ past \o none = past
        BY <4>4, EmptySeq, ConcatEmptySeq DEF Kinded
      <4> HIDE DEF none
      <4>6. /\ Added(e) => Refitted(past)
            /\ ~Added(e) => \A others \in Seq(EntryType) : Kinded(others, e.kind)
                 => Refitted(past \o others)
        BY <1>0, <2>2, <4>2, <4>3, AddingFits
      <4> QED
        BY <4>4, <4>5, <4>6
    <3> QED
      BY <3>1, <3>2
  <2> QED
    BY <1>0, <2>1, <2>4, Entering DEF Sections
<1>8. CASE AddFile
  <2> DEFINE entry == FileEntry(Head(todo))
  <2>1. /\ SameRun /\ conversation' = conversation /\ steady /\ at = "files" /\ todo # <<>>
        /\ IF entry = <<>> THEN at' = at /\ todo' = Tail(todo) /\ UNCHANGED building
           ELSE /\ AddItem(entry[1])
                /\ IF Added(entry[1]) THEN at' = at /\ todo' = Tail(todo) ELSE Enter("conversation")
    BY <1>2, <1>8 DEF AddFile
  <2>2. PartlyFiles /\ todo \in Seq(1..Len(request.file_paths))
    BY <1>0, <2>1 DEF PlaceInv, Pending
  <2>3. /\ entry = <<>> /\ UNCHANGED building /\ todo' = Tail(todo) => PartlyFilesNext
        /\ entry # <<>> /\ AddItem(entry[1]) /\ Added(entry[1]) /\ todo' = Tail(todo)
             => PartlyFilesNext
        /\ entry # <<>> /\ AddItem(entry[1]) /\ ~Added(entry[1]) => Refitted(Fixed)
    BY <1>0, <2>1, <2>2, AddingFile
  <2> HIDE DEF entry
  <2>4. CASE PartlyFilesNext /\ at' = "files"
    <3>1. PartlyFiles'
      BY <2>1, <2>4, NextPlace
    <3> QED
      BY <2>4, <3>1 DEF PlaceInv
  <2>5. CASE Refitted(Fixed) /\ Enter("conversation")
    BY <1>0, <2>1, <2>5, Entering DEF Sections
  <2> QED
    BY <2>1, <2>3, <2>4, <2>5
<1>9. CASE AddNext("conversation")
  <2>1. /\ SameRun /\ conversation' = conversation /\ steady /\ at = "conversation" /\ todo # <<>>
        /\ AddItem(Head(todo))
    BY <1>2, <1>9 DEF AddNext
  <2>2. Partly(Fixed, Messages, "message") /\ todo \in Seq(EntryType)
    BY <1>0, <2>1 DEF PlaceInv, Pending
  <2>3. /\ Fixed \in Seq(EntryType) /\ Messages \in Seq(EntryType) /\ Kinded(Messages, "message")
        /\ Offered = Fixed \o Messages
    BY <1>0, Shapes
  <2>4. /\ Added(Head(todo)) /\ todo' = Tail(todo) => PartlyNext(Fixed, Messages, "message")
        /\ ~Added(Head(todo)) => Refitted(Fixed \o Messages)
    BY <1>0, <2>1, <2>2, <2>3, AddingNext
  <2>5. CASE Added(Head(todo))
    <3>1. at' = "conversation" /\ todo' = Tail(todo)
      BY <1>9, <2>1, <2>5 DEF AddNext
    <3>2. Partly(Fixed, Messages, "message")'
      BY <2>1, <2>4, <2>5, <3>1, NextPlace
    <3> QED
      BY <3>1, <3>2 DEF PlaceInv
  <2>6. CASE ~Added(Head(todo))
    <3>1. Enter("built") /\ Refitted(Offered)
      BY <1>9, <2>3, <2>4, <2>6 DEF AddNext, After
    <3> QED
      BY <1>0, <2>1, <3>1, Entering DEF Sections
  <2> QED
    BY <2>5, <2>6
<1>10. CASE EndSection
  <2>1. /\ SameRun /\ conversation' = conversation /\ steady /\ todo = <<>> /\ UNCHANGED building
        /\ at \in {"rules", "files", "conversation"} /\ Enter(After[at])
    BY <1>2, <1>10 DEF EndSection
  <2>2. CASE at = "rules"
    <3>1. Partly(Opening, Rules, "rule") /\ Opening \in Seq(EntryType) /\ Rules \in Seq(EntryType)
      BY <1>0, <2>1, <2>2, Shapes DEF PlaceInv
    <3>2. Fitted(WithRules)
      BY <2>1, <3>1, PartlyAll DEF WithRules
    <3>3. Refitted(WithRules) /\ Enter("project")
      BY <1>3, <2>1, <2>2, <3>2 DEF After
    <3> QED
      BY <1>0, <2>1, <3>3, Entering DEF Sections
  <2>3. CASE at = "files"
    <3>1. Fitted(Fixed)
      BY <1>0, <2>1, <2>3, PartlyAllFiles DEF PlaceInv
    <3>2. Refitted(Fixed) /\ Enter("conversation")
      BY <1>3, <2>1, <2>3, <3>1 DEF After
    <3> QED
      BY <1>0, <2>1, <3>2, Entering DEF Sections
  <2>4. CASE at = "conversation"
    <3>1. /\ Partly(Fixed, Messages, "message") /\ Fixed \in Seq(EntryType)
          /\ Messages \in Seq(EntryType) /\ Offered = Fixed \o Messages
      BY <1>0, <2>1, <2>4, Shapes DEF PlaceInv
    <3>2. Fitted(Offered)
      BY <2>1, <3>1, PartlyAll
    <3>3. Refitted(Offered) /\ Enter("built")
      BY <1>3, <2>1, <2>4, <3>2 DEF After
    <3> QED
      BY <1>0, <2>1, <3>3, Entering DEF Sections
  <2> QED
    BY <2>1, <2>2, <2>3, <2>4
<1>11. CASE BuildThrows
  BY <1>11 DEF BuildThrows, PlaceInv
<1>12. ASSUME NextBuild, SameRun
       PROVE  PlaceInv'
  <2>1. /\ at' = "goal" /\ items' = <<>> /\ left' = Budget /\ truncated' = FALSE
    BY <1>12 DEF NextBuild, BeginBuild, Budget
  <2>2. Fits(<<>>, Budget, FALSE, <<>>, Budget)
    BY <1>0, FitsNothing
  <2>3. Refitted(<<>>)
    BY <2>1, <2>2 DEF Refitted
  <2>4. Fitted(<<>>)'
    BY <1>12, <2>3, NextPlace
  <2> QED
    BY <2>1, <2>4 DEF PlaceInv
<1>13. CASE FirstBuilt
  BY <1>12, <1>13 DEF FirstBuilt, SameRun
<1>14. CASE Ask
  BY <1>14 DEF Ask, PlaceInv
<1>15. CASE Observe
  BY <1>15 DEF Observe, PlaceInv
<1>16. CASE NextTurn
  BY <1>12, <1>16 DEF NextTurn, SameRun
<1>17. CASE Edit
  BY <1>1, <1>17 DEF Edit
<1>18. CASE UNCHANGED contextVars
  <2>1. /\ SameRun /\ conversation' = conversation /\ at' = at /\ todo' = todo /\ steady' = steady
        /\ items' = items /\ left' = left /\ truncated' = truncated
    BY <1>18 DEF contextVars, run, building, SameRun
  <2>2. /\ \A past : Fitted(past) => Refitted(past)
        /\ Partly(Opening, Rules, "rule") => PartlyNext(Opening, Rules, "rule")
        /\ PartlyFiles => PartlyFilesNext
        /\ Partly(Fixed, Messages, "message") => PartlyNext(Fixed, Messages, "message")
    BY <2>1 DEF Fitted, Refitted, Partly, PartlyNext, PartlyFiles, PartlyFilesNext
  <2> QED
    BY <2>1, <2>2, NextPlace DEF PlaceInv
<1> QED
  BY <1>4, <1>5, <1>6, <1>7, <1>8, <1>9, <1>10, <1>11, <1>13, <1>14, <1>15, <1>16, <1>17, <1>18
  DEF ContextNext

\* A message more leaves those before it as they are.
LEMMA MessageMore ==
  ASSUME Heard, NEW length \in Nat, conversation' = Append(conversation, length),
         NEW q \in 0..Len(conversation)
  PROVE  /\ q \in 0..Len(conversation') /\ Upto(Fixed, Messages', q) = Upto(Fixed, Messages, q)
<1> DEFINE len == Len(conversation)
<1>1. /\ len \in Nat /\ Len(conversation') = len + 1
      /\ \A i \in 1..len : conversation'[i] = conversation[i]
  BY AppendProperties DEF Heard
<1>2. q \in 0..Len(conversation')
  BY <1>1
<1>3. DOMAIN conversation = 1..len /\ DOMAIN conversation' = 1..(len + 1)
  <2>1. conversation \in Seq(Nat) /\ Append(conversation, length) \in Seq(Nat)
    BY AppendProperties DEF Heard
  <2> QED
    BY <1>1, <2>1
<1>4. \A i \in 1..len : Messages'[i] = Messages[i]
  BY <1>1, <1>3 DEF Messages, EntriesOf
<1>5. SubSeq(Messages', 1, q) = SubSeq(Messages, 1, q)
  <2>1. SubSeq(Messages', 1, q) = [i \in 1..q |-> Messages'[i]]
    BY <1>1
  <2>2. SubSeq(Messages, 1, q) = [i \in 1..q |-> Messages[i]]
    BY <1>1
  <2>3. \A i \in 1..q : i \in 1..len
    BY <1>1
  <2> QED
    BY <1>4, <2>1, <2>2, <2>3
<1> QED
  BY <1>2, <1>5 DEF Upto

LEMMA BeforeStep ==
  ASSUME TypedInv, PlaceInv, BeforeInv, [ContextNext]_contextVars
  PROVE  BeforeInv'
<1>1. SUFFICES ASSUME steady'
      PROVE  BeforeInv'
  BY DEF BeforeInv
<1>0. Given /\ Heard /\ Budget \in Nat
  BY GivenAndHeard
<1>2. ASSUME steady, SameRun, conversation' = conversation, previous' = previous
      PROVE  BeforeInv'
  <2>1. Fixed' = Fixed /\ Messages' = Messages /\ Budget' = Budget
    BY <1>2, SameOffered
  <2> QED
    BY <1>2, <2>1 DEF BeforeInv, Before, ShutAfter
<1>3. CASE UNCHANGED <<run, workspace, steady>>
  BY <1>1, <1>2, <1>3 DEF run, SameRun
<1>4. CASE FirstBuilt
  <2>1. /\ SameRun /\ steady /\ at = "built" /\ builds = 1 /\ Remember
             /\ conversation' = <<BuiltLength>>
    BY <1>1, <1>4 DEF FirstBuilt, SameRun
  <2>2. Messages = <<>> /\ Fixed \in Seq(EntryType)
    <3>1. conversation = <<>>
      BY <2>1 DEF TypedInv
    <3>2. Messages \in Seq(EntryType) /\ Len(Messages) = 0
      BY <1>0, <3>1, Shapes
    <3> QED
      BY <1>0, <3>2, EmptySeq, Shapes
  <2>3. previous'.items = items /\ ~previous'.cut
    <3>1. Range(Messages) = {}
      BY <2>2 DEF Range
    <3>2. previous'.items = items /\ previous'.cut = ~(Range(Messages) \subseteq Range(items))
      BY <2>1 DEF Remember
    <3> QED
      BY <3>1, <3>2
  <2>4. items = Result(Fixed, Budget).items
    <3>1. Offered = Fixed
      BY <1>0, <2>2, Shapes, ConcatEmptySeq
    <3> QED
      BY <2>1, <3>1 DEF PlaceInv, Fitted, Fits
  <2>5. Fixed' = Fixed /\ Budget' = Budget
    BY <2>1, SameOffered
  <2>6. 0 \in 0..Len(conversation') /\ Upto(Fixed, Messages', 0) = Fixed
    <3>1. SubSeq(Messages', 1, 0) = <<>>
      BY SubSeqEmpty
    <3> QED
      BY <2>1, <2>2, <3>1, ConcatEmptySeq DEF Upto
  <2>7. Before(previous'.items, previous'.cut, Upto(Fixed, Messages', 0))
    BY <2>3, <2>4, <2>6 DEF Before
  <2>8. Before(previous.items, previous.cut, Upto(Fixed, Messages, 0))'
    BY <2>5, <2>7 DEF Before, ShutAfter
  <2> QED
    BY <2>6, <2>8 DEF BeforeInv
<1>5. CASE Ask
  <2>1. /\ SameRun /\ steady /\ at = "built" /\ Remember /\ conversation' = conversation
    BY <1>1, <1>5 DEF Ask, SameRun
  <2>2. /\ Fixed \in Seq(EntryType) /\ Messages \in Seq(EntryType) /\ Kinded(Messages, "message")
        /\ Len(Messages) = Len(conversation) /\ Offered = Fixed \o Messages
    BY <1>0, Shapes
  <2>3. items = Result(Offered, Budget).items
    BY <2>1 DEF PlaceInv, Fitted, Fits
  <2>4. previous'.items = items /\ (previous'.cut <=> ~(Range(Messages) \subseteq Range(items)))
    BY <2>1 DEF Remember
  <2>5. ShutAfter(Offered) # "message" => Range(Messages) \subseteq Range(items)
    <3>1. \A i \in 1..Len(Messages) : Messages[i].kind = "message"
      BY <2>2 DEF Kinded
    <3> QED
      BY <1>0, <2>2, <2>3, <3>1, NoneShutOut DEF ShutAfter
  <2>6. Upto(Fixed, Messages, Len(conversation)) = Offered
          /\ Len(conversation) \in 0..Len(conversation)
    <3>1. Upto(Fixed, Messages, Len(Messages)) = Offered
      BY <2>2, OneFurther
    <3>2. Len(conversation) \in Nat
      BY <1>0 DEF Heard
    <3> QED
      BY <2>2, <3>1, <3>2
  <2>7. Before(previous'.items, previous'.cut, Upto(Fixed, Messages, Len(conversation)))
    BY <2>3, <2>4, <2>5, <2>6 DEF Before
  <2>8. Fixed' = Fixed /\ Messages' = Messages /\ Budget' = Budget
    BY <2>1, SameOffered
  <2>9. \E q \in 0..Len(conversation') :
          Before(previous.items, previous.cut, Upto(Fixed, Messages, q))'
    BY <2>1, <2>6, <2>7, <2>8 DEF Before, ShutAfter
  <2> QED
    BY <2>9 DEF BeforeInv
<1>6. CASE Observe
  <2>1. SameRun /\ steady /\ previous' = previous
    BY <1>1, <1>6 DEF Observe, SameRun
  <2>2. PICK length \in Observations : conversation' = Append(conversation, length)
    BY <1>6 DEF Observe
  <2>3. length \in Nat
    BY ContextAssumption DEF ContextAssumption
  <2>4. Fixed' = Fixed /\ Budget' = Budget
    BY <2>1, SameOffered
  <2>5. CASE previous.items = <<>> /\ ~previous.cut
    BY <2>1, <2>5 DEF BeforeInv
  <2>6. CASE \E q \in 0..Len(conversation) :
               Before(previous.items, previous.cut, Upto(Fixed, Messages, q))
    <3>1. PICK q \in 0..Len(conversation) :
                 Before(previous.items, previous.cut, Upto(Fixed, Messages, q))
      BY <2>6
    <3>2. q \in 0..Len(conversation') /\ Upto(Fixed, Messages', q) = Upto(Fixed, Messages, q)
      BY <1>0, <2>2, <2>3, MessageMore
    <3>3. Before(previous.items, previous.cut, Upto(Fixed, Messages, q))'
      BY <2>1, <2>4, <3>1, <3>2 DEF Before, ShutAfter
    <3> QED
      BY <3>2, <3>3 DEF BeforeInv
  <2> QED
    BY <2>1, <2>5, <2>6 DEF BeforeInv
<1>7. CASE NextTurn
  BY <1>1, <1>2, <1>7 DEF NextTurn, SameRun
<1>8. CASE Edit
  BY <1>1, <1>8 DEF Edit
<1>9. CASE UNCHANGED contextVars
  BY <1>3, <1>9 DEF contextVars
<1> QED
  BY <1>3, <1>4, <1>5, <1>6, <1>7, <1>8, <1>9
  DEF ContextNext, AddGoal, LoadRules, AddNext, AddProject, AddFile, EndSection, BuildThrows

LEMMA ContextInitially == ContextInit => ContextInv
<1> SUFFICES ASSUME ContextInit PROVE ContextInv
  OBVIOUS
<1>1. /\ request \in Requests /\ workspace \in Workspaces /\ conversation = <<>>
      /\ at = "goal" /\ left = request.token_budget /\ items = <<>> /\ total_tokens = 0
      /\ truncated = FALSE /\ builds = 1 /\ used = 0 /\ steady = TRUE
      /\ previous = [items |-> <<>>, cut |-> FALSE]
  BY DEF ContextInit
<1>2. request \in Request /\ workspace \in Workspace /\ MaxBuilds \in Nat \ {0}
  BY <1>1, ContextAssumption DEF ContextAssumption
<1>3. Budget \in Nat
  BY <1>2, GivenIs DEF Given
<1>4. TypedInv
  <2>1. builds \in 1..MaxBuilds
    BY <1>1, <1>2
  <2>2. previous.cut \in BOOLEAN
    BY <1>1
  <2>3. conversation \in Seq(Observations \cup {BuiltLength})
    BY <1>1, EmptySeq
  <2>4. ContextTypeOK
    <3>1. left \in Nat /\ total_tokens \in Nat /\ used \in Nat
      BY <1>1, <1>3 DEF Budget
    <3>2. truncated \in BOOLEAN /\ steady \in BOOLEAN /\ at \in Sections
      BY <1>1 DEF Sections
    <3> QED
      BY <1>1, <2>1, <2>2, <2>3, <3>1, <3>2 DEF ContextTypeOK
  <2>5. items \in Seq(EntryType) /\ total_tokens = TokensOf(items)
    BY <1>1, EmptySeq, NoTokens
  <2>6. total_tokens + left = request.token_budget
    BY <1>1, <1>3 DEF Budget
  <2> QED
    BY <1>1, <2>4, <2>5, <2>6 DEF TypedInv
<1>5. PlaceInv
  <2>1. Fits(<<>>, Budget, FALSE, <<>>, Budget)
    BY <1>3, FitsNothing
  <2>2. Fitted(<<>>)
    BY <1>1, <2>1 DEF Fitted, Budget
  <2> QED
    BY <1>1, <2>2 DEF PlaceInv
<1>6. BeforeInv
  <2>1. previous.items = <<>> /\ ~previous.cut
    BY <1>1
  <2> QED
    BY <2>1 DEF BeforeInv
<1> QED
  BY <1>4, <1>5, <1>6 DEF ContextInv

LEMMA ContextInductive == ContextSpec => []ContextInv
<1>1. ContextInv /\ [ContextNext]_contextVars => ContextInv'
  BY TypedStep, PlaceStep, BeforeStep DEF ContextInv
<1> QED
  BY <1>1, ContextInitially, PTL DEF ContextSpec

LEMMA InvAccounted == ContextInv => Accounted
<1> SUFFICES ASSUME ContextInv PROVE Accounted
  OBVIOUS
<1>1. TypedInv /\ PlaceInv
  BY DEF ContextInv
<1>2. Given /\ Heard /\ Budget \in Nat
  BY <1>1, GivenAndHeard
<1>3. ASSUME at = "built", steady
      PROVE  (truncated <=> Len(items) < Len(Offered)) /\ InOrder(items, Offered)
  <2>1. Fits(items, left, truncated, Offered, Budget) /\ Offered \in Seq(EntryType)
    BY <1>1, <1>2, <1>3, Shapes DEF PlaceInv, Fitted
  <2>2. Faithful(Result(Offered, Budget).items, Result(Offered, Budget).shut, Offered)
    BY <1>2, <2>1, ResultFaithful
  <2> QED
    BY <2>1, <2>2 DEF Fits, Faithful
<1> QED
  BY <1>1, <1>3 DEF Accounted, TypedInv

LEMMA InvFrozen == ContextInv => PromptFreezes
<1> SUFFICES ASSUME ContextInv, at = "built", steady
             PROVE  IsPrefix(previous.items, items) /\ (previous.cut => items = previous.items)
  BY DEF PromptFreezes
<1>1. TypedInv /\ PlaceInv /\ BeforeInv
  BY DEF ContextInv
<1>2. Given /\ Heard /\ Budget \in Nat /\ items \in Seq(EntryType)
  BY <1>1, GivenAndHeard DEF TypedInv
<1>3. /\ Fixed \in Seq(EntryType) /\ Messages \in Seq(EntryType) /\ Kinded(Messages, "message")
      /\ Len(Messages) = Len(conversation) /\ Offered = Fixed \o Messages
  BY <1>2, Shapes
<1>4. items = Result(Offered, Budget).items
  BY <1>1 DEF PlaceInv, Fitted, Fits
<1>5. CASE previous.items = <<>> /\ ~previous.cut
  <2> DEFINE none == <<>>
  <2>1. IsPrefix(none, items)
    <3>1. Len(none) = 0 /\ Len(items) \in Nat
      BY <1>2
    <3>2. SubSeq(none, 1, 0) = <<>> /\ SubSeq(items, 1, 0) = <<>>
      BY SubSeqEmpty
    <3> HIDE DEF none
    <3> QED
      BY <3>1, <3>2 DEF IsPrefix
  <2> QED
    BY <1>5, <2>1
<1>6. CASE \E q \in 0..Len(conversation) :
             Before(previous.items, previous.cut, Upto(Fixed, Messages, q))
  <2>1. PICK q \in 0..Len(conversation) :
               Before(previous.items, previous.cut, Upto(Fixed, Messages, q))
    BY <1>6
  <2> DEFINE past == Upto(Fixed, Messages, q)
  <2>2. past \in Seq(EntryType)
    BY <1>3, OneFurther
  <2>3. PICK rest \in Seq(EntryType) : Kinded(rest, "message") /\ Offered = past \o rest
    <3>1. Rested(Fixed, Messages, "message", q)
      BY <1>3, RestOf
    <3> QED
      BY <1>3, <3>1 DEF Rested
  <2>4. previous.items = Result(past, Budget).items
          /\ (previous.cut => Result(past, Budget).shut = "message")
    BY <2>1 DEF Before, ShutAfter
  <2> HIDE DEF past
  <2>5. IsPrefix(previous.items, items)
    BY <1>2, <1>4, <2>2, <2>3, <2>4, PromptGrows
  <2>6. ASSUME previous.cut
        PROVE  items = previous.items
    <3>1. \A i \in 1..Len(rest) : rest[i].kind = Result(past, Budget).shut
      BY <2>3, <2>4, <2>6 DEF Kinded
    <3>2. Result(past \o rest, Budget) = Result(past, Budget)
      BY <1>2, <2>2, <3>1, ShutIsSkipped
    <3> QED
      BY <1>4, <2>3, <2>4, <3>2
  <2> QED
    BY <2>5, <2>6
<1> QED
  BY <1>1, <1>5, <1>6 DEF BeforeInv

\* A finished prompt accounts for its tokens and its entries: their estimates
\* add up to total_tokens and stay within the budget, truncated says whether
\* anything was left out, and they stand in the order of the offer, whatever
\* the workspace, the budget and the tool results (ContextBuilder::build).
THEOREM PromptsAccounted == ContextSpec => []Accounted
BY ContextInductive, InvAccounted, PTL

\* While the workspace stays as it is each prompt of a run begins with the one
\* before, and once a message was left out the prompt never changes again:
\* AgentRuntime::run goes on asking with it.
THEOREM PromptsFreeze == ContextSpec => []PromptFreezes
BY ContextInductive, InvFrozen, PTL
====
