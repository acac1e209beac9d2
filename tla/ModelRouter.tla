---- MODULE ModelRouter ----
(***************************************************************************)
(* ModelRouter: a model is routed for a request, and a caller who is not   *)
(* content with its answers asks for an escalation, again and again.       *)
(* Scores of models are in twentieths, sizes in any unit; a float is the   *)
(* fraction it stands for, so rounding is left out, but the infinity that  *)
(* a model without a size gets, and the NaN of one without speed as well,  *)
(* are fractions over zero here.                                           *)
(***************************************************************************)
EXTENDS Naturals, Sequences, FiniteSets, SequencesExt

CONSTANTS
  Registries,   \* the models a registry may hold, in order
  RoutingRequests,
  Qualities,    \* that a caller may observe of an answer
  MaxRetries    \* most times the caller asks

NoModel == ""
Capability == {"Chat", "Embedding", "ToolUse", "Vision", "Code", "Reasoning"}
Model ==
  [id : STRING \ {NoModel}, capabilities : SUBSET Capability, context_length : Nat,
   quality_score : 0..20, speed_score : 0..20, memory_mb : Nat, cost_score : Nat]
RoutingRequest ==
  [complexity : Nat, required_capabilities : SUBSET Capability,
   estimated_memory_mb : Nat, context_tokens : Nat,
   preference : {"PreferCheap", "PreferQuality", "Balanced"},
   escalation_requested : BOOLEAN, observed_quality : 0..20]

\* EscalationTrigger: 0.6, 0.75 and one retry.
QualityThreshold == 12
ComplexityThreshold == 15
RetryLimit == 1
Fallback == "main-reasoner"

ASSUME RouterAssumption ==
  /\ Registries \subseteq Seq(Model)
  /\ RoutingRequests \subseteq RoutingRequest /\ Qualities \subseteq 0..20
  /\ MaxRetries \in Nat

VARIABLES
  registry,
  routing,     \* the request
  decision,    \* what the router said last; no model before it is asked
  retry_count  \* how often the caller has asked for an escalation

routerVars == <<registry, routing, decision, retry_count>>

Undecided == [model |-> NoModel, escalated |-> FALSE]

RouterInit ==
  /\ registry \in Registries
  /\ routing \in RoutingRequests
  /\ decision = Undecided
  /\ retry_count = 0

Larger(m, n) == IF m > n THEN m ELSE n
Smaller(m, n) == IF m < n THEN m ELSE n

(***************************************************************************)
(* score_candidate, as a numerator and a denominator, 400 times too large. *)
(***************************************************************************)
Fraction(num, den) == [num |-> num, den |-> den]
Zero == Fraction(0, 1)
Exceeds(x, y) == x.num * y.den > y.num * x.den
NotPositive(x) == x.num = 0 /\ x.den # 0   \* not true of NaN

CapabilityMatch(required, offered) ==
  IF required = {} THEN Fraction(1, 1)
  ELSE Fraction(Cardinality(required \cap offered), Cardinality(required))

Cost(m) == Larger(m.cost_score, 1)  \* 0.05 at least

PreferenceMultiplier(preference, m) ==
  CASE preference = "PreferCheap" -> Fraction(20, Cost(m))
    [] preference = "PreferQuality" -> Fraction(m.quality_score, 20)
    [] preference = "Balanced" ->
         Fraction(m.quality_score * Cost(m) + 400, 40 * Cost(m))

\* How many times over the model fits the memory it is measured by.
MemoryFactor(r, m) ==
  IF r.estimated_memory_mb > 0 THEN Fraction(r.estimated_memory_mb, m.memory_mb)
  ELSE Fraction(1, Smaller(m.memory_mb, 1))

ScoreCandidate(m, r) ==
  LET match == CapabilityMatch(r.required_capabilities, m.capabilities)
      fit == MemoryFactor(r, m)
      preference == PreferenceMultiplier(r.preference, m)
  IN  IF \/ match.num = 0
         \/ r.context_tokens > m.context_length
         \/ r.estimated_memory_mb > 0 /\ m.memory_mb > r.estimated_memory_mb
      THEN Zero
      ELSE Fraction(match.num * m.quality_score * m.speed_score * fit.num * preference.num,
                    match.den * fit.den * preference.den)

(***************************************************************************)
(* check_escalation. A found model is the first with its id.               *)
(***************************************************************************)
QualityOf(id) ==
  LET found == SelectInSeq(registry, LAMBDA m : m.id = id)
  IN  IF found = 0 THEN 0 ELSE registry[found].quality_score

WantsEscalation(r, retries) ==
  LET low_quality == r.observed_quality < QualityThreshold
      high_complexity == r.complexity >= ComplexityThreshold
  IN  \/ low_quality \/ high_complexity
      \/ r.escalation_requested /\ retries < RetryLimit

\* mutant: a model as good counts as better
ClimbsLevel(m, quality) == m.quality_score >= quality

Climbs(m, quality) == m.quality_score > quality

\* The loop: the place of the best of the first n models, 0 for none.
BestAbove(r, current) ==
  LET Quality(place) ==
        IF place = 0 THEN QualityOf(current) ELSE registry[place].quality_score
      best[n \in 0..Len(registry)] ==
        IF n = 0 THEN 0
        ELSE IF /\ registry[n].id # current
                /\ ~NotPositive(ScoreCandidate(registry[n], r))
                /\ Climbs(registry[n], Quality(best[n - 1]))
             THEN n ELSE best[n - 1]
  IN  best[Len(registry)]

\* The decision for a caller who has the model current and asks again.
CheckEscalation(r, current, retries, otherwise) ==
  LET best == BestAbove(r, current)
  IN  IF WantsEscalation(r, retries) /\ best # 0
      THEN [model |-> registry[best].id, escalated |-> TRUE] ELSE otherwise

(***************************************************************************)
(* route.                                                                  *)
(***************************************************************************)
TooPoor(m, r) ==
  r.preference = "PreferCheap" /\ m.quality_score + 1 < Smaller(r.complexity, 20)

\* mutant: of two that score the same the later one is taken
BeatsOrTies(m, best, r) ==
  best = 0 \/ ~Exceeds(ScoreCandidate(registry[best], r), ScoreCandidate(m, r))

Beats(m, best, r) ==
  LET score == ScoreCandidate(m, r)
  IN  /\ score.den + score.num > 0
      /\ best = 0 \/ Exceeds(score, ScoreCandidate(registry[best], r))

\* The loop, as above.
BestScored(r) ==
  LET best[n \in 0..Len(registry)] ==
        IF n = 0 THEN 0
        ELSE IF /\ ~NotPositive(ScoreCandidate(registry[n], r))
                /\ ~TooPoor(registry[n], r)
                /\ Beats(registry[n], best[n - 1], r)
             THEN n ELSE best[n - 1]
  IN  best[Len(registry)]

RouteFor(r) ==
  LET best == BestScored(r)
      chosen == [model |-> registry[best].id, escalated |-> FALSE]
  IN  CASE best = 0 -> [model |-> Fallback, escalated |-> FALSE]
        [] best # 0 /\ r.escalation_requested -> CheckEscalation(r, chosen.model, 0, chosen)
        [] OTHER -> chosen

(***************************************************************************)
(* The caller.                                                             *)
(***************************************************************************)
Route ==
  /\ decision = Undecided
  /\ decision' = RouteFor(routing)
  /\ UNCHANGED <<registry, routing, retry_count>>

\* The answer was of some quality; the caller asks whether to go on with
\* another model, and takes it if there is one.
Escalate ==
  /\ decision # Undecided /\ retry_count < MaxRetries
  /\ \E quality \in Qualities :
       routing' = [routing EXCEPT !.observed_quality = quality]
  /\ decision' = CheckEscalation(routing', decision.model, retry_count, decision)
  /\ retry_count' = retry_count + 1
  /\ UNCHANGED registry

RouterNext == Route \/ Escalate

RouterSpec == RouterInit /\ [][RouterNext]_routerVars

(***************************************************************************)
(* Properties.                                                             *)
(***************************************************************************)

\* A model that can serve the request: one required capability is enough.
Serves(m, r) ==
  /\ r.required_capabilities # {} => m.capabilities \cap r.required_capabilities # {}
  /\ r.context_tokens <= m.context_length
  /\ r.estimated_memory_mb > 0 => m.memory_mb <= r.estimated_memory_mb
  /\ m.quality_score > 0 /\ m.speed_score > 0

\* Without a request to escalate, the model routed to serves the request, is
\* good enough for it where a cheap one is asked for, and no other such model
\* scores higher, nor one before it the same; where there is none it is the
\* fallback, in the registry or not, and there only.
ChoiceIsBest ==
  decision # Undecided /\ retry_count = 0 /\ ~routing.escalation_requested =>
    LET able == {i \in DOMAIN registry :
                   Serves(registry[i], routing) /\ ~TooPoor(registry[i], routing)}
        Score(i) == ScoreCandidate(registry[i], routing)
    IN  IF able = {} THEN decision.model = Fallback
        ELSE \E i \in able :
               /\ decision.model = registry[i].id
               /\ \A j \in able : ~Exceeds(Score(j), Score(i))
               /\ \A j \in able : j < i => Exceeds(Score(i), Score(j))

Distinct == \A i, j \in DOMAIN registry : registry[i].id = registry[j].id => i = j

\* Escalation climbs. As long as no id is registered twice, each move to another
\* model is to one of higher quality, so no model is tried twice and the caller
\* runs out of them, however often it asks; and a caller who is content with an
\* answer of a simple task is moved only on its own request, and only once.
EscalationClimbs ==
  [][decision # Undecided /\ decision'.model # decision.model =>
       /\ Distinct => QualityOf(decision'.model) > QualityOf(decision.model)
       /\ \/ routing'.observed_quality < QualityThreshold
          \/ routing'.complexity >= ComplexityThreshold
          \/ routing'.escalation_requested /\ retry_count = 0]_routerVars
====
