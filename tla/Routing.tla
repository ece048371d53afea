-------------------------------- MODULE Routing --------------------------------
(***************************************************************************)
(* Which profile executes a unit (src/src/routing): the static router, its *)
(* balance of evidence among equally sufficient profiles, and the router   *)
(* that lets recorded performance decide when it leaves no doubt. A profile *)
(* is what the capability registry knows of it; "place" is the position of *)
(* its id in alphabetical order, the last tie-break everywhere.            *)
(***************************************************************************)
EXTENDS PlanGates

Roles == {"planner", "implementer", "reviewer"}

\* ProfileCapability. A prior pins tier and costs, otherwise model and effort
\* are read; a role may be declared incompatible or never have been declared.
Capabilities ==
  [id : STRING, place : Nat, agent : STRING, provider : STRING, pool : STRING,
   billing : {"subscription", "api"}, model : STRING, effort : STRING,
   prior : {<<>>} \cup Seq([tier : STRING, model : Nat, effort : Nat]),
   roles : [Roles -> {"yes", "no", "unknown"}], environment : {"controlled", "host"},
   ownsValidation : BOOLEAN]

Unranked == 99

TierOrder(tier) ==
  CASE tier = "economy" -> 0 [] tier = "intermediate" -> 1 [] tier = "advanced" -> 2

\* MODEL_TIER_PATTERNS, MODEL_COST_PATTERNS and EFFORT_COST.
KnownModels  == <<"luna", "terra", "sonnet", "sol", "opus">>
KnownEfforts == <<"minimal", "low", "medium", "high", "xhigh", "max">>

PlaceIn(order, value) ==
  IF value \in Range(order) THEN (CHOOSE i \in DOMAIN order : order[i] = value) - 1
  ELSE Unranked

\* capabilityTierOf: "none" when model or effort classify nothing.
CapabilityTier(c) ==
  CASE c.prior # <<>> -> c.prior[1].tier
    [] c.prior = <<>> /\ (\/ c.model \notin Range(KnownModels)
                            \/ c.effort \in {"unknown", "unpinned", "not_applicable"}) -> "none"
    [] c.prior = <<>> /\ c.model = "luna" -> "economy"
    [] c.effort \in {"high", "xhigh", "max"} -> "advanced"
    [] OTHER -> "intermediate"

\* capabilityCostOf.
CapabilityCost(c) ==
  IF c.prior # <<>> THEN <<c.prior[1].model, c.prior[1].effort>>
  ELSE <<PlaceIn(KnownModels, c.model), PlaceIn(KnownEfforts, c.effort)>>

--------------------------------------------------------------------------------
(* router.ts.                                                              *)

\* What assess.ts made of the unit, as the router reads it.
Assessment(u, inspection, base) ==
  [difficulty |-> AssessedDifficulty(u), risk |-> u.risk, pressure |-> ContextPressure(u),
   verification |-> VerificationStrength(u, inspection),
   confidence |-> Confidence(u, inspection, base),
   review |-> ReviewRequired(u, inspection, base), diversity |-> DiversityRequired(u),
   readiness |-> Readiness(inspection, base), stack |-> inspection.dependencies]

Level(order, value) == CHOOSE i \in 0 .. Len(order) - 1 : order[i + 1] = value

\* requiredTierOf: what is undeclared weighs nothing.
RequiredScore(u, assessed) ==
    (IF assessed.difficulty \in {"trivial", "easy"} THEN 0
     ELSE Level(<<"easy", "medium", "hard">>, assessed.difficulty))
  + (IF u.complexity = "undeclared" THEN 0
     ELSE Level(<<"local", "multi_file", "subsystem", "cross_cutting">>, u.complexity))
  + (IF u.ambiguity = "undeclared" THEN 0
     ELSE Level(<<"low", "medium", "high">>, u.ambiguity))
  + (IF assessed.risk = "critical" THEN 4
     ELSE Level(<<"low", "medium", "high">>, assessed.risk))
  + Level(<<"low", "medium", "high">>, assessed.pressure)
  + Level(<<"strong", "partial", "weak">>, assessed.verification)
  + Level(<<"high", "medium", "low">>, assessed.confidence)
  + (IF assessed.review THEN 1 ELSE 0)
  + Level(<<"not_required", "preferred", "required">>, assessed.diversity)
  + (CASE u.class = "refactor" -> 1 [] u.class = "docs" -> -1 [] OTHER -> 0)

RequiredTier(u, assessed) ==
  LET score == RequiredScore(u, assessed)
  IN CASE score <= 1 -> "economy" [] score \in 2 .. 6 -> "intermediate" [] OTHER -> "advanced"

\* The facts a balance is made of; what nobody observed is zero or unknown.
NoFacts == [samples |-> <<>>, providerSamples |-> <<>>, launches |-> <<>>, headroom |-> <<>>]

Known(facts, key) == IF key \in DOMAIN facts THEN facts[key] ELSE 0

HeadroomOf(facts, c) ==
  IF c.pool \in DOMAIN facts.headroom THEN facts.headroom[c.pool] ELSE [status |-> "UNKNOWN"]

\* The loop of routeInitialProfile over its candidates: the code a candidate is
\* rejected with, or "none". "available" are the ids whose executable answered.
Rejection(c, available, role, required, facts) ==
  CASE c.id \notin available -> "PROFILE_UNAVAILABLE"
    [] c.id \in available /\ c.billing = "api" -> "API_BILLING_REQUIRES_EXPLICIT_SELECTION"
    [] c.id \in available /\ c.billing # "api" /\ c.roles[role] # "yes" -> "ROLE_INCOMPATIBLE"
    [] OTHER ->
         IF HeadroomOf(facts, c).status = "EXHAUSTED" THEN "QUOTA_POOL_EXHAUSTED"
         ELSE IF CapabilityTier(c) = "none" THEN "CAPABILITY_UNCLASSIFIED"
         ELSE IF TierOrder(CapabilityTier(c)) < TierOrder(required) THEN "CAPABILITY_INSUFFICIENT"
         ELSE "none"

\* Lexicographic order of two tuples of one length.
Before(left, right) ==
  \E i \in DOMAIN left :
    left[i] < right[i] /\ \A j \in 1 .. i - 1 : left[j] = right[j]

\* staticOrder.
StaticKey(c) == <<TierOrder(CapabilityTier(c))>> \o CapabilityCost(c) \o <<c.place>>

\* balancedSelection: the least sampled profile, then the least sampled provider,
\* then the provider least used by this run; headroom counts only when it was
\* observed for every alternative. Facts are indexed by the upstream provider.
BalanceKey(c, facts, measured) ==
  <<Known(facts.samples, c.id), Known(facts.providerSamples, c.provider),
    Known(facts.launches, c.provider),
    IF measured THEN -HeadroomOf(facts, c).left ELSE 0>>
  \o CapabilityCost(c) \o <<c.place>>

Balanced(entries, facts) ==
  LET measured == \A c \in entries : HeadroomOf(facts, c).status = "OBSERVED"
  IN CHOOSE c \in entries : \A other \in entries \ {c} :
       Before(BalanceKey(c, facts, measured), BalanceKey(other, facts, measured))

Blocked(blocker) == [outcome |-> "BLOCKED", blocker |-> blocker]
Routed(id)       == [outcome |-> "ROUTED", profile |-> id]

\* routeInitialProfile: of the least sufficient tier the static order or, under
\* the policy that balances evidence and with facts, the balance decides.
RouteInitial(u, assessed, role, candidates, available, balanced, facts) ==
  LET weighed  == IF balanced THEN facts ELSE NoFacts
      eligible == {c \in candidates :
                     Rejection(c, available, role, RequiredTier(u, assessed), facts) = "none"}
      first    == CHOOSE c \in eligible : \A other \in eligible \ {c} :
                    Before(StaticKey(c), StaticKey(other))
      least    == {c \in eligible : CapabilityTier(c) = CapabilityTier(first)}
  IN IF assessed.readiness # "READY" THEN Blocked("INSUFFICIENT_EVIDENCE")
     ELSE IF eligible = {} THEN Blocked("NO_ELIGIBLE_EXECUTOR")
     ELSE IF balanced THEN Routed(Balanced(least, weighed).id) ELSE Routed(first.id)

--------------------------------------------------------------------------------
(* history-router.ts. A series is what PerformanceHistory aggregates; each *)
(* metric is [size, value, of], the rate value / of over a sample of that  *)
(* size, "of" = 0 when nothing was recorded.                               *)

RequiredMetrics ==
  {"first_pass", "final_pass", "repair", "escalation", "duration", "tokens",
   "intervention", "qualified", "pressure"}
OptionalMetrics == {"quota", "cost"}
MaximizedMetrics == {"first_pass", "final_pass", "qualified", "pressure"}

\* available.
Sufficient(metric, minimum) == metric.of > 0 /\ metric.size >= minimum

\* utilityOf: every required metric, or no utility.
HasUtility(series, minimum) ==
  \A m \in RequiredMetrics : Sufficient(series.metrics[m], minimum)

\* compatibilityReason: the series speaks of this unit under this very profile.
Compatible(series, u, assessed, role, c, fingerprint) ==
  /\ series.comparable /\ series.initialEligible
  /\ series.fingerprint = fingerprint
  /\ assessed.stack
  /\ series.class = u.class /\ series.difficulty = assessed.difficulty
  /\ series.model = c.model /\ series.effort = c.effort
  /\ series.role = role /\ series.environment = c.environment
  /\ series.pressure = assessed.pressure /\ series.readiness = assessed.readiness

LessOrEqual(left, right) == left.value * right.of <= right.value * left.of

\* dominates, over the dimensions every eligible series recorded.
NoWorse(left, right, m) ==
  IF m \in MaximizedMetrics
  THEN LessOrEqual(right.metrics[m], left.metrics[m])
  ELSE LessOrEqual(left.metrics[m], right.metrics[m])

Dominates(left, right, metrics) ==
  /\ \A m \in metrics : NoWorse(left, right, m)
  /\ \E m \in metrics : ~NoWorse(right, left, m)

\* activeMinimizeDimensions.
ActiveMetrics(eligible, minimum) ==
  RequiredMetrics \cup
  {m \in OptionalMetrics : \A s \in eligible : Sufficient(s.metrics[m], minimum)}

\* routeInitialProfileWithHistory: history decides only when every profile that
\* could be launched has sufficient evidence and one series dominates alone;
\* any doubt falls back to the static router over the same input.
RouteWithHistory(u, assessed, role, candidates, available, balanced, facts, history, fingerprints, minimum) ==
  LET Alone(c, policy, weighed) ==
        RouteInitial(u, assessed, role, {c}, available, policy, weighed).outcome = "ROUTED"
      structural == {c \in candidates : Alone(c, balanced, facts)}
      Judged(c) == {s \in history : /\ s.profile = c.id
                                    /\ Compatible(s, u, assessed, role, c, fingerprints[c.id])
                                    /\ Alone(c, FALSE, NoFacts)}
      eligible == {s \in UNION {Judged(c) : c \in structural} : HasUtility(s, minimum)}
      Of(c) == {s \in eligible : s.profile = c.id}
      doubtful == \E c \in structural : Of(c) = {} \/ Judged(c) # Of(c)
      metrics == ActiveMetrics(eligible, minimum)
      frontier == {s \in eligible :
                     \A other \in eligible \ {s} : ~Dominates(other, s, metrics)}
  IN IF ~doubtful /\ Cardinality(frontier) = 1
     THEN [source |-> "HISTORY", result |-> Routed((CHOOSE s \in frontier : TRUE).profile)]
     ELSE [source |-> "FALLBACK",
           result |-> RouteInitial(u, assessed, role, candidates, available, balanced, facts)]

================================================================================
