-------------------------------- MODULE PlanGates --------------------------------
(***************************************************************************)
(* The gates a plan drafted by a model passes before anything of it is     *)
(* executed (src/src/planner): normalisation, decomposition, workflow,     *)
(* dependencies and the assessment of each unit. A draft is abstracted to  *)
(* what the gates read of it: a sequence of units with their identity,     *)
(* dependencies, taxonomy and envelope classes.                            *)
(***************************************************************************)
EXTENDS Integers, Sequences, FiniteSets, SequencesExt

Risks      == {"low", "medium", "high", "critical"}
Ambiguity  == {"undeclared", "low", "medium", "high"}
Complexity == {"undeclared", "local", "multi_file", "subsystem", "cross_cutting"}
Verifiable == {"undeclared", "deterministic", "partial", "subjective"}
Difficulty == <<"trivial", "easy", "medium", "hard">>

Classes    == {"feature", "refactor", "docs", "chore", "other"}

\* PlannedTask. "expected" and "most" bound the files of the change, "tokens" the
\* context it needs, in thousands.
Units ==
  [id : STRING, class : Classes, blockedBy : SUBSET STRING, acceptance : SUBSET STRING,
   areas : SUBSET STRING, files : Nat, expected : Nat, most : Nat, tokens : Nat,
   risk : Risks, ambiguity : Ambiguity, complexity : Complexity,
   verification : Verifiable, difficulty : Range(Difficulty),
   service : BOOLEAN, sourced : BOOLEAN, checks : {"none", "plain", "long", "shell"}]

\* ProjectInspection: the head git reports, or that git did not answer; whether
\* the dependencies, validation commands and anchors of the project were found.
Heads       == Nat
GitSilent   == -1
Inspections ==
  [git : Heads \cup {GitSilent}, permissions : {"unknown", "adequate", "inadequate"},
   dependencies : BOOLEAN, candidates : BOOLEAN, anchors : BOOLEAN]

IdsOf(units) == {units[i].id : i \in DOMAIN units}

--------------------------------------------------------------------------------
(* decomposition.ts and validate.ts.                                       *)

\* evaluateDecomposition: a risky unit whose rollback has no boundary.
MaxMaximumChangedFiles == 30
Atomic(u) == ~(u.risk \in {"high", "critical"} /\ u.most > MaxMaximumChangedFiles)

\* validateProtectedAcceptance: every objective appears verbatim in some unit.
CoversAcceptance(units, objectives) ==
  objectives \subseteq UNION {units[i].acceptance : i \in DOMAIN units}

\* validateProjectionCommands: no timeout over the ceiling, no shell.
PlainCommands(units) == \A i \in DOMAIN units : units[i].checks \in {"none", "plain"}

\* findPlanDependencyCycle. Of two units with one id the last one counts; a
\* dependency nobody declares is skipped.
DependenciesOf(units, id) ==
  LET last == CHOOSE i \in DOMAIN units :
                units[i].id = id /\ \A j \in i + 1 .. Len(units) : units[j].id # id
  IN units[last].blockedBy

Cyclic(units) ==
  \E knot \in SUBSET IdsOf(units) \ {{}} :
    \A id \in knot : DependenciesOf(units, id) \cap knot # {}

\* validatePlan.
ValidDependencies(units) ==
  /\ Cardinality(IdsOf(units)) = Len(units)
  /\ \A i \in DOMAIN units :
       units[i].blockedBy \subseteq IdsOf(units) \ {units[i].id}
  /\ ~Cyclic(units)

\* evaluateDirectAllowanceCriteria: what is undeclared satisfies nothing.
DirectCriteria(u) ==
  [narrow_context_scope         |-> Cardinality(u.areas) = 1,
   low_risk                     |-> u.risk = "low",
   low_ambiguity                |-> u.ambiguity = "low",
   known_initial_scope          |-> u.files > 0,
   bounded_context_scope        |-> Atomic(u),
   no_open_architecture_decision |-> u.complexity = "local",
   not_security_sensitive       |-> u.risk # "critical",
   no_external_side_effect      |-> ~u.service,
   no_wide_behavior_change      |-> u.complexity \in {"local", "multi_file"},
   deterministic_validation_known |-> u.verification = "deterministic",
   sufficient_source_of_truth   |-> u.sourced]

UnmetCriteria(u) == {c \in DOMAIN DirectCriteria(u) : ~DirectCriteria(u)[c]}

\* evaluateMinimalFactualPreflight.
MinimalFacts(inspection, base) ==
  /\ inspection.git = base
  /\ inspection.dependencies /\ inspection.permissions # "unknown"
  /\ inspection.candidates /\ inspection.anchors

\* detectMergeCandidates: a chain of two trivial units over the same areas.
Trivial(u) == Atomic(u) /\ u.expected <= 2 /\ u.tokens <= 20

Chained(u, dependency) ==
  /\ u.blockedBy = {dependency.id}
  /\ Trivial(u) /\ Trivial(dependency)
  /\ u.areas = dependency.areas

Mergeable(units, u) ==
  \E i \in DOMAIN units : Chained(u, units[i]) \/ Chained(units[i], u)

\* evaluatePlanWorkflow, of one unit.
Workflow(units, u, inspection, base) ==
  IF ~Atomic(u) THEN "DECOMPOSITION_REQUIRED"
  ELSE IF Mergeable(units, u) THEN "MERGE_RECOMMENDED"
  ELSE IF UnmetCriteria(u) = {} /\ MinimalFacts(inspection, base) THEN "DIRECT_ALLOWED"
  ELSE "REVIEWED_REQUIRED"

--------------------------------------------------------------------------------
(* assess.ts.                                                              *)

\* assessDifficulty: one level up when the taxonomy says the unit is not contained.
AssessedDifficulty(u) ==
  LET declared == CHOOSE i \in DOMAIN Difficulty : Difficulty[i] = u.difficulty
      escalated == \/ u.complexity \in {"cross_cutting", "subsystem"}
                   \/ u.ambiguity = "high"
                   \/ u.verification = "subjective"
  IN IF escalated /\ declared < Len(Difficulty)
     THEN Difficulty[declared + 1] ELSE u.difficulty

\* assessContextPressure.
ContextPressure(u) ==
  LET areas == Cardinality(u.areas)
  IN IF areas > 3 \/ u.tokens > 100 THEN "high"
     ELSE IF areas > 1 \/ u.tokens > 30 THEN "medium" ELSE "low"

\* assessEnvironmentReadinessChecks: of the eleven requirements only these can
\* be anything but satisfied.
ReadinessChecks(inspection, base) ==
  [repository_accessible |-> IF inspection.git = GitSilent THEN "unknown" ELSE "satisfied",
   base_revision_valid |->
     IF inspection.git = GitSilent THEN "unknown"
     ELSE IF inspection.git = base THEN "satisfied" ELSE "not_satisfied",
   git_state_known |-> IF inspection.git = GitSilent THEN "unknown" ELSE "satisfied",
   filesystem_permissions_adequate |->
     CASE inspection.permissions = "unknown" -> "unknown"
       [] inspection.permissions = "adequate" -> "satisfied"
       [] OTHER -> "not_satisfied"]

\* combineReadinessStatus.
Readiness(inspection, base) ==
  LET statuses == Range(ReadinessChecks(inspection, base))
  IN IF "not_satisfied" \in statuses THEN "NOT_READY"
     ELSE IF "unknown" \in statuses THEN "UNKNOWN" ELSE "READY"

\* assessVerificationStrength.
VerificationStrength(u, inspection) ==
  CASE u.verification = "subjective" \/ u.checks = "none" -> "weak"
    [] u.verification = "deterministic" /\ u.checks # "none" /\ inspection.candidates -> "strong"
    [] OTHER -> "partial"

\* assessConfidence: each kind of doubt costs a level.
Confidence(u, inspection, base) ==
  LET doubts == [facts    |-> "unknown" \in Range(ReadinessChecks(inspection, base)),
                 ready    |-> Readiness(inspection, base) = "NOT_READY",
                 taxonomy |-> "undeclared" \in {u.complexity, u.ambiguity, u.verification}]
      lost == Cardinality({d \in DOMAIN doubts : doubts[d]})
  IN CASE lost = 0 -> "high" [] lost = 1 -> "medium" [] OTHER -> "low"

\* assessReviewRequirement.
ReviewRequired(u, inspection, base) ==
  \/ u.risk = "critical"
  \/ VerificationStrength(u, inspection) = "weak"
  \/ Confidence(u, inspection, base) = "low"

DiversityRequired(u) ==
  CASE u.risk = "critical" -> "required" [] u.risk = "high" -> "preferred"
    [] OTHER -> "not_required"

--------------------------------------------------------------------------------
(* generate.ts.                                                            *)

\* validatePlannerDraft: the gate that refuses the draft, or "none". The policy
\* gate can only repeat the decomposition gate before it.
RejectedStage(draft, objectives, inspection, base) ==
  LET units == draft.units
  IN IF ~draft.wellFormed \/ ~CoversAcceptance(units, objectives) \/ ~PlainCommands(units)
     THEN "SCHEMA_NORMALIZATION"
     ELSE IF \E i \in DOMAIN units : ~Atomic(units[i]) THEN "AVC_DECOMPOSITION"
     ELSE IF \E i \in DOMAIN units :
               Workflow(units, units[i], inspection, base) = "DECOMPOSITION_REQUIRED"
     THEN "PLAN_POLICY"
     ELSE IF ~ValidDependencies(units) THEN "DEPENDENCY_VALIDATION"
     ELSE "none"

\* Stages whose rejection is sent back once for a complete replacement.
RevisionEligible == {"SCHEMA_NORMALIZATION", "AVC_DECOMPOSITION", "DEPENDENCY_VALIDATION"}

================================================================================
