------------------------------ MODULE ProviderGates ------------------------------
(***************************************************************************)
(* What is known of a provider before a process of it is started, which    *)
(* profile may plan or deliberate, what authorises a launch and what is    *)
(* read of the answer (dev/lib/planning-selection.ts, project-preflight.ts *)
(* and the roles of project-orchestrate.ts; src/src/planner/deliberation.ts *)
(* for the sequence of deliberators).                                      *)
(***************************************************************************)
EXTENDS Integers, Sequences, FiniteSets, SequencesExt

NotACandidate == 99

\* A profile of the policy. "cold" is its place in the fixed list of planners
\* preferred before any history, "pool" the quota it draws on.
Profiles ==
  [id : STRING, agent : {"claude", "codex", "opencode", "fake"}, provider : STRING,
   pool : STRING, billing : {"subscription", "api"}, rank : Nat,
   tier : {"none", "economy", "intermediate", "advanced"},
   planner : {"yes", "no", "unknown"}, cold : {0, 1, NotACandidate}, ownsCommit : BOOLEAN]

Facts == [credential : {"proven", "refused", "unknown"},
          quota : {"available", "exhausted", "unknown"}]

--------------------------------------------------------------------------------
(* project-preflight.ts.                                                   *)

\* credentialFactOf: the billing preflight verified the expected source, an API
\* key, or nothing.
CredentialFact(profile, probe) ==
  CASE profile.agent = "fake" \/ probe = "subscription" -> "proven"
    [] profile.agent # "fake" /\ probe = "api" -> "refused"
    [] OTHER -> "unknown"

\* quotaFactOf, of the fresh observation of the pool: only a declared exhaustion
\* says no, and nothing older stands in for an observation that is missing.
QuotaFact(observation) ==
  CASE observation = "EXHAUSTED" -> "exhausted"
    [] observation \in {"none", "UNKNOWN"} -> "unknown"
    [] OTHER -> "available"

\* headroomFromCapacity and currentQuotaHeadroom: the least of what the windows
\* leave, when a successful probe says any percentage at all.
Headroom(observation, remainders) ==
  CASE observation = "EXHAUSTED" -> [status |-> "EXHAUSTED"]
    [] observation = "KNOWN" /\ remainders # {} ->
         [status |-> "OBSERVED",
          left |-> CHOOSE r \in remainders : \A other \in remainders : r <= other]
    [] OTHER -> [status |-> "UNKNOWN"]

--------------------------------------------------------------------------------
(* planning-selection.ts.                                                  *)

\* planningIneligibilityReason: unknown compatibility or credential refuses,
\* unknown quota does not.
PlanningEligible(profile, facts, policy) ==
  /\ profile.id \in policy.profiles
  /\ profile.agent \in policy.agents
  /\ profile.billing \in policy.billing
  /\ profile.planner = "yes"
  /\ facts.credential = "proven"
  /\ facts.quota # "exhausted"

TierStrength(tier) ==
  CASE tier = "none" -> 0 [] tier = "economy" -> 1 [] tier = "intermediate" -> 2 [] OTHER -> 3

\* comparePlanningPreference: the fixed list, then the tier, then the rank.
Preferred(left, right) ==
  IF left.cold # right.cold THEN left.cold < right.cold
  ELSE IF TierStrength(left.tier) # TierStrength(right.tier)
  THEN TierStrength(left.tier) > TierStrength(right.tier)
  ELSE left.rank > right.rank

\* rankPlanningCandidates, of the profiles eligible by the facts just observed.
Ranked(profiles, facts, policy) ==
  SetToSortSeq({p \in profiles : PlanningEligible(p, facts[p], policy)}, Preferred)

\* selectPlanningProfile: a requested profile is used alone or refused.
SelectPlanning(profiles, facts, policy, requested) ==
  LET ranked == Ranked(profiles, facts, policy)
  IN IF requested = "none" THEN ranked
     ELSE SelectSeq(ranked, LAMBDA p : p.id = requested)

\* Failures of the platform move to the next profile; those of the draft do not.
RetryablePlanning ==
  {"PROVIDER_INVOCATION_FAILED", "PROVIDER_TERMINAL_FAILURE", "TRANSPORT_MALFORMED",
   "PLANNING_QUOTA_EXHAUSTED", "DELIBERATION_QUOTA_EXHAUSTED"}

RetryableDeliberation == RetryablePlanning \ {"PLANNING_QUOTA_EXHAUSTED"}

--------------------------------------------------------------------------------
(* project-orchestrate.ts.                                                 *)

\* authorizeProjectLaunch: the first check that does not allow decides. Only
\* an observed exhaustion is technical, every other refusal is a person's.
LaunchAuthorization(capability, boundary, implied, profile, facts) ==
  IF capability \notin boundary THEN "SCOPE_EXPANSION"
  ELSE IF implied # {} THEN "IMPLIED_HUMAN_GATED"
  ELSE IF profile.billing = "api" THEN "UNAUTHORIZED_API_BILLING"
  ELSE IF facts.quota = "exhausted" THEN "BLOCKED"
  ELSE IF facts.credential # "proven" THEN "NEW_CREDENTIAL_BOUNDARY"
  ELSE IF profile.ownsCommit THEN "PROFILE_OR_PROVIDER_OUTSIDE_POLICY"
  ELSE "ALLOW"

\* extractRoleModelJson, by the scaffold the profile runs: an agent without a
\* transport of its own is read as plain text, where every failure is prose.
Replies == {"object", "prose", "failed", "garbled"}

Extracted(agent, reply) ==
  CASE reply = "object" -> "EXTRACTED"
    [] reply = "failed" /\ agent \in {"claude", "codex"} -> "PROVIDER_TERMINAL_FAILURE"
    [] reply = "garbled" /\ agent # "fake" -> "TRANSPORT_MALFORMED"
    [] OTHER -> "NOT_PARSEABLE"

\* The launch of a planner or of a deliberator: the failure it reports, or "none"
\* when a value was extracted. "process" is what the provider process did.
LaunchFailure(profile, authorization, process) ==
  IF authorization = "BLOCKED" THEN "QUOTA_EXHAUSTED"
  ELSE IF authorization # "ALLOW" THEN "LAUNCH_HUMAN_REQUIRED"
  ELSE IF process = "refused" THEN "BILLING_PREFLIGHT_REFUSED"
  ELSE IF process = "threw" THEN "PROVIDER_INVOCATION_FAILED"
  ELSE IF Extracted(profile.agent, process) = "EXTRACTED" THEN "none"
  ELSE Extracted(profile.agent, process)

\* createLaunchedPlanningWorker: a turn the provider itself ended counts as an
\* invocation that failed.
PlanningFailure(profile, authorization, process) ==
  LET failure == LaunchFailure(profile, authorization, process)
  IN CASE failure = "QUOTA_EXHAUSTED" -> "PLANNING_QUOTA_EXHAUSTED"
       [] failure = "PROVIDER_TERMINAL_FAILURE" -> "PROVIDER_INVOCATION_FAILED"
       [] failure = "NOT_PARSEABLE" -> "DRAFT_NOT_PARSEABLE"
       [] OTHER -> failure

\* createLaunchedDeliberationWorker.
DeliberationFailure(profile, authorization, process) ==
  LET failure == LaunchFailure(profile, authorization, process)
  IN IF failure = "QUOTA_EXHAUSTED" THEN "DELIBERATION_QUOTA_EXHAUSTED" ELSE failure

--------------------------------------------------------------------------------
(* selectDeliberators.                                                     *)

Providers(candidates) ==
  LET first == {i \in DOMAIN candidates :
                  \A j \in 1 .. i - 1 : candidates[j].provider # candidates[i].provider}
      order == SetToSortSeq(first, LAMBDA i, j : i < j)
  IN [k \in DOMAIN order |-> candidates[order[k]].provider]

\* The rotation starts away from the planner's provider when it can.
Rotation(candidates, plannerProvider) ==
  LET others == SelectSeq(candidates, LAMBDA p : p.provider # plannerProvider)
      start == IF plannerProvider = "none" \/ others = <<>>
               THEN candidates[1].provider ELSE others[1].provider
  IN <<start>> \o SelectSeq(Providers(candidates), LAMBDA p : p # start)

\* The profile of each turn; several of one provider take turns among themselves.
Deliberators(candidates, turns, diverse, plannerProvider) ==
  LET rotation == Rotation(candidates, plannerProvider)
      InTurn(t) ==
        LET of == rotation[((t - 1) % Len(rotation)) + 1]
            pool == SelectSeq(candidates, LAMBDA p : p.provider = of)
        IN pool[(((t - 1) \div Len(rotation)) % Len(pool)) + 1]
  IN IF candidates = <<>> THEN <<>>
     ELSE IF ~diverse \/ Len(Providers(candidates)) < 2
     THEN [t \in 1 .. turns |-> candidates[((t - 1) % Len(candidates)) + 1]]
     ELSE [t \in 1 .. turns |-> InTurn(t)]

================================================================================
