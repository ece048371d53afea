---------------------------- MODULE EscalationLadder ----------------------------
(***************************************************************************)
(* What an exhausted repair is diagnosed as and what may be done about it  *)
(* (src/src/routing/diagnosis.ts), and the step of the configured ladder a *)
(* capability failure may climb to (src/src/routing/escalation.ts) within  *)
(* the autonomous boundary (src/src/intake) and past the billing guard     *)
(* (src/src/billing/guard.ts). Nothing here starts a process or keeps      *)
(* anything: the caller keeps the authorization.                           *)
(***************************************************************************)
EXTENDS Integers, Sequences, FiniteSets, SequencesExt

\* The two capabilities of the boundary a climb may need.
Climbs  == "CAPABILITY_ESCALATION_WITHIN_LADDER"
Crosses == "CROSS_PROVIDER_WITHIN_ALLOWED_SUBSCRIPTION_PROFILES"

--------------------------------------------------------------------------------
(* The autonomous boundary.                                                *)

LocalWorkspace == {"LOCAL_REPOSITORY_WRITE", "DEPENDENCY_NETWORK", "LOCAL_GIT_COMMITS"}

\* authorizeExecutionAction of an autonomous capability: the disposable workspace
\* stands for three of them, nothing else is implied.
Authorized(boundary, capability) ==
  \/ capability \in boundary
  \/ "DISPOSABLE_LOCAL_WORKSPACE" \in boundary /\ capability \in LocalWorkspace

--------------------------------------------------------------------------------
(* diagnosis.ts.                                                           *)

\* decideFailureIntervention: only a proved lack of capability may climb; a gap
\* without a primitive to close it and a failure nobody understands stop here.
Intervention(diagnosis, remediable) ==
  CASE diagnosis = "INFRA"                     -> "RETRY_INFRA_SAME_PROFILE"
    [] diagnosis = "ENVIRONMENT_NOT_READY"     -> "REMEDIATE_ENVIRONMENT"
    [] diagnosis = "TASK_DEFINITION_TOO_BROAD" -> "REPLAN_OR_DECOMPOSE"
    [] diagnosis = "CONTEXT_PRESSURE"          -> "RESCOPE_CONTEXT"
    [] diagnosis = "CAPABILITY"                -> "ESCALATION_ELIGIBLE"
    [] diagnosis = "VALIDATION_OR_TOOLING_GAP" /\ remediable -> "REPAIR_HARNESS_OR_TOOLING"
    [] OTHER -> "TECHNICAL_BLOCKER"

\* resolveFailureFollowUp: an environment that is not ready is put right before
\* anybody's capability is blamed.
FollowUp(diagnosis, environmentReady, remediable) ==
  IF environmentReady THEN Intervention(diagnosis, remediable) ELSE "REMEDIATE_ENVIRONMENT"

--------------------------------------------------------------------------------
(* guard.ts. A charge nobody measured is UnknownCharge, never zero.        *)

UnknownCharge == -1

\* decideExecutionAuthorization of a real inference. An unknown quota does not
\* block; anything else that is unknown does.
GuardBlocks(evidence) ==
  \/ ~evidence.wellFormed
  \/ evidence.authorization # "AUTHORIZED"
  \/ evidence.billing = "UNKNOWN"
  \/ evidence.quota = "INSUFFICIENT"
  \/ evidence.actual # UnknownCharge /\ ~evidence.authoritative
  \/ /\ evidence.billing = "API"
     /\ \/ evidence.budget = UnknownCharge
        \/ evidence.projected = UnknownCharge
        \/ evidence.projected > evidence.budget

\* escalationPreflightOf: the facts of a launch as the guard reads them. Of a
\* subscription no charge is projected, observed or budgeted.
Preflight(profile, facts) ==
  [provider   |-> IF facts.provider THEN "proven" ELSE "refused",
   credential |-> facts.credential,
   evidence   |->
     [wellFormed |-> TRUE,
      authorization |-> IF facts.provider THEN "AUTHORIZED" ELSE "DENIED",
      billing   |-> IF profile.billing = "subscription" THEN "SUBSCRIPTION" ELSE "NO_CHARGE",
      quota     |-> IF facts.quota = "exhausted" THEN "INSUFFICIENT" ELSE "UNKNOWN",
      projected |-> UnknownCharge, actual |-> UnknownCharge, authoritative |-> FALSE,
      budget    |-> UnknownCharge]]

\* unavailableStep.
Unavailable(preflight) ==
  \/ preflight.provider # "proven"
  \/ preflight.credential # "proven"
  \/ GuardBlocks(preflight.evidence)

--------------------------------------------------------------------------------
(* escalation.ts. A ladder is the sequence of its profiles by rank, the    *)
(* registry and the preflights are functions of the profiles they know.    *)

\* authorityFor: the power of the operator each of these stops asks for.
AuthorityFor(reason) ==
  CASE reason = "STEP_OUTSIDE_AUTHORIZED_LADDER" -> "PROFILE_OR_PROVIDER_OUTSIDE_POLICY"
    [] reason = "ESCALATION_NOT_AUTHORIZED" -> "SCOPE_EXPANSION"
    [] OTHER -> reason

\* blockerFor: what is broken, when no authorization would help.
BlockerFor(reason) ==
  CASE reason = "INVALID_ESCALATION_HISTORY" -> "INVALID_PROVENANCE"
    [] reason = "INSUFFICIENT_REGISTRY_EVIDENCE" -> "RUNTIME_CONFIGURATION_INVALID"
    [] OTHER -> "INSUFFICIENT_EVIDENCE"

Human(reason) ==
  [outcome |-> "HUMAN_REQUIRED", reason |-> reason, authority |-> AuthorityFor(reason)]
Technical(reason) ==
  [outcome |-> "TECHNICAL_BLOCKER", reason |-> reason, blocker |-> BlockerFor(reason)]

StepOf(ladder, profile) == SelectInSeq(ladder, LAMBDA p : p = profile)

\* currentProfileFromHistory: the earlier authorizations are one climb that
\* begins at the profile of the repair.
IsClimb(ladder, initial, prior) ==
  /\ initial \in ToSet(ladder)
  /\ \A i \in DOMAIN prior :
       LET from == IF i = 1 THEN initial ELSE prior[i - 1].to
           base == IF i = 1 THEN StepOf(ladder, initial) ELSE prior[i - 1].step
       IN /\ prior[i].from = from
          /\ prior[i].step \in DOMAIN ladder /\ ladder[prior[i].step] = prior[i].to
          /\ prior[i].step > base

CurrentProfile(initial, prior) == IF prior = <<>> THEN initial ELSE Last(prior).to

WithinPolicy(policy, profile, capability) ==
  profile \in policy.profiles /\ capability.agent \in policy.agents

\* What the decision finds at one step above the current one, in the order it
\* looks. The crossing that needs a capability is between scaffolds; a preflight
\* is required across them and honoured wherever there is one.
StepFate(profile, current, registry, policy, requested, preflights) ==
  LET capability == registry[profile]
      crosses == capability.agent # registry[current].agent
  IN IF ~WithinPolicy(policy, profile, capability)
       THEN "PROFILE_OR_PROVIDER_OUTSIDE_POLICY"
     ELSE IF capability.billing \notin policy.billing
       THEN IF capability.billing = "api" THEN "UNAUTHORIZED_API_BILLING"
            ELSE "PROFILE_OR_PROVIDER_OUTSIDE_POLICY"
     ELSE IF capability.billing = "api" /\ requested # profile
       THEN "discarded"
     ELSE IF crosses /\ ~Authorized(policy.boundary, Crosses)
       THEN "ESCALATION_NOT_AUTHORIZED"
     ELSE IF profile \in DOMAIN preflights
       THEN IF Unavailable(preflights[profile]) THEN "discarded" ELSE "available"
     ELSE IF crosses THEN "discarded" ELSE "available"

\* EscalationAuthorization. Independence is judged by the upstream provider, so
\* it may name a capability the crossing of scaffolds above never asked for.
Authorization(ladder, registry, current, step) ==
  LET from == registry[current]
      to == registry[ladder[step]]
  IN [outcome |-> "ESCALATE", from |-> current, to |-> ladder[step], step |-> step,
      sharesPool |-> from.pool = to.pool,
      scope |-> {Climbs} \cup (IF from.provider # to.provider THEN {Crosses} ELSE {})]

\* The first step above the current one that is not discarded decides; a
\* requested one is not reached over a step that is available.
NextStep(ladder, current, registry, policy, requested, preflights) ==
  LET Fate(i) == StepFate(ladder[i], current, registry, policy, requested, preflights)
      above == SelectInSeq(ladder, LAMBDA p :
                 /\ StepOf(ladder, p) > StepOf(ladder, current)
                 /\ Fate(StepOf(ladder, p)) # "discarded")
      wanted == StepOf(ladder, requested)
  IN IF above = 0 THEN Human("SAFE_ESCALATION_EXHAUSTED")
     ELSE IF Fate(above) # "available" THEN Human(Fate(above))
     ELSE IF wanted > above THEN Human("STEP_OUTSIDE_AUTHORIZED_LADDER")
     ELSE IF wanted # 0 /\ wanted < above THEN Human("SAFE_ESCALATION_EXHAUSTED")
     ELSE Authorization(ladder, registry, current, above)

\* decideEscalation. "requested" is no profile of the ladder when nobody asked.
DecideEscalation(diagnosis, sequence, ladder, registry, policy, prior, asked, requested, preflights) ==
  LET current == CurrentProfile(sequence.repair, prior)
      at == StepOf(ladder, current)
  IN IF sequence.initial # sequence.repair THEN Technical("INVALID_REPAIR_SEQUENCE")
     ELSE IF Intervention(diagnosis, FALSE) = "TECHNICAL_BLOCKER"
       THEN Technical("DIAGNOSIS_NOT_ACTIONABLE")
     ELSE IF Intervention(diagnosis, FALSE) # "ESCALATION_ELIGIBLE"
       THEN [outcome |-> "NO_ESCALATION", reason |-> diagnosis]
     ELSE IF ~(ToSet(ladder) \subseteq DOMAIN registry)
       THEN Technical("INSUFFICIENT_REGISTRY_EVIDENCE")
     ELSE IF ~IsClimb(ladder, sequence.repair, prior)
       THEN Technical("INVALID_ESCALATION_HISTORY")
     ELSE IF at = Len(ladder) THEN Human("SAFE_ESCALATION_EXHAUSTED")
     ELSE IF asked /\ StepOf(ladder, requested) <= at
       THEN Human("STEP_OUTSIDE_AUTHORIZED_LADDER")
     ELSE IF ~WithinPolicy(policy, current, registry[current])
       THEN Human("PROFILE_OR_PROVIDER_OUTSIDE_POLICY")
     ELSE IF ~Authorized(policy.boundary, Climbs) THEN Human("ESCALATION_NOT_AUTHORIZED")
     ELSE NextStep(ladder, current, registry, policy, requested, preflights)

================================================================================
