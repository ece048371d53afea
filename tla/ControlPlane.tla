------------------------------ MODULE ControlPlane ------------------------------
(***************************************************************************)
(* The project control plane of one invocation (createProjectControlPlane, *)
(* src/dev/lib/project-run.ts) and the escalation it decides               *)
(* (src/src/routing/escalation.ts). All of it is the memory of one         *)
(* process: nothing here survives the invocation.                          *)
(***************************************************************************)
EXTENDS RepairPolicy

Ladder  == INSTANCE EscalationLadder
Reviews == INSTANCE CandidateReview

CONSTANTS
  Catalog,  \* the capability of each profile of the policy
  File      \* the authorization file: its boundary, its agents and billing modes

ASSUME ControlPlaneAssumption ==
  /\ DOMAIN Catalog = Profiles
  /\ \A p \in Profiles :
       /\ Catalog[p].billing \in {"subscription", "api", "none"}
       /\ {"agent", "provider", "pool", "billing"} \subseteq DOMAIN Catalog[p]
  /\ "api" \notin File.billing

VARIABLE run  \* the invocation that holds the lock, and its control plane

NoProfile == 0

\* The memory a new invocation starts with.
NewMemory ==
  [needs     |-> [t \in Tasks |-> FALSE],      \* reviewRequirementByTask
   escalated |-> [t \in Tasks |-> NoProfile],  \* escalatedProfileByTask
   prior     |-> <<>>,                         \* priorAuthorizations
   refused   |-> "none"]                       \* blockedReview, then controlPlaneHalt

\* publishHalt: a stop names an authority or a technical blocker, never neither.
Human     == "HUMAN_REQUIRED"
Technical == "BLOCKED"

--------------------------------------------------------------------------------
(* beforeWorkUnit.                                                         *)

\* focusedReviewScopeFor: the latest rejection no later candidate answered. An
\* attempt that ended otherwise in between does not resolve it.
UnansweredReject(t) == \E a \in 1 .. Attempts(t) : "review" \in Closed(t, a)

\* The pin of the repair, or the profile of the escalation, unless its pool is spent.
Pin(t, requested, spent) ==
  LET pin == IF requested = NoProfile THEN run.escalated[t] ELSE requested
  IN IF pin \in spent THEN NoProfile ELSE pin

\* The profiles the work unit can be routed to when these pools are spent.
Eligible(t, requested, spent) ==
  LET pin == Pin(t, requested, spent)
  IN IF pin = NoProfile THEN Profiles \ spent ELSE {pin}

\* assessWorkUnit's review requirement for the candidate of the coming attempt.
NeedsReview(t, policyAsks) == policyAsks \/ UnansweredReject(t)

Assessed(t, policyAsks) ==
  [run EXCEPT !.refused = "none", !.needs[t] = NeedsReview(t, policyAsks)]

--------------------------------------------------------------------------------
(* onRepairExhausted: diagnosis, one step of the ladder, official reopening. *)

\* diagnoseExhaustedRepair: two failures of the same profile prove capability.
CapabilityProved(t) ==
  LET n == Attempts(t)
  IN /\ Status(t) = "FAIL" /\ n >= 2
     /\ "validation" \in Closed(t, n - 1)
     /\ RanBy(t, n - 1) = RanBy(t, n)

\* What the diagnosis can say: absence of proof is never promoted to capability.
Diagnosis(t) == IF CapabilityProved(t) THEN "CAPABILITY" ELSE "UNKNOWN_INSUFFICIENT_EVIDENCE"

\* The ladder is the policy by rank, and the policy allows exactly its profiles.
LadderPolicy ==
  [profiles |-> Profiles, boundary |-> File.boundary, agents |-> File.agents,
   billing |-> File.billing]

\* launchFactsFor every step, over one observation of the pools of the ladder: the
\* credentials are in order and a pool is known to be exhausted or not known.
LaunchFacts(spent) ==
  [p \in Profiles |->
     [provider |-> TRUE, credential |-> "proven",
      quota |-> IF p \in spent THEN "exhausted" ELSE "unknown"]]

Preflights(spent) == [p \in Profiles |-> Ladder!Preflight(Catalog[p], LaunchFacts(spent)[p])]

\* onRepairExhausted up to the reopening. The profile recorded of the attempt
\* before stands in for both attempts of the repair sequence.
Escalation(t, spent) ==
  LET initial == RanBy(t, Attempts(t) - 1)
      decision == Ladder!DecideEscalation(Diagnosis(t),
                    [initial |-> initial, repair |-> initial],
                    [p \in Profiles |-> p], Catalog, LadderPolicy, run.prior,
                    FALSE, NoProfile, Preflights(spent))
  IN IF Ladder!FollowUp(Diagnosis(t), TRUE, FALSE) # "ESCALATION_ELIGIBLE"
       THEN [outcome |-> Technical]
     ELSE IF NumProfiles < 2 THEN [outcome |-> Human]
     ELSE IF decision.outcome \in {"TECHNICAL_BLOCKER", "NO_ESCALATION"}
       THEN [outcome |-> Technical]
     ELSE decision

\* What an authorization leaves in the memory of the invocation.
Escalate(next, t, e) ==
  [next EXCEPT !.prior = Append(@, [from |-> e.from, to |-> e.to, step |-> e.step]),
               !.escalated[t] = e.to]

--------------------------------------------------------------------------------
(* The review of a candidate that is prepared and validated.               *)

\* inspectPendingAcceptance: a candidate that owes a review.
PendingCandidates ==
  {t \in Tasks : Status(t) = "RUNNING" /\ task[t].phase = "candidate" /\ task[t].owed}

Verdicts == {"ACCEPT", "DEFECT", "HUMAN"}

\* The mode of the requirement beforeWorkUnit made for the candidate.
ReviewMode(t) == IF UnansweredReject(t) THEN "FOCUSED_REREVIEW" ELSE "GENERAL"

\* What each reviewer may come to once it is launched.
ReviewerSays ==
  [p \in Profiles, mode \in Reviews!ReviewModes |-> Reviews!Invoked(Catalog[p].agent, mode)]

\* The reviewer is the one the file declares or the implementer; the risk of the
\* work unit asks for diversity, the pools and the catalog are read afresh.
ReviewRequests(implementer) ==
  [policy : {Profiles}, implementer : {implementer}, pinned : Profiles,
   diversity : {"required", "preferred", "not_required"},
   exhausted : SUBSET Profiles, known : SUBSET Profiles]

\* The launches of a review over one observation of the pools. No worker of a
\* project owns its commit.
ReviewLaunches(request, says) ==
  LET facts == LaunchFacts(request.exhausted)
      Authorization(p) ==
        Reviews!Gates!LaunchAuthorization("CONFIGURED_SUBSCRIPTION_WORKER", File.boundary, {},
          [billing |-> Catalog[p].billing, ownsCommit |-> FALSE], facts[p])
  IN [p \in Profiles |-> Reviews!Launched(p, request, Authorization(p), says[p])]

\* All the review of a candidate may come to, whatever failures of reviewers
\* earlier invocations have recorded for its attempt.
ReviewOutcomes ==
  [implementer \in Profiles, mode \in Reviews!ReviewModes |->
     LET said == {says \in [Profiles -> UNION {ReviewerSays[p, mode] : p \in Profiles}] :
                    \A p \in Profiles : says[p] \in ReviewerSays[p, mode]}
     IN {Reviews!Reviewed(request, failed, ReviewLaunches(request, says)) :
           request \in ReviewRequests(implementer), failed \in SUBSET Profiles, says \in said}]

Outcomes(t) == ReviewOutcomes[RanBy(t, Attempts(t)), ReviewMode(t)]

\* The kind of the stop a review that could not be concluded is.
StopOf(outcome) == IF outcome \in Reviews!NeedsAuthority THEN Human ELSE Technical

\* reviewBlocked: the stop afterWorkUnit will propagate.
Refuse(kind) == [run EXCEPT !.refused = kind]

\* How a durable verdict is read again: only a defect is left to the repair.
OnVerdict(t) ==
  IF task[t].verdict = "HUMAN" THEN Refuse(Human) ELSE run

\* reconcilePendingReviewRejection of a candidate rejected for a defect.
ReopensRejected(t) ==
  task[t].verdict = "DEFECT" /\ Ladder!Authorized(File.boundary, "BOUNDED_REPAIR")
================================================================================
