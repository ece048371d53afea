----------------------------- MODULE CandidateReview -----------------------------
(***************************************************************************)
(* How the review of a prepared candidate comes to a verdict: what one     *)
(* answer of a reviewer is worth, how one reviewer is launched and asked   *)
(* again (project-orchestrate.ts), who reviews while reviewers fail        *)
(* (reviewer-capacity.ts) and what is left when nobody can                 *)
(* (reviewValidatedCandidate of project-run.ts).                           *)
(***************************************************************************)
EXTENDS Integers, FiniteSets

Gates == INSTANCE ProviderGates

--------------------------------------------------------------------------------
(* Findings. What is found says whether it may block at all, what it is    *)
(* about whether it may block here.                                        *)

ReviewModes == {"GENERAL", "FOCUSED_REREVIEW"}

\* "repair" stands for the four relationships a focused review asks about.
Relationships == {"candidate", "repair", "unrelated"}

InScope(mode) == IF mode = "GENERAL" THEN {"candidate", "repair"} ELSE {"repair"}

Finding == [capable : BOOLEAN, about : Relationships]

IsBlockingFinding(finding, mode) == finding.capable /\ finding.about \in InScope(mode)

--------------------------------------------------------------------------------
(* assessExtractedReviewerVerdict and the schema of the record.            *)

\* Only a defect of the implementation is told from the other dispositions.
Dispositions == {"IMPLEMENTATION_DEFECT", "HUMAN_DECISION"}

\* A coverage that cannot be read; one that answers a gap twice or a gap nobody
\* declared; one without files, validations or one of the gaps; a whole one.
Coverages == {"unreadable", "alien", "short", "whole"}

\* A JSON object of a reviewer. A list that is absent or malformed is not "listed".
Answers ==
  [decision : {"ACCEPT", "REJECT", "unreadable"},
   disposition : {"absent", "unknown"} \cup Dispositions, reason : BOOLEAN,
   coverage : Coverages, listed : BOOLEAN, findings : SUBSET Finding]

Blocks(a, mode) == a.listed /\ \E f \in a.findings : IsBlockingFinding(f, mode)

DefectReject(a) == a.decision = "REJECT" /\ a.disposition = "IMPLEMENTATION_DEFECT"
NamesNothing(a) == DefectReject(a) /\ a.listed /\ a.findings = {}
AdvisoryOnly(a, mode) ==
  DefectReject(a) /\ a.listed /\ a.findings # {} /\ ~Blocks(a, mode)

\* A rejection that lists only advice has rejected nothing.
Decision(a, mode) == IF AdvisoryOnly(a, mode) THEN "ACCEPT" ELSE a.decision

Unusable(a, mode) ==
  \/ Decision(a, mode) = "unreadable"
  \/ ~a.reason
  \/ Decision(a, mode) = "REJECT" /\ a.disposition \notin Dispositions
  \/ a.decision = "ACCEPT" /\ a.disposition # "absent"
  \/ NamesNothing(a)
  \/ Decision(a, mode) = "ACCEPT" /\ Blocks(a, mode)

NeedsCorrection(a, mode) ==
  Unusable(a, mode) \/ (Decision(a, mode) = "ACCEPT" /\ a.coverage = "unreadable")

\* CandidateReviewRecord refuses what would be written of a usable answer.
SchemaRefuses(a, mode) ==
  \/ Decision(a, mode) = "ACCEPT" /\ Blocks(a, mode)
  \/ Decision(a, mode) = "REJECT" /\ NamesNothing(a)
  \/ a.coverage = "alien"
  \/ Decision(a, mode) = "ACCEPT" /\ a.coverage # "whole"

Verdict(a, mode) ==
  CASE Unusable(a, mode) -> "REVIEW_VERDICT_NOT_PARSEABLE"
    [] ~Unusable(a, mode) /\ SchemaRefuses(a, mode) -> "REVIEW_COVERAGE_INSUFFICIENT"
    [] OTHER -> IF Decision(a, mode) = "ACCEPT" THEN "ACCEPT"
                ELSE IF a.disposition = "IMPLEMENTATION_DEFECT" THEN "DEFECT" ELSE "HUMAN"

--------------------------------------------------------------------------------
(* launchProjectReviewer.                                                  *)

\* What becomes of an invocation that returns no object: the first reply ends it.
Unanswered(agent, process) ==
  IF process = "threw"
     \/ Gates!Extracted(agent, process) \in {"PROVIDER_TERMINAL_FAILURE", "TRANSPORT_MALFORMED"}
    THEN "REVIEW_INVOCATION_FAILED"
    ELSE "REVIEW_VERDICT_NOT_PARSEABLE"

\* All one reviewer may come to: an answer that needs a correction is asked for
\* once more, in a new context, and what the second invocation brings stands.
Invoked(agent, mode) ==
  LET mute == {Unanswered(agent, process) : process \in {"threw", "failed", "garbled", "prose"}}
      second == mute \cup {Verdict(a, mode) : a \in Answers}
  IN {"REVIEW_BILLING_PREFLIGHT_REFUSED"} \cup mute
       \cup UNION {IF NeedsCorrection(a, mode) THEN second ELSE {Verdict(a, mode)} : a \in Answers}

\* The gates before the process, in their order, and what the reviewer then says.
Launched(reviewer, request, authorization, said) ==
  CASE request.diversity = "required" /\ reviewer = request.implementer
         -> "REVIEW_DIVERSITY_REQUIRED"
    [] authorization = "BLOCKED" -> "REVIEW_LAUNCH_QUOTA_EXHAUSTED"
    [] authorization \notin {"ALLOW", "BLOCKED"} -> "REVIEW_LAUNCH_HUMAN_REQUIRED"
    [] OTHER -> said

--------------------------------------------------------------------------------
(* selectReviewerProfileForFreshCapacity. Profiles are numbers in the order *)
(* of their rank; a request names the pinned reviewer, the implementer, the *)
(* diversity asked for and the profiles whose pool is exhausted.           *)

Nobody == 0

\* "out" are the profiles a failed invocation has excluded.
EligibleReviewers(request, out) ==
  {p \in request.policy \ (out \cup request.exhausted) :
     request.diversity = "required" => p # request.implementer}

SelectReviewer(request, out) ==
  LET able == EligibleReviewers(request, out)
  IN IF request.pinned \in able THEN request.pinned
     ELSE IF able = {} THEN Nobody
     ELSE CHOOSE p \in able : \A q \in able : p <= q

\* Why nobody is left.
Cause(request, out) ==
  IF out # {} THEN "ALL_CANDIDATES_FAILED_INFRA"
  ELSE IF request.diversity = "required" THEN "DIVERSITY_POLICY_HAS_NO_ALTERNATIVE"
  ELSE "ALL_POOLS_EXHAUSTED"

--------------------------------------------------------------------------------
(* reviewValidatedCandidate.                                               *)

\* isRetryableReviewerUnavailability: the next reviewer of the policy is tried.
Retryable == {"REVIEW_INVOCATION_FAILED", "REVIEW_DIVERSITY_REQUIRED"}

\* What the review of a candidate comes to. "failed" are the reviewers whose
\* failed invocation is on record for this attempt, "known" the profiles the
\* catalog could load, "launch" says what launching each reviewer comes to.
Reviewed(request, failed, launch) ==
  LET settle[out \in SUBSET request.policy] ==
        LET p == SelectReviewer(request, out)
        IN IF p = Nobody
             THEN IF out # failed THEN "REVIEW_INVOCATION_FAILED" ELSE Cause(request, out)
           ELSE IF p \notin request.known THEN "REVIEW_PROFILE_OUTSIDE_POLICY"
           ELSE IF launch[p] \in Retryable THEN settle[out \cup {p}]
           ELSE launch[p]
  IN settle[failed]

\* What only a person can put right; everything else is a technical stop.
NeedsAuthority ==
  {"REVIEW_LAUNCH_HUMAN_REQUIRED", "REVIEW_PROFILE_OUTSIDE_POLICY",
   "DIVERSITY_POLICY_HAS_NO_ALTERNATIVE"}
================================================================================
