-------------------------- MODULE CandidateReviewProofs --------------------------
(***************************************************************************)
(* What no answer of a reviewer can do, and who can never be the reviewer. *)
(* Both hold of every answer and of every request: no run and no catalog   *)
(* is involved.                                                            *)
(***************************************************************************)
EXTENDS CandidateReview, WellFoundedInduction, TLAPS

--------------------------------------------------------------------------------
(* Verdicts.                                                               *)

\* A usable answer that accepts lists nothing that blocks in this mode, whether
\* it said ACCEPT or a rejection without substance was turned into one.
LEMMA UsableAccept ==
  ASSUME NEW mode \in ReviewModes, NEW a \in Answers, ~Unusable(a, mode),
         Decision(a, mode) = "ACCEPT"
  PROVE  a.reason /\ ~Blocks(a, mode)
  BY DEF Unusable

\* A usable rejection for a defect that lists findings lists one that blocks.
LEMMA UsableDefect ==
  ASSUME NEW mode \in ReviewModes, NEW a \in Answers, ~Unusable(a, mode),
         Decision(a, mode) = "REJECT", a.disposition = "IMPLEMENTATION_DEFECT", a.listed
  PROVE  Blocks(a, mode)
<1>1. DefectReject(a)
  <2>1. a.decision = "REJECT"
    BY DEF Decision
  <2> QED
    BY <2>1 DEF DefectReject
<1>2. a.findings # {}
  BY <1>1 DEF Unusable, NamesNothing
<1>3. ~AdvisoryOnly(a, mode)
  BY DEF Decision
<1> QED
  BY <1>1, <1>2, <1>3 DEF AdvisoryOnly

\* An ACCEPT that is kept has a reason and a whole coverage and names nothing that
\* blocks; a defect that is kept and lists findings names one that does, which is
\* what the repair and the focused review take their scope from
\* (assessExtractedReviewerVerdict and CandidateReviewRecord).
THEOREM VerdictsAreEarned ==
  ASSUME NEW mode \in ReviewModes, NEW a \in Answers
  PROVE  /\ Verdict(a, mode) = "ACCEPT" => a.reason /\ a.coverage = "whole" /\ ~Blocks(a, mode)
         /\ Verdict(a, mode) = "DEFECT" /\ a.listed => Blocks(a, mode)
<1>1. ASSUME Verdict(a, mode) = "ACCEPT"
      PROVE  a.reason /\ a.coverage = "whole" /\ ~Blocks(a, mode)
  <2>1. ~Unusable(a, mode) /\ ~SchemaRefuses(a, mode) /\ Decision(a, mode) = "ACCEPT"
    BY <1>1 DEF Verdict
  <2> QED
    BY <2>1, UsableAccept DEF SchemaRefuses
<1>2. ASSUME Verdict(a, mode) = "DEFECT", a.listed
      PROVE  Blocks(a, mode)
  <2>1. /\ ~Unusable(a, mode) /\ Decision(a, mode) # "ACCEPT"
        /\ a.disposition = "IMPLEMENTATION_DEFECT"
    BY <1>2 DEF Verdict
  <2>2. Decision(a, mode) = "REJECT"
    BY <2>1 DEF Unusable, Decision, Answers
  <2> QED
    BY <1>2, <2>1, <2>2, UsableDefect
<1> QED
  BY <1>1, <1>2

\* The schema of the record has nothing left to refuse in a usable answer but its
\* coverage: what assessExtractedReviewerVerdict lets pass is a record otherwise.
THEOREM SchemaRefusesCoverageOnly ==
  ASSUME NEW mode \in ReviewModes, NEW a \in Answers,
         ~Unusable(a, mode), a.coverage = "whole"
  PROVE  ~SchemaRefuses(a, mode)
<1>1. ~(Decision(a, mode) = "ACCEPT" /\ Blocks(a, mode))
  BY UsableAccept
<1>2. ~NamesNothing(a)
  BY DEF Unusable
<1> QED
  BY <1>1, <1>2 DEF SchemaRefuses

--------------------------------------------------------------------------------
(* Reviewers.                                                              *)

LEMMA LeastRank ==
  ASSUME NEW able \in SUBSET Nat, able # {}
  PROVE  \E p \in able : \A q \in able : p <= q
<1>1. IsWellFoundedOn(OpToRel(<, Nat), Nat)
  BY NatLessThanWellFounded
<1>2. PICK p \in able : \A q \in able : ~(<<q, p>> \in OpToRel(<, Nat))
  BY <1>1, WFMin
<1>3. ASSUME NEW q \in able PROVE p <= q
  <2>1. ~(q < p)
    BY <1>2 DEF OpToRel
  <2> QED
    BY <2>1
<1> QED
  BY <1>2, <1>3

\* Whoever is selected belongs to the policy, has not failed, has a pool that is
\* not exhausted and, where the requirement asks for diversity, did not implement
\* the candidate; and nobody is selected only when no such profile exists
\* (selectReviewerProfileForFreshCapacity).
THEOREM ReviewerIsEligible ==
  ASSUME NEW request, request.policy \in SUBSET (Nat \ {Nobody}), NEW out
  PROVE  LET p == SelectReviewer(request, out)
         IN /\ p # Nobody => /\ p \in request.policy \ (out \cup request.exhausted)
                             /\ request.diversity = "required" => p # request.implementer
            /\ p = Nobody => EligibleReviewers(request, out) = {}
<1> DEFINE able == EligibleReviewers(request, out)
<1>1. able \in SUBSET Nat /\ Nobody \notin able
  BY DEF EligibleReviewers, Nobody
<1>2. IF able = {} THEN SelectReviewer(request, out) = Nobody
                   ELSE SelectReviewer(request, out) \in able
  <2>1. CASE able = {}
    BY <2>1 DEF SelectReviewer
  <2>2. CASE able # {}
    <3>1. (CHOOSE p \in able : \A q \in able : p <= q) \in able
      BY <1>1, <2>2, LeastRank
    <3> QED
      BY <2>2, <3>1 DEF SelectReviewer
  <2> QED
    BY <2>1, <2>2
<1> QED
  BY <1>1, <1>2 DEF EligibleReviewers
================================================================================
