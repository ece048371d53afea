------------------------------ MODULE RepairPolicy ------------------------------
(***************************************************************************)
(* The one bounded automatic repair of a task and the human grant of one   *)
(* more (src/dev/lib/automatic-repair.ts), read from the records that      *)
(* close the task's earlier attempts and from nothing else.                *)
(***************************************************************************)
EXTENDS Integers, Sequences, FiniteSets, FiniteSetsExt

CONSTANTS
  NumTasks,
  NumProfiles,   \* the profiles of the policy, in ladder order
  MaxAttempts    \* bound on the attempts of each task

ASSUME PolicyAssumption ==
  /\ NumTasks \in Nat \ {0}
  /\ NumProfiles \in Nat \ {0}

Tasks    == 1 .. NumTasks
Profiles == 1 .. NumProfiles

ASSUME MaxAttemptsAssumption == MaxAttempts \in [Tasks -> Nat \ {0}]

VARIABLES
  task,    \* per task: status, phase, the close's evidence and its attempts
  grants   \* per task: the attempts that consumed each grant, 0 while unused

NoVerdict == "none"

NewTask == [status |-> "READY", phase |-> "none", output |-> "none",
            official |-> FALSE, owed |-> FALSE, verdict |-> NoVerdict,
            runs |-> <<>>]

Attempts(t) == Len(task[t].runs)
Status(t)   == task[t].status
RanBy(t, a) == task[t].runs[a].profile
Closed(t, a) == task[t].runs[a].closed

--------------------------------------------------------------------------------
(* Walking the archived attempts back to the last abandonment.             *)

Capability == {"validation", "review"}

\* Where the walk stops: an abandonment, or an attempt it cannot read as one record.
StopsWalk(t, a) == Cardinality(Closed(t, a)) # 1 \/ Closed(t, a) = {"abandoned"}

LastStop(t, n) == Max({a \in 1 .. n : StopsWalk(t, a)} \cup {0})

WalkStatus(t, n) ==
  LET stop == LastStop(t, n)
  IN IF stop = 0 \/ Closed(t, stop) = {"abandoned"} THEN "ok"
     ELSE IF Closed(t, stop) = {} THEN "HISTORICAL_GAP"
     ELSE "INCONSISTENT_EVIDENCE"

\* The capability-bearing failures the walk connects, oldest first by attempt.
Failures(t, n) ==
  {a \in LastStop(t, n) + 1 .. n : Closed(t, a) \cap Capability # {}}

--------------------------------------------------------------------------------
(* decideAutomaticRepair.                                                  *)

NotApplicable == [action |-> "NOT_APPLICABLE"]
Exhausted     == [action |-> "REPAIR_EXHAUSTED"]
Blocked(code) == [action |-> "BLOCKED", code |-> code]
Allowed(t, source, archival) ==
  [action |-> "REPAIR_ALLOWED", source |-> source, profile |-> RanBy(t, source),
   archival |-> archival, granted |-> FALSE]

\* allowedFromRecords: one failure may be repaired, two have consumed the repair.
FromFailures(t, failures, archival) ==
  IF Cardinality(failures) >= 2 THEN Exhausted
  ELSE IF failures = {} THEN NotApplicable
  ELSE Allowed(t, Min(failures), archival)

FromUnarchivedFailAlone(t) ==
  CASE ~task[t].official -> NotApplicable
    [] WalkStatus(t, Attempts(t) - 1) # "ok" -> Blocked(WalkStatus(t, Attempts(t) - 1))
    [] OTHER -> Allowed(t, Attempts(t), TRUE)

\* A FAIL that is not history yet: the worker said SUCCESS, the gate said no.
FromUnarchivedFail(t) ==
  LET earlier == Attempts(t) - 1
  IN IF ~task[t].official THEN NotApplicable
     ELSE IF WalkStatus(t, earlier) # "ok" THEN Blocked(WalkStatus(t, earlier))
     ELSE IF Failures(t, earlier) # {} THEN Exhausted
     ELSE Allowed(t, Attempts(t), TRUE)

\* The records of the current attempt decide before its completion does. The
\* rejection of a review is not among those this branch reads.
FromFail(t) ==
  LET now == Closed(t, Attempts(t)) \ {"review"}
      earlier == Attempts(t) - 1
  IN IF Cardinality(now) > 1 THEN Blocked("INCONSISTENT_EVIDENCE")
     ELSE IF now \cap {"abandoned", "operational"} # {} THEN NotApplicable
     ELSE IF now = {} THEN FromUnarchivedFail(t)
     ELSE IF WalkStatus(t, earlier) # "ok" THEN Blocked(WalkStatus(t, earlier))
     ELSE FromFailures(t, Failures(t, earlier) \cup {Attempts(t)}, TRUE)

\* READY with two official failures exists only after a human dev-retry-failed.
FromReady(t) ==
  LET n == Attempts(t)
      failures == Failures(t, n)
      rejected == \E a \in failures : "review" \in Closed(t, a)
  IN IF WalkStatus(t, n) # "ok" THEN Blocked(WalkStatus(t, n))
     ELSE IF Cardinality(failures) >= 2
       THEN IF rejected THEN Exhausted ELSE NotApplicable
     ELSE FromFailures(t, failures, FALSE)

DecideCore(t) ==
  IF Status(t) \in {"RUNNING", "PASS", "TIMED_OUT", "INFRA_ERROR"} THEN NotApplicable
  ELSE IF Status(t) = "FAIL"
    THEN IF Attempts(t) < 1 THEN NotApplicable ELSE FromFail(t)
  ELSE FromReady(t)

\* A grant is unused while no receipt names an attempt that has happened.
UnusedGrants(t) == {g \in DOMAIN grants[t] : grants[t][g] = 0 \/ grants[t][g] > Attempts(t)}

\* applyUnusedAdditionalRepairGrant: the last connected failure is the source.
ApplyGrant(t, decision) ==
  LET n == Attempts(t)
  IN IF decision.action # "REPAIR_EXHAUSTED" \/ UnusedGrants(t) = {} THEN decision
     ELSE IF Cardinality(UnusedGrants(t)) > 1 THEN Blocked("INVALID_EVIDENCE")
     ELSE IF WalkStatus(t, n) # "ok" THEN Blocked(WalkStatus(t, n))
     ELSE IF Failures(t, n) = {} THEN decision
     ELSE [Allowed(t, Max(Failures(t, n)), Status(t) = "FAIL") EXCEPT !.granted = TRUE]

Decide(t) == ApplyGrant(t, DecideCore(t))

HaltOfExhausted(decision) ==
  IF decision.action = "REPAIR_EXHAUSTED" THEN "AUTOMATIC_REPAIR_EXHAUSTED" ELSE "none"

\* haltFromAutomaticRepair: what stops the caller, or nothing.
HaltOf(decision) ==
  IF decision.action = "REPAIR_EXHAUSTED" THEN "AUTOMATIC_REPAIR_EXHAUSTED"
  ELSE IF decision.action = "BLOCKED" THEN decision.code
  ELSE "none"

\* haltFromAutomaticRepairProfile: without a control plane --profile must agree.
ProfileMismatch(decision, requested) ==
  decision.action = "REPAIR_ALLOWED" /\ decision.profile # requested

--------------------------------------------------------------------------------
(* What the policy writes.                                                 *)

SetTask(t, value) == task' = [task EXCEPT ![t] = value]

\* Publishing the record that closes the last attempt ("validation", "review",
\* "operational" of an infrastructure or protocol recovery, or "abandoned"), and
\* reopening its task.
WithRecord(t, kind) ==
  [task[t] EXCEPT !.runs[Attempts(t)].closed = @ \cup {kind}]
Reopened(value) ==
  [value EXCEPT !.status = "READY", !.phase = "none", !.output = "none",
                !.official = FALSE, !.owed = FALSE, !.verdict = NoVerdict]

ArchivedUnrecorded(t, kind) == Reopened(task[t])

Archived(t, kind) == Reopened(WithRecord(t, kind))

\* retryFailedAttempt loads its source: an official FAIL of this attempt.
FailedSourceLoads(t) == Status(t) = "FAIL" /\ task[t].official

\* consumeAdditionalRepairAuthorization: a receipt for the attempt to come.
Consume(t) ==
  LET g == CHOOSE g \in UnusedGrants(t) : TRUE
  IN grants' = [grants EXCEPT ![t][g] = Attempts(t) + 1]

\* reconcileAutomaticRepair of a decision: consume the grant, then archive when
\* retryFailedAttempt finds a source it loads and no other record of it.
Reconcile(t, d, loads) ==
  /\ IF d.action = "REPAIR_ALLOWED" /\ d.granted
       THEN Consume(t)
       ELSE UNCHANGED grants
  /\ IF d.action = "REPAIR_ALLOWED" /\ d.archival /\ loads
       THEN SetTask(t, Archived(t, "validation"))
       ELSE UNCHANGED task

\* An archival that was refused comes back as a decision.
ReconcileResult(d, loads) ==
  IF d.action = "REPAIR_ALLOWED" /\ d.archival /\ ~loads
    THEN Blocked("INVALID_EVIDENCE")
    ELSE d

GrantAgain(t) ==
  /\ Decide(t).action = "REPAIR_EXHAUSTED" \/ grants[t] # <<>>
  /\ grants' = [grants EXCEPT ![t] = Append(@, 0)]
  /\ UNCHANGED task

\* grantAdditionalRepairAuthorization: only an exhausted repair can be granted one.
Grant(t) ==
  /\ Decide(t).action = "REPAIR_EXHAUSTED"
  /\ grants' = [grants EXCEPT ![t] = Append(@, 0)]
  /\ UNCHANGED task
================================================================================
