----------------------------- MODULE Orchestration -----------------------------
(***************************************************************************)
(* runOrchestrate (src/dev/lib/orchestrate.ts) with its preflight and the  *)
(* post-launch incidents of routine autonomy: one invocation resumes what  *)
(* the last one left, then launches, closes, repairs and escalates one     *)
(* task after another. It may die between any two steps.                   *)
(***************************************************************************)
EXTENDS ControlPlane

CONSTANTS
  DependsOn,   \* blocked_by of each task
  MayReview,   \* tasks whose assessment may ask for an independent review
  Outputs,     \* what a worker of each task may leave to its close or its recovery
  Modes,       \* the ways the operator invokes the orchestrator
  MaxFaults    \* bound on the deaths of the process and on the interventions

VARIABLES
  asked,    \* history: the last assessment before a launch asked for a review
  gates,    \* history: failures an escalation or dev-retry-failed let through
  torn,     \* records of the last attempt whose writer died before it reopened the task
  died,     \* history: some invocation died
  faults    \* deaths and interventions so far

vars == <<task, grants, run, asked, gates, torn, died, faults>>
outside == <<torn, died, faults>>

\* "passes" and "fails" say what the official validation of the patch returns,
\* "gaveUp" is a report of FAILURE; nothing else lets the close decide:
\* "malformed" lists protocol files, "absent" has no complete pair, "outage"
\* proves that the provider failed.
OutputKinds == {"passes", "fails", "gaveUp", "malformed", "absent", "outage"}

ASSUME OrchestrationAssumption ==
  /\ DependsOn \in [Tasks -> SUBSET Tasks]
  /\ MayReview \subseteq Tasks
  /\ Outputs \in [Tasks -> (SUBSET OutputKinds) \ {{}}]
  /\ Modes \subseteq [plane : BOOLEAN, routine : BOOLEAN, skip : BOOLEAN,
                      profile : Profiles, limit : Nat \ {0}]
  /\ Modes # {} /\ MaxFaults \in Nat

Off == [at |-> "off", plane |-> FALSE, routine |-> FALSE, skip |-> FALSE,
        profile |-> 1, limit |-> 1, cycle |-> 0, again |-> FALSE,
        subject |-> 0, pin |-> NoProfile, second |-> FALSE, by |-> 1,
        close |-> "none", retries |-> 2, relaunch |-> "none", relaunched |-> 0,
        stop |-> "none",
        needs |-> NewMemory.needs, escalated |-> NewMemory.escalated,
        prior |-> NewMemory.prior, refused |-> NewMemory.refused]

At(step) == run.at = step
Goto(step) == run' = [run EXCEPT !.at = step]
\* The memory ends with the process; its report keeps why it stopped.
Stop(why) == run' = [Off EXCEPT !.stop = why]

Init ==
  /\ task = [t \in Tasks |-> NewTask]
  /\ grants = [t \in Tasks |-> <<>>]
  /\ run = Off
  /\ asked = [t \in Tasks |-> FALSE]
  /\ gates = [t \in Tasks |-> 0]
  /\ torn = [t \in Tasks |-> {}]
  /\ died = FALSE /\ faults = 0

--------------------------------------------------------------------------------
(* selectNextTask.                                                         *)

Blocking == {"FAIL", "TIMED_OUT", "INFRA_ERROR"}
InState(ss) == {t \in Tasks : Status(t) \in ss}
Selectable ==
  {t \in InState({"READY"}) : \A d \in DependsOn[t] : Status(d) = "PASS"}

Selection ==
  IF InState(Blocking) # {} THEN "HALTED"
  ELSE IF InState({"RUNNING"}) # {} THEN "BUSY"
  ELSE IF InState({"READY"}) = {} THEN "ALL_DONE"
  ELSE IF Selectable = {} THEN "BLOCKED"
  ELSE "SELECTED"

Selected == IF Selection = "SELECTED" THEN {Min(Selectable)} ELSE {}

--------------------------------------------------------------------------------
(* Archiving an attempt: the record first, with the reason for it, then the *)
(* state that reopens the task.                                            *)

\* The reasons the steps of an invocation give. That of an escalation names it.
Rejection == <<"rejection">>
Policy == <<"policy">>
Diagnostics == <<"diagnostics">>
PendingClosed == <<"pending">>
Recipe == <<"recipe">>
ByHuman == <<"human">>
Escalating(e) == <<"escalation", e.from, e.to>>

\* An archival that finds the record of its kind concludes it only if it would
\* have written the same. Neither dev-retry nor recoverInfraAttempt asks whether
\* the attempt has a record of another kind.
Agrees(t, kind, reason) ==
  \A r \in torn[t] : r.kind = kind => r.reason = reason

Archive(t, kind, reason) ==
  IF Agrees(t, kind, reason) THEN SetTask(t, Archived(t, kind)) ELSE UNCHANGED task

\* What an archival leaves that dies before it reopens the task.
ArchiveHalf(t, kind, reason) ==
  /\ Agrees(t, kind, reason)
  /\ SetTask(t, WithRecord(t, kind))
  /\ torn' = [torn EXCEPT ![t] = @ \cup {[kind |-> kind, reason |-> reason]}]

\* retryFailedAttempt, asked with this reason, does not refuse.
RetriesFailed(t, reason) == FailedSourceLoads(t) /\ Agrees(t, "validation", reason)

--------------------------------------------------------------------------------
(* Consulting the policy of the repair.                                    *)

\* The incident a preflight stop is for routine autonomy has no recipe.
PreflightStop(why) == Stop(IF run.routine THEN Technical ELSE why)
StopConsulting(why) == IF At("preflight") THEN PreflightStop(why) ELSE Stop(why)

\* How the policy is consulted, before a launch and after a FAIL: without a
\* control plane --profile must be the profile of the repair; then the decision
\* is applied and what came of it decides the next step.
ConsultPolicy(t, Then(_)) ==
  \E d \in {Decide(t)} :
    IF ~run.plane /\ ProfileMismatch(d, run.profile)
      THEN StopConsulting("AUTOMATIC_REPAIR_PROFILE_MISMATCH") /\ UNCHANGED <<task, grants>>
      ELSE /\ Reconcile(t, d, RetriesFailed(t, Policy))
           /\ Then(ReconcileResult(d, RetriesFailed(t, Policy)))

--------------------------------------------------------------------------------
(* Starting, and resuming what an earlier process left.                    *)

\* The one RUNNING task, if its worker has ended and its close has not.
PendingClose ==
  {t \in Tasks : InState({"RUNNING"}) = {t} /\ task[t].phase \in {"finalizing", "candidate"}}

\* The first stage that finds something to resume.
FirstStage(plane) ==
  IF plane /\ PendingCandidates # {} THEN "reconcile"
  ELSE IF PendingClose # {} THEN "finalize"
  ELSE "infra"

Start ==
  /\ At("off")
  /\ \E mode \in Modes :
       run' = [Off EXCEPT !.at = FirstStage(mode.plane), !.plane = mode.plane,
                          !.routine = mode.routine, !.skip = mode.skip,
                          !.profile = mode.profile, !.limit = mode.limit]
  /\ UNCHANGED <<task, grants, asked, gates, outside>>

\* The pending candidate a reviewer rejected for a defect.
RejectedForDefect ==
  {t \in PendingCandidates : t = Min(PendingCandidates) /\ ReopensRejected(t)}

\* reconcilePendingReviewRejection, before anything else of the invocation.
ReconcileRejection ==
  /\ At("reconcile")
  /\ LET t == Min(PendingCandidates)
     IN IF RejectedForDefect # {}
          THEN Archive(t, "review", Rejection) /\ Goto("infra")
        ELSE /\ UNCHANGED task
             /\ IF task[t].verdict \in {"DEFECT", "HUMAN"}
                  THEN Stop(Human)
                  ELSE run' = [run EXCEPT !.at = "review", !.subject = t, !.relaunch = "resume"]
  /\ UNCHANGED <<grants, asked, gates, outside>>

\* resumePendingFinalization closes it as the loop would; what comes of it is ignored.
ResumeFinalization ==
  /\ At("finalize")
  /\ run' = [run EXCEPT !.at = "close", !.subject = Min(PendingClose), !.relaunch = "resume"]
  /\ UNCHANGED <<task, grants, asked, gates, outside>>

\* recoverInfraAttempt refuses without the proof that the provider failed.
InfraProved(t) ==
  /\ task[t].output = "outage"
  /\ Status(t) = "INFRA_ERROR" \/ task[t].phase = "finalizing"

ResumableInfra ==
  {t \in Tasks : InState({"INFRA_ERROR"}) = {t} /\ InfraProved(t)}

\* resumePendingInfraRecovery, then the preflight or straight into the loop. The
\* reason is what the state says of the failure.
ResumeInfra ==
  /\ At("infra")
  /\ IF ResumableInfra = {} THEN UNCHANGED task
     ELSE \E t \in ResumableInfra : Archive(t, "operational", Diagnostics)
  /\ Goto(IF run.skip THEN "top" ELSE "preflight")
  /\ UNCHANGED <<grants, asked, gates, outside>>

--------------------------------------------------------------------------------
(* runOrchestrationPreflight, over a base that is the authorized one.      *)

\* runAutomaticRepairStage looks at the first FAIL, or at the task to come.
RepairSubject ==
  IF InState({"FAIL"}) # {} THEN {Min(InState({"FAIL"}))} ELSE Selected

\* RECOVERY_ATTENTION: routine autonomy applies the recovery and asks once more.
PreflightAttention ==
  /\ At("preflight") /\ InState({"RUNNING"}) # {}
  /\ LET t == Min(InState({"RUNNING"}))
     IN IF run.routine /\ task[t].phase = "working"
          THEN SetTask(t, [task[t] EXCEPT !.status = "INFRA_ERROR", !.phase = "none"])
                 /\ UNCHANGED run
          ELSE PreflightStop("PREFLIGHT_BLOCKED") /\ UNCHANGED task
  /\ UNCHANGED <<grants, asked, gates, outside>>

PreflightRepairs ==
  /\ At("preflight") /\ InState({"RUNNING"}) = {}
  /\ \E t \in RepairSubject :
       ConsultPolicy(t, LAMBDA d :
         IF HaltOf(d) = "none" THEN Goto("ready") ELSE PreflightStop(HaltOf(d)))
  /\ UNCHANGED <<asked, gates, outside>>

\* With nothing to repair the selection decides; a FAIL nobody repairs blocks it.
PreflightSelects ==
  /\ \/ At("preflight") /\ InState({"RUNNING"}) = {} /\ RepairSubject = {}
     \/ At("ready")
  /\ IF Selection = "SELECTED" THEN Goto("top")
     ELSE IF Selection = "ALL_DONE" THEN Stop("ALL_DONE")
     ELSE PreflightStop("PREFLIGHT_BLOCKED")
  /\ UNCHANGED <<task, grants, asked, gates, outside>>

--------------------------------------------------------------------------------
(* The loop: a primary cycle per task, its repair and escalation inside it. *)

\* Every turn but the continuation of an escalation counts.
Top ==
  /\ At("top")
  /\ IF ~run.again /\ run.cycle >= run.limit
       THEN Goto("limit")
       ELSE run' = [run EXCEPT !.again = FALSE,
                               !.cycle = IF run.again THEN @ ELSE @ + 1,
                               !.at = IF InState({"FAIL"}) # {} THEN "failed" ELSE "subject"]
  /\ UNCHANGED <<task, grants, asked, gates, outside>>

\* A FAIL the preflight did not see, because it was skipped.
FailedAtTop ==
  /\ At("failed")
  /\ LET t == Min(InState({"FAIL"}))
     IN ConsultPolicy(t, LAMBDA d :
          IF HaltOf(d) # "none"
            THEN run' = [run EXCEPT !.at = "exhausted", !.subject = t, !.stop = HaltOf(d)]
          ELSE IF d.action = "REPAIR_ALLOWED" THEN Goto("subject")
          ELSE Stop("FAIL"))
  /\ UNCHANGED <<asked, gates, outside>>

\* The task to come, and the repair the policy owes it.
Subject ==
  /\ At("subject")
  /\ \E t \in Selected :
       ConsultPolicy(t, LAMBDA d :
         IF HaltOf(d) # "none" THEN Stop(HaltOf(d))
         ELSE LET repairs == d.action = "REPAIR_ALLOWED"
              IN run' = [run EXCEPT !.at = IF run.plane THEN "before" ELSE "launch",
                                    !.subject = t, !.second = FALSE,
                                    !.pin = IF repairs THEN d.profile ELSE NoProfile,
                                    !.by = IF repairs THEN d.profile ELSE run.profile])
  /\ UNCHANGED <<asked, gates, outside>>

NoSubject ==
  /\ At("subject") /\ Selected = {}
  /\ Stop(Selection)
  /\ UNCHANGED <<task, grants, asked, gates, outside>>

\* beforeWorkUnit. The repair inside the loop keeps the profile of the policy
\* whatever profile the control plane has just authorized.
BeforeWorkUnit ==
  /\ At("before")
  /\ \E spent \in SUBSET Profiles, asks \in {FALSE} \cup {run.subject \in MayReview} :
       LET t == run.subject
           able == Eligible(t, run.pin, spent)
           memory == Assessed(t, asks)
       IN IF able = {}
            THEN Stop(Technical)
            ELSE \E p \in able :
                   run' = [memory EXCEPT !.at = "launch", !.pin = NoProfile,
                                         !.by = IF run.second THEN @ ELSE p]
  /\ UNCHANGED <<task, grants, asked, gates, outside>>

\* authorizeProjectLaunch or the environment stops the work unit.
BeforeRefuses ==
  /\ At("before")
  /\ \E kind \in {Human, Technical} :
       Stop(kind)
  /\ UNCHANGED <<task, grants, asked, gates, outside>>

--------------------------------------------------------------------------------
(* executeReadyTask: prepare, launch, wait and close.                      *)

Launch ==
  /\ At("launch")
  /\ Selected = {run.subject} /\ Attempts(run.subject) < MaxAttempts[run.subject]
  /\ LET t == run.subject
     IN /\ SetTask(t, [task[t] EXCEPT !.status = "RUNNING", !.phase = "working",
                         !.runs = Append(@, [profile |-> run.by, closed |-> {}])])
        /\ torn' = [torn EXCEPT ![t] = {}]
        /\ asked' = [asked EXCEPT ![t] = run.needs[t]]
        /\ run' = [run EXCEPT !.at = "wait",
                              !.relaunched = @ + (IF run.relaunch = "none" THEN 0 ELSE 1)]
  /\ UNCHANGED <<grants, gates, died, faults>>

\* Another selection than the expected one, or a launch the preflight of the
\* profile refuses: no attempt is consumed.
LaunchRefused ==
  /\ At("launch")
  /\ run.relaunch = "none"
  /\ Stop(IF Selected = {run.subject} THEN "PREFLIGHT_BLOCKED" ELSE "INCONSISTENT_EVIDENCE")
  /\ UNCHANGED <<task, grants, asked, gates, outside>>

\* The operational retry that launches nothing ends the settlement.
RelaunchRefused ==
  /\ At("launch")
  /\ run.relaunch # "none"
  /\ Stop(Technical)
  /\ UNCHANGED <<task, grants, asked, gates, outside>>

WorkerFinishes ==
  /\ At("wait")
  /\ \E output \in Outputs[run.subject] :
       SetTask(run.subject, [task[run.subject] EXCEPT !.phase = "finalizing", !.output = output])
  /\ Goto("close")
  /\ UNCHANGED <<grants, asked, gates, outside>>

\* The launcher's other classifications leave their own status, and no close.
WorkerLost ==
  /\ At("wait")
  /\ \E end \in {"TIMED_OUT", "INFRA_ERROR"} :
     \E output \in {"none"} \cup
                    (IF end = "INFRA_ERROR" THEN {"outage"} \cap Outputs[run.subject] ELSE {}) :
       /\ SetTask(run.subject, [task[run.subject] EXCEPT
                    !.status = end, !.phase = "none", !.output = output])
       /\ run' = [run EXCEPT !.at = "settle", !.close = end]
  /\ UNCHANGED <<grants, asked, gates, outside>>

CloseKindUnasked(t) ==
  CASE task[t].phase = "candidate" -> "candidate"
    [] task[t].output = "passes" -> "PASS"
    [] task[t].output \in {"fails", "gaveUp"} -> "FAIL"
    [] OTHER -> "PENDING"

\* closeTaskByLaunchPolicy over what the worker left; a candidate that is
\* already prepared is not validated again.
CloseKind(t) ==
  IF task[t].phase = "candidate" THEN "candidate"
  ELSE IF task[t].output = "passes" THEN IF run.needs[t] THEN "prepare" ELSE "PASS"
  ELSE IF task[t].output \in {"fails", "gaveUp"} THEN "FAIL"
  ELSE "PENDING"

\* The requirement the memory holds goes into the record of the candidate.
Close ==
  /\ At("close")
  /\ LET t == run.subject
         kind == CloseKind(t)
         next == IF run.relaunch = "resume" THEN "resumed" ELSE "settle"
     IN /\ \/ /\ kind = "PASS"
              /\ SetTask(t, [task[t] EXCEPT !.status = "PASS", !.phase = "none"])
           \/ /\ kind = "FAIL"
              /\ SetTask(t, [task[t] EXCEPT !.status = "FAIL", !.phase = "none",
                               !.official = task[t].output = "fails"])
           \/ /\ kind = "prepare"
              /\ SetTask(t, [task[t] EXCEPT !.phase = "candidate", !.owed = TRUE])
           \/ kind \in {"candidate", "PENDING"} /\ UNCHANGED task
        /\ run' = [run EXCEPT
                     !.at = IF kind \in {"prepare", "candidate"} THEN "review" ELSE next,
                     !.close = IF kind \in {"PASS", "FAIL"} THEN kind ELSE "PENDING"]
  /\ UNCHANGED <<grants, asked, gates, outside>>

\* reviewValidatedCandidate publishes a verdict; one that is durable is not redone.
Review ==
  /\ At("review") /\ run.plane
  /\ task[run.subject].verdict = NoVerdict
  /\ \E v \in Outcomes(run.subject) \cap Verdicts :
       SetTask(run.subject, [task[run.subject] EXCEPT !.verdict = v])
  /\ UNCHANGED <<run, grants, asked, gates, outside>>

\* No reviewer could be launched, or none returned a verdict that can be kept.
ReviewUnavailable ==
  /\ At("review") /\ run.plane
  /\ task[run.subject].verdict = NoVerdict
  /\ \E outcome \in Outcomes(run.subject) \ Verdicts :
       IF run.relaunch = "resume"
         THEN Stop(StopOf(outcome))
         ELSE run' = [Refuse(StopOf(outcome)) EXCEPT !.at = "settle"]
  /\ UNCHANGED <<task, grants, asked, gates, outside>>

\* Without a control plane nobody can answer for the review: the close stays pending.
ReviewNobody ==
  /\ At("review") /\ ~run.plane
  /\ task[run.subject].verdict # "ACCEPT"
  /\ Goto(IF run.relaunch = "resume" THEN "resumed" ELSE "settle")
  /\ UNCHANGED <<task, grants, asked, gates, outside>>

Promotable(t) == task[t].verdict = "ACCEPT"

\* acceptValidatedCandidate: validation PASS and review ACCEPT make PASS.
Promote ==
  /\ At("review") /\ Promotable(run.subject)
  /\ SetTask(run.subject, [task[run.subject] EXCEPT !.status = "PASS", !.phase = "none"])
  /\ run' = [run EXCEPT !.close = "PASS",
                        !.at = IF run.relaunch = "resume" THEN "resumed" ELSE "settle"]
  /\ UNCHANGED <<grants, asked, gates, outside>>

\* A rejection leaves the candidate pending; resumed, it ends the invocation.
Reject ==
  /\ At("review") /\ run.plane
  /\ task[run.subject].verdict \in {"DEFECT", "HUMAN"}
  /\ LET next == OnVerdict(run.subject)
     IN IF run.relaunch = "resume"
          THEN Stop(IF next.refused = "none" THEN Technical ELSE next.refused)
          ELSE run' = [next EXCEPT !.at = "settle"]
  /\ UNCHANGED <<task, grants, asked, gates, outside>>

ResumedAgain ==
  /\ At("resumed")
  /\ run' = [run EXCEPT !.at = FirstStage(run.plane), !.relaunch = "none", !.close = "none"]
  /\ UNCHANGED <<task, grants, asked, gates, outside>>

ResumedToInfra == run.close = "PENDING" /\ InfraProved(run.subject)

\* After a resumed close: a pending one may still prove a provider failure.
Resumed ==
  /\ At("resumed")
  /\ IF ResumedToInfra
       THEN Archive(run.subject, "operational", PendingClosed)
       ELSE UNCHANGED task
  /\ run' = [run EXCEPT !.at = "infra", !.relaunch = "none", !.close = "none", !.subject = 0]
  /\ UNCHANGED <<grants, asked, gates, outside>>

--------------------------------------------------------------------------------
(* settleRoutinePostLaunch: an incident is recovered and retried once.     *)

NeedsSettling == run.routine /\ run.close \notin {"PASS", "FAIL"}

RecipeRecordOfAny(t) ==
  CASE Status(t) = "RUNNING" /\ task[t].output \in {"malformed", "outage"} -> "operational"
    [] Status(t) = "RUNNING" -> "abandoned"
    [] OTHER -> "none"

\* What the recipe the incident is triaged to archives, or that it refuses. A
\* candidate has moved HEAD; it and a timeout fall through to the infra recipe.
RecipeRecord(t) ==
  IF Status(t) = "RUNNING" /\ task[t].phase = "finalizing" /\ task[t].output = "malformed"
    THEN "operational"
  ELSE IF Status(t) = "RUNNING" /\ task[t].phase = "finalizing" /\ task[t].output = "absent"
    THEN "abandoned"
  ELSE IF Status(t) = "INFRA_ERROR" /\ InfraProved(t) THEN "operational"
  ELSE "none"

Settled ==
  /\ At("settle") /\ ~NeedsSettling
  /\ run' = [run EXCEPT !.at = IF run.plane THEN "after" ELSE "closed",
                        !.relaunch = "none"]
  /\ UNCHANGED <<task, grants, asked, gates, outside>>

\* The retry inside a recipe must end in a verdict: its budget is one.
RetrySpent ==
  /\ At("settle") /\ NeedsSettling
  /\ run.relaunch = "recipe" \/ RecipeRecord(run.subject) = "none"
  /\ Stop(Technical)
  /\ UNCHANGED <<task, grants, asked, gates, outside>>

SettlesByRecipe ==
  NeedsSettling /\ run.relaunch # "recipe" /\ RecipeRecord(run.subject) # "none"

\* Incomplete output is recovered without the retry of the recipe; the
\* settlement then spends its own, and what it recovers next has none left.
Settle ==
  /\ At("settle") /\ SettlesByRecipe
  /\ LET kind == RecipeRecord(run.subject)
     IN /\ Archive(run.subject, kind, Recipe)
        /\ IF run.retries = 0
             THEN Stop(Technical)
             ELSE run' = [run EXCEPT !.at = "launch", !.retries = 0,
                            !.relaunch = IF kind = "abandoned" THEN "settlement" ELSE "recipe"]
  /\ UNCHANGED <<grants, asked, gates, outside>>

--------------------------------------------------------------------------------
(* After the work unit: pass on, repair once, escalate or stop.            *)

\* afterWorkUnit: the halt of the review, or the reopening of its rejection.
AfterWorkUnit ==
  /\ At("after")
  /\ LET pending == PendingCandidates
         t == Min(pending)
     IN IF run.refused # "none" THEN Stop(run.refused) /\ UNCHANGED task
        ELSE IF RejectedForDefect # {}
          THEN Archive(t, "review", Rejection) /\ Goto("repair")
        ELSE /\ UNCHANGED task
             /\ IF pending # {} /\ task[t].verdict = "DEFECT" THEN Stop(Human) ELSE Goto("closed")
  /\ UNCHANGED <<grants, asked, gates, outside>>

\* What a new primary cycle starts from.
NextCycle ==
  [run EXCEPT !.at = "top", !.subject = 0, !.second = FALSE, !.pin = NoProfile, !.by = 1,
              !.retries = 2, !.relaunched = 0, !.close = "none"]

\* A PASS closes the cycle; a FAIL is repaired; anything else stops.
Closing ==
  /\ At("closed")
  /\ IF run.close = "PASS" THEN run' = NextCycle
     ELSE IF run.close = "FAIL" THEN Goto("repair")
     ELSE Stop(run.close)
  /\ UNCHANGED <<task, grants, asked, gates, outside>>

\* The first execution of the cycle gets the bounded repair in this invocation.
RepairInLoop ==
  /\ At("repair") /\ ~run.second
  /\ ConsultPolicy(run.subject, LAMBDA d :
       IF HaltOf(d) # "none" THEN Stop(HaltOf(d))
       ELSE IF d.action # "REPAIR_ALLOWED" THEN Stop("FAIL")
       ELSE run' = [run EXCEPT !.at = IF run.plane THEN "before" ELSE "launch",
                               !.second = TRUE, !.pin = d.profile, !.by = d.profile,
                               !.retries = 2, !.relaunched = 0, !.close = "none"])
  /\ UNCHANGED <<asked, gates, outside>>

\* The repair failed too: only now is the control plane asked to escalate.
RepairFailed ==
  /\ At("repair") /\ run.second
  /\ LET halt == HaltOf(Decide(run.subject))
     IN run' = [run EXCEPT !.at = "exhausted", !.stop = IF halt = "none" THEN "FAIL" ELSE halt]
  /\ UNCHANGED <<task, grants, asked, gates, outside>>

\* escalateOrHalt; retryFailedAttempt throws on a FAIL that is not official.
EscalateOrHalt ==
  /\ At("exhausted")
  /\ IF ~run.plane
       THEN Stop(run.stop) /\ UNCHANGED <<task, gates>>
       ELSE \E spent \in SUBSET Profiles :
              LET t == run.subject
                  e == Escalation(t, spent)
              IN IF e.outcome = "ESCALATE" /\ RetriesFailed(t, Escalating(e))
                   THEN /\ SetTask(t, Archived(t, "validation"))
                        /\ gates' = [gates EXCEPT ![t] = @ + 1]
                        /\ run' = Escalate([NextCycle EXCEPT !.again = TRUE], t, e)
                   ELSE /\ Stop(IF e.outcome = "ESCALATE" THEN "ERROR" ELSE e.outcome)
                        /\ UNCHANGED <<task, gates>>
  /\ UNCHANGED <<grants, asked, outside>>

\* The budget of primary cycles is spent: what is left is not done.
LimitReached ==
  /\ At("limit")
  /\ Stop(IF Selection = "ALL_DONE" THEN "ALL_DONE" ELSE "LIMIT_REACHED")
  /\ UNCHANGED <<task, grants, asked, gates, outside>>

--------------------------------------------------------------------------------
(* The death of the process, and the operator between two invocations.     *)

Crash ==
  /\ ~At("off") /\ faults < MaxFaults
  /\ died' = TRUE /\ faults' = faults + 1
  /\ run' = Off
  /\ UNCHANGED <<task, grants, asked, gates, torn>>

\* The task whose repair the step to come would reconcile.
Reconciled ==
  {t \in Tasks :
     /\ \/ At("preflight") /\ InState({"RUNNING"}) = {} /\ t \in RepairSubject
        \/ At("failed") /\ t = Min(InState({"FAIL"}))
        \/ At("subject") /\ t \in Selected
        \/ At("repair") /\ ~run.second /\ t = run.subject
     /\ Decide(t).action = "REPAIR_ALLOWED"
     /\ run.plane \/ ~ProfileMismatch(Decide(t), run.profile)}

\* Which record of t the step to come would publish before it reopens the task.
ArchivesHalf(t) ==
  \/ (At("reconcile") \/ (At("after") /\ run.refused = "none")) /\ t \in RejectedForDefect
       /\ ArchiveHalf(t, "review", Rejection)
  \/ At("infra") /\ t \in ResumableInfra /\ ArchiveHalf(t, "operational", Diagnostics)
  \/ At("resumed") /\ t = run.subject /\ ResumedToInfra
       /\ ArchiveHalf(t, "operational", PendingClosed)
  \/ At("settle") /\ t = run.subject /\ SettlesByRecipe
       /\ ArchiveHalf(t, RecipeRecord(t), Recipe)
  \/ At("exhausted") /\ run.plane /\ t = run.subject /\ FailedSourceLoads(t)
       /\ \E spent \in SUBSET Profiles :
            LET e == Escalation(t, spent)
            IN e.outcome = "ESCALATE" /\ ArchiveHalf(t, "validation", Escalating(e))

\* Death between the record of an attempt and the state that reopens its task.
CrashArchiving(t) ==
  /\ faults < MaxFaults
  /\ ArchivesHalf(t)
  /\ died' = TRUE /\ faults' = faults + 1
  /\ run' = Off
  /\ UNCHANGED <<grants, asked, gates>>

\* Death in the repair: after the receipt of its grant, or after the record too.
CrashRepairing(t) ==
  /\ faults < MaxFaults
  /\ t \in Reconciled
  /\ IF Decide(t).granted THEN Consume(t) ELSE UNCHANGED grants
  /\ \/ Decide(t).granted /\ UNCHANGED <<task, torn>>
     \/ Decide(t).archival /\ FailedSourceLoads(t) /\ ArchiveHalf(t, "validation", Policy)
  /\ died' = TRUE /\ faults' = faults + 1
  /\ run' = Off
  /\ UNCHANGED <<asked, gates>>

Intervene == At("off") /\ faults < MaxFaults /\ faults' = faults + 1

\* A worker whose harness died ends on its own; dev-recover finds it dead.
HumanRecovers(t) ==
  /\ Intervene
  /\ Status(t) = "RUNNING" /\ task[t].phase = "working"
  /\ SetTask(t, [task[t] EXCEPT !.status = "INFRA_ERROR", !.phase = "none"])
  /\ UNCHANGED <<grants, run, asked, gates, torn, died>>

\* A command that archives completes or dies between its record and the state;
\* whoever repeats one can give the reason of the record it left.
CommandArchives(t, kind, whole) ==
  IF whole
    THEN SetTask(t, Archived(t, kind)) /\ UNCHANGED torn
    ELSE kind \notin Closed(t, Attempts(t)) /\ ArchiveHalf(t, kind, ByHuman)

\* dev-retry-failed of an official FAIL: the gate before any further attempt.
HumanRetriesFailed(t) ==
  /\ Intervene
  /\ FailedSourceLoads(t)
  /\ \E whole \in BOOLEAN :
       /\ CommandArchives(t, "validation", whole)
       /\ gates' = IF whole THEN [gates EXCEPT ![t] = @ + 1] ELSE gates
  /\ UNCHANGED <<grants, run, asked, died>>

\* dev-retry of an attempt that left nothing to close. It looks for no record but
\* its own.
HumanAbandons(t) ==
  /\ Intervene
  /\ Status(t) = "RUNNING" /\ task[t].phase = "finalizing"
  /\ task[t].output \in {"absent", "outage", "gaveUp"}
  /\ \E whole \in BOOLEAN : CommandArchives(t, "abandoned", whole)
  /\ UNCHANGED <<grants, run, asked, gates, died>>

\* dev-recover-infra of a proved failure, or dev-recover-protocol-output.
HumanRecoversAttempt(t) ==
  /\ Intervene
  /\ \/ InfraProved(t)
     \/ Status(t) = "RUNNING" /\ task[t].phase = "finalizing" /\ task[t].output = "malformed"
  /\ \E whole \in BOOLEAN : CommandArchives(t, "operational", whole)
  /\ UNCHANGED <<grants, run, asked, gates, died>>

HumanGrants(t) ==
  /\ Intervene
  /\ Grant(t)
  /\ UNCHANGED <<run, asked, gates, torn, died>>

--------------------------------------------------------------------------------

Step ==
  \/ ReconcileRejection \/ ResumeFinalization \/ ResumeInfra \/ Resumed
  \/ PreflightAttention \/ PreflightRepairs \/ PreflightSelects
  \/ Top \/ FailedAtTop \/ Subject \/ NoSubject \/ BeforeWorkUnit \/ BeforeRefuses
  \/ LimitReached
  \/ Launch \/ LaunchRefused \/ RelaunchRefused \/ WorkerFinishes \/ WorkerLost
  \/ Close \/ Review \/ ReviewUnavailable \/ ReviewNobody \/ Promote \/ Reject
  \/ Settled \/ RetrySpent \/ Settle
  \/ AfterWorkUnit \/ Closing \/ RepairInLoop \/ RepairFailed \/ EscalateOrHalt

HumanStep ==
  \E t \in Tasks : HumanRecovers(t) \/ HumanRetriesFailed(t) \/ HumanAbandons(t)
                     \/ HumanRecoversAttempt(t) \/ HumanGrants(t)

CrashStep == Crash \/ \E t \in Tasks : CrashArchiving(t) \/ CrashRepairing(t)

Next == Start \/ Step \/ CrashStep \/ HumanStep

\* A live process takes its next step; nobody has to start or to intervene.
Spec == Init /\ [][Next]_vars /\ WF_vars(Step)

--------------------------------------------------------------------------------
(* Properties.                                                             *)

\* The attempts behind a task: the one in progress has no record to have yet.
Behind(t) == 1 .. (IF Status(t) = "READY" THEN Attempts(t) ELSE Attempts(t) - 1)

\* Whatever launched an attempt (preflight, loop, recipe, escalation, human) and
\* wherever its archival died, it is never behind its task without a record: the
\* policy would block every later repair as HISTORICAL_GAP. It has two, which block
\* it as inconsistent, only where one command abandoned and another recovered the
\* same provider failure, the first of which died before it reopened the task.
HistoryReadable ==
  \A t \in Tasks : \A a \in Behind(t) :
    \/ Cardinality(Closed(t, a)) = 1
    \/ Closed(t, a) = {"abandoned", "operational"} /\ torn[t] # {}

\* Evidence that contradicts itself stays closed (HARNESS.md:269): no attempt is
\* launched over a history the policy cannot read, by the loop, a repair, a recipe,
\* an escalation or after a grant.
ReadBeforeLaunch ==
  [][\A t \in Tasks : Attempts(t)' > Attempts(t) => WalkStatus(t, Attempts(t)) = "ok"]_vars

\* At most one bounded repair: beyond first pass and repair, every further
\* capability failure since the last abandonment was let through by a gate of its
\* own (a grant, an escalation or a human dev-retry-failed).
OfficialFails(t) ==
  LET open == Status(t) = "FAIL" /\ task[t].official /\ Closed(t, Attempts(t)) = {}
  IN Cardinality(Failures(t, Attempts(t) - (IF open THEN 1 ELSE 0))) + (IF open THEN 1 ELSE 0)
GrantsUsed(t) == Cardinality(DOMAIN grants[t]) - Cardinality(UnusedGrants(t))
BoundedRepair ==
  \A t \in Tasks : Attempts(t) > 0 => OfficialFails(t) <= 2 + gates[t] + GrantsUsed(t)

\* A grant opens one attempt: no two of a task wait at the same time and no two
\* were consumed by the same attempt, also when the process dies between the
\* receipt and the launch it was written for.
GrantsSpentOnce ==
  \A t \in Tasks :
    /\ Cardinality({g \in DOMAIN grants[t] : grants[t][g] = 0}) <= 1
    /\ \A g, h \in DOMAIN grants[t] :
         grants[t][g] = grants[t][h] /\ grants[t][g] # 0 => g = h

\* A required review is never skipped while the process that asked for it lives:
\* a task passes with the reviewer's ACCEPT or no review was asked for its attempt.
ReviewedBeforePass ==
  \A t \in Tasks : Status(t) = "PASS" /\ asked[t] => task[t].verdict = "ACCEPT"
ReviewedWhileAlive == ~died => ReviewedBeforePass

\* A patch that passes its official validation is not thrown away: no recovery,
\* resume or retry reopens its task, only the rejection of a reviewer does.
PassingWorkKept ==
  [][\A t \in Tasks :
       Status(t) = "RUNNING" /\ task[t].output = "passes" /\ Status(t)' # "RUNNING" =>
         \/ Status(t)' = "PASS"
         \/ task[t].verdict = "DEFECT" /\ Status(t)' = "READY"]_vars

\* Every invocation comes to an end: resuming, repairing, retrying and escalating
\* cannot feed each other for ever.
InvocationEnds == ~At("off") ~> At("off")
================================================================================
