-------------------------------- MODULE Recovery --------------------------------
(***************************************************************************)
(* dev-recover (src/dev/lib/recover.ts): state.json is reconciled with the *)
(* records and the processes, task by task, and written once at the end.   *)
(***************************************************************************)
EXTENDS Retrying

\* verifyCloseBundle of a completion the orchestrator committed.
BundleValid(t) ==
  LET c == completion[t]
  IN /\ c.verdict = "PASS"
     /\ evidence[t][c.attempt].final = c.commit
     /\ FinalVerifies(t, c.attempt)
     /\ handoff[t] = c.commit /\ manifest[t] = c.commit

\* verifyCloseBundle says INCOMPLETE: such a task is left as it is.
BundleIncomplete(t) == completion[t].verdict = "PASS" /\ ~BundleValid(t)

SealableUnreviewed(t) ==
  /\ Status(t) # "PASS" /\ ~BundleValid(t)
  /\ HasFinal(t) /\ "REVIEW_REJECTED" \notin Ev(t).closed
  /\ FinalVerifies(t, Att(t))

\* reconcileTask finds a finalization the state does not reflect, which no
\* review rejected for good and which can still be verified and sealed.
Sealable(t) ==
  /\ Status(t) # "PASS" /\ ~BundleValid(t)
  /\ HasFinal(t) /\ "REVIEW_REJECTED" \notin Ev(t).closed
  /\ ReviewGrants(Ev(t)) /\ FinalVerifies(t, Att(t))

\* The tasks of the plan are visited in order: the next one to be sealed.
NextToSeal == {t \in Task : t >= cmd.task /\ Sealable(t)}

Recover ==
  /\ Begin("recover", 1)
  /\ UNCHANGED <<stateVars, recordVars, workerVars, repoVars, envVars>>

RecoverSeal ==
  /\ At("recover") /\ NextToSeal # {}
  /\ LET t == CHOOSE u \in NextToSeal : \A v \in NextToSeal : u <= v
     IN cmd' = [cmd EXCEPT !.step = "recoverCompletion", !.task = t]
  /\ UNCHANGED <<stateVars, recordVars, workerVars, repoVars, envVars>>

\* The loop goes on behind the task; it is promoted if its bundle now verifies,
\* and only gets diagnostics if a seal refused (the exception is caught).
Promoted == cmd' = [cmd EXCEPT !.step = "recover", !.task = @ + 1,
              !.promoted = @ \cup {u \in {cmd.task} : FinalVerifies(u, Att(u))}]
Refused == cmd' = [cmd EXCEPT !.step = "recover", !.task = @ + 1]

RecoverSealStep ==
  \/ At("recoverCompletion") /\ SealCompletion(Goto("recoverHandoff"), Refused)
  \/ At("recoverHandoff") /\ SealHandoff(Goto("recoverManifest"), Refused)
  \/ At("recoverManifest") /\ SealManifest(Promoted, Refused)

\* reconcileTask: what the records prove is accepted, and an EXECUTING task
\* whose worker is dead is infrastructure that failed.
Proved(t) == Status(t) # "PASS" /\ (t \in cmd.promoted \/ BundleValid(t))
Orphaned(t) ==
  /\ Status(t) = "RUNNING" /\ tasks[t].phase = "EXECUTING"
  /\ tasks[t].process \notin live
  /\ ~BundleIncomplete(t)

ReconciledLeavingDead(t) ==
  IF Proved(t)
    THEN [tasks[t] EXCEPT !.status = "PASS", !.phase = "NONE", !.accepted = completion[t].commit]
    ELSE tasks[t]

\* What becomes of a task in the state that is written.
Reconciled(t) ==
  IF Proved(t)
    THEN [tasks[t] EXCEPT !.status = "PASS", !.phase = "NONE", !.accepted = completion[t].commit]
  ELSE IF Orphaned(t)
    THEN [tasks[t] EXCEPT !.status = "INFRA_ERROR", !.phase = "NONE"]
  ELSE tasks[t]

\* The base follows the reconciled tasks unless something else moved it.
ReconciledHead(ts) ==
  LET old == DerivedHead(tasks)
      new == DerivedHead(ts)
  IN IF authorized = old /\ new # old THEN new ELSE authorized

RecoverWrite ==
  /\ At("recover") /\ NextToSeal = {}
  /\ LET ts == [t \in Task |-> Reconciled(t)]
     IN tasks' = ts /\ authorized' = ReconciledHead(ts)
  /\ Finish
  /\ UNCHANGED <<recordVars, workerVars, repoVars, envVars>>

RecoverStep == RecoverSeal \/ RecoverSealStep \/ RecoverWrite
================================================================================
