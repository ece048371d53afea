-------------------------------- MODULE Retrying --------------------------------
(***************************************************************************)
(* The commands that close an attempt without a solution and reopen its    *)
(* task: dev-retry (src/dev/lib/retry.ts), dev-retry-failed and the repair *)
(* of a candidate the review rejected (src/dev/lib/retry-failed.ts).       *)
(***************************************************************************)
EXTENDS Finalization

CloseAttempt(t, how) ==
  Record(t, Att(t), [Ev(t) EXCEPT !.closed = @ \cup {how}])

\* withTaskState of every reopening: READY again, attempts never go down.
Reopened(t) == [tasks[t] EXCEPT !.status = "READY", !.phase = "NONE", !.process = 0,
                                !.accepted = NoCommit]

--------------------------------------------------------------------------------
(* dev-retry: the worker ended and left nothing to finalize.               *)

\* readInfrastructureOutput: no output, or a FAILURE the human vouches for.
Abandonable(t) ==
  /\ Finalizing(t) /\ ~OtherRunning(t)
  /\ tasks[t].process \notin live
  /\ launch[t].finished /\ launch[t].process = tasks[t].process
  /\ note[t] = NoNote \/ note[t].says = "FAILURE"
  /\ TreeClean /\ head = tasks[t].base

AbandonUnrecorded(t) ==
  /\ Abandonable(t)
  /\ Begin("reopenAbandoned", t)
  /\ UNCHANGED <<stateVars, recordVars, workerVars, repoVars, envVars>>

\* writeAttemptAbandonment comes before the state that lets the task go.
RecordAbandonment(t) ==
  /\ Abandonable(t)
  /\ Begin("reopenAbandoned", t)
  /\ CloseAttempt(t, "ABANDONED")
  /\ UNCHANGED <<stateVars, packet, launch, completion, handoff, manifest,
                 workerVars, repoVars, envVars>>

ReopenAbandoned ==
  /\ At("reopenAbandoned")
  /\ SetTask(cmd.task, Reopened(cmd.task))
  /\ Finish
  /\ UNCHANGED <<authorized, recordVars, workerVars, repoVars, envVars>>

--------------------------------------------------------------------------------
(* dev-retry-failed: an official FAIL becomes history and the tree its base. *)

Archived(t) == "VALIDATION_FAILED" \in Ev(t).closed

\* loadCompletionEvidence and loadInboxEvidence: the slot, or the copy of it.
FailEvidence(t) ==
  /\ Ev(t).source # 0
  /\ \/ completion[t].verdict = "FAIL" /\ completion[t].gate
     \/ Archived(t) /\ Ev(t).failCopy
  /\ note[t].by = Ev(t).worker \/ (Archived(t) /\ Ev(t).noteCopy)

\* loadFailedSource: a FAIL, or the resumption of one already archived.
FailedSourceLoads(t) ==
  /\ Att(t) > 0
  /\ Status(t) = "FAIL" \/ (Status(t) = "READY" /\ Archived(t))
  /\ ~OtherRunning(t)
  /\ FailEvidence(t)
  /\ head = authorized /\ staged = 0

ArchiveResettingFirst(t) ==
  /\ FailedSourceLoads(t)
  /\ tree = Ev(t).source
  /\ cmd' = [Idle EXCEPT !.step = "halfReset", !.task = t, !.patch = tree]
  /\ At("idle")
  /\ CloseAttempt(t, "VALIDATION_FAILED")
  /\ UNCHANGED <<stateVars, packet, launch, completion, handoff, manifest,
                 workerVars, repoVars, envVars>>

\* The tree is exactly the rejected patch: preserve it and publish the record.
ArchiveFailedAttempt(t) ==
  /\ FailedSourceLoads(t)
  /\ tree = Ev(t).source
  /\ cmd' = [Idle EXCEPT !.step = "copyFail", !.task = t, !.patch = tree]
  /\ At("idle")
  /\ CloseAttempt(t, "VALIDATION_FAILED")
  /\ UNCHANGED <<stateVars, packet, launch, completion, handoff, manifest,
                 workerVars, repoVars, envVars>>

\* Already archived and reset: only the other effects have to converge.
ResumeArchival(t) ==
  /\ FailedSourceLoads(t)
  /\ Archived(t) /\ TreeClean
  /\ Begin("copyFail", t)
  /\ UNCHANGED <<stateVars, recordVars, workerVars, repoVars, envVars>>

CopyFailCompletion ==
  /\ At("copyFail")
  /\ Record(cmd.task, Att(cmd.task), [Ev(cmd.task) EXCEPT !.failCopy = TRUE])
  /\ Goto("copyNote")
  /\ UNCHANGED <<stateVars, packet, launch, completion, handoff, manifest,
                 workerVars, repoVars, envVars>>

\* archiveInboxEvidence: nothing to preserve when the worker left no pair.
CopyNote ==
  /\ At("copyNote")
  /\ LET t == cmd.task
     IN Record(t, Att(t), [Ev(t) EXCEPT !.noteCopy = @ \/ Ev(t).worker # 0])
  /\ Goto("releaseSlot")
  /\ UNCHANGED <<stateVars, packet, launch, completion, handoff, manifest,
                 workerVars, repoVars, envVars>>

ReleaseNoSlot ==
  /\ At("releaseSlot")
  /\ Goto("releaseNote")
  /\ UNCHANGED <<stateVars, recordVars, workerVars, repoVars, envVars>>

\* releaseCurrentCompletion: the slot is free for the next attempt.
ReleaseSlot ==
  /\ At("releaseSlot")
  /\ completion' = [completion EXCEPT ![cmd.task] = NoCompletion]
  /\ Goto("releaseNote")
  /\ UNCHANGED <<stateVars, packet, launch, handoff, manifest, evidence,
                 workerVars, repoVars, envVars>>

\* releaseCurrentInboxNote removes the note of this attempt and no other.
ReleaseNote ==
  /\ At("releaseNote")
  /\ LET t == cmd.task
     IN IF note[t].by = Ev(t).worker
          THEN note' = [note EXCEPT ![t] = NoNote]
          ELSE UNCHANGED note
  /\ Goto(IF cmd.patch = 0 THEN "reopenFailed" ELSE "halfReset")
  /\ UNCHANGED <<stateVars, recordVars, spawned, live, repoVars, envVars>>

\* resetFilesToBase goes file by file: half of the patch can be gone.
HalfReset ==
  /\ At("halfReset")
  /\ tree' = IF tree = cmd.patch THEN -cmd.patch ELSE tree
  /\ Goto("reset")
  /\ UNCHANGED <<stateVars, recordVars, workerVars, log, head, staged, envVars>>

\* The rest of the files, and the check that the checkout is clean again;
\* whatever was edited outside the files of the patch makes the command throw.
Reset ==
  /\ At("reset")
  /\ LET within == tree = -cmd.patch \/ FilesIn(tree) = FilesIn(cmd.patch)
     IN IF (tree = 0 \/ within) /\ staged = 0 /\ head = authorized
          THEN tree' = 0 /\ Goto("reopenFailed")
          ELSE UNCHANGED tree /\ Finish
  /\ UNCHANGED <<stateVars, recordVars, workerVars, log, head, staged, envVars>>

ReopenFailed ==
  /\ At("reopenFailed")
  /\ SetTask(cmd.task, Reopened(cmd.task))
  /\ Finish
  /\ UNCHANGED <<authorized, recordVars, workerVars, repoVars, envVars>>

--------------------------------------------------------------------------------
(* Repair of a rejected candidate: retryReviewRejectedAttempt.             *)

RejectRecorded(t) == "REVIEW_REJECTED" \in Ev(t).closed

RejectedCandidate(t) ==
  /\ Finalizing(t) /\ ~OtherRunning(t)
  /\ tasks[t].base = authorized
  /\ HasFinal(t) /\ Ev(t).required /\ Ev(t).review = "REJECT"
  /\ Parent(Ev(t).final) = tasks[t].base
  /\ Ev(t).worker # 0 /\ (note[t].by = Ev(t).worker \/ Ev(t).noteCopy)
  /\ \/ head = Ev(t).final /\ TreeClean
     \/ /\ RejectRecorded(t) /\ head = tasks[t].base
        /\ \A c \in {tree, staged} \ {0} : c = -log[Ev(t).final].content
             \/ FilesIn(c) = FilesOfCommit(Ev(t).final)

ArchiveRejectedCandidate(t) ==
  /\ RejectedCandidate(t)
  /\ At("idle")
  /\ cmd' = [Idle EXCEPT !.step = "copyRejectedNote", !.task = t,
                         !.patch = log[Ev(t).final].content]
  /\ CloseAttempt(t, "REVIEW_REJECTED")
  /\ UNCHANGED <<stateVars, packet, launch, completion, handoff, manifest,
                 workerVars, repoVars, envVars>>

CopyRejectedNote ==
  /\ At("copyRejectedNote")
  /\ Record(cmd.task, Att(cmd.task), [Ev(cmd.task) EXCEPT !.noteCopy = TRUE])
  /\ Goto("releaseRejectedNote")
  /\ UNCHANGED <<stateVars, packet, launch, completion, handoff, manifest,
                 workerVars, repoVars, envVars>>

ReleaseRejectedNote ==
  /\ At("releaseRejectedNote")
  /\ LET t == cmd.task
     IN IF note[t].by = Ev(t).worker
          THEN note' = [note EXCEPT ![t] = NoNote]
          ELSE UNCHANGED note
  /\ Goto("moveRef")
  /\ UNCHANGED <<stateVars, recordVars, spawned, live, repoVars, envVars>>

\* update-ref HEAD base candidate, a compare-and-swap: only the ref moves, so
\* the index and the tree now differ from HEAD by the whole candidate.
MoveRef ==
  /\ At("moveRef")
  /\ LET t == cmd.task
     IN \/ /\ head = Ev(t).final
           /\ head' = tasks[t].base
           /\ staged' = cmd.patch
           /\ tree' = IF tree = 0 THEN cmd.patch ELSE tree
           /\ Goto("halfRetire")
        \/ /\ head # Ev(t).final
           /\ IF head = tasks[t].base THEN Goto("halfRetire") ELSE Finish
           /\ UNCHANGED <<head, staged, tree>>
  /\ UNCHANGED <<stateVars, recordVars, workerVars, log, envVars>>

HalfRetire ==
  /\ At("halfRetire")
  /\ tree' = IF tree = cmd.patch THEN -cmd.patch ELSE tree
  /\ staged' = IF staged = cmd.patch THEN -cmd.patch ELSE staged
  /\ Goto("retire")
  /\ UNCHANGED <<stateVars, recordVars, workerVars, log, head, envVars>>

Retire ==
  /\ At("retire")
  /\ LET mine(c) == c = 0 \/ c = -cmd.patch \/ FilesIn(c) = FilesIn(cmd.patch)
     IN IF mine(tree) /\ mine(staged) /\ head = tasks[cmd.task].base
          THEN tree' = 0 /\ staged' = 0 /\ Goto("reopenRejected")
          ELSE UNCHANGED <<tree, staged>> /\ Finish
  /\ UNCHANGED <<stateVars, recordVars, workerVars, log, head, envVars>>

ReopenRejected ==
  /\ At("reopenRejected")
  /\ SetTask(cmd.task, Reopened(cmd.task))
  /\ Finish
  /\ UNCHANGED <<authorized, recordVars, workerVars, repoVars, envVars>>

Retry(t) ==
  \/ RecordAbandonment(t)
  \/ ArchiveFailedAttempt(t) \/ ResumeArchival(t)
  \/ ArchiveRejectedCandidate(t)

RetryStep ==
  \/ ReopenAbandoned
  \/ CopyFailCompletion \/ CopyNote \/ ReleaseSlot \/ ReleaseNote
  \/ HalfReset \/ Reset \/ ReopenFailed
  \/ CopyRejectedNote \/ ReleaseRejectedNote \/ MoveRef \/ HalfRetire \/ Retire
  \/ ReopenRejected
================================================================================
