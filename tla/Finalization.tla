------------------------------ MODULE Finalization ------------------------------
(***************************************************************************)
(* dev-close of an attempt whose commit the orchestrator owns              *)
(* (src/dev/lib/finalize-orchestrated.ts): the official gate, the commit,  *)
(* the finalization record, the independent review, the close bundle and   *)
(* the promotion; or the sealing of an official FAIL.  A pending outcome   *)
(* only writes diagnostics and is a stuttering step here.                  *)
(***************************************************************************)
EXTENDS Launching

\* workingTreeFiles: porcelain lists what differs in the tree or the index.
WorkFiles == UNION {FilesIn(c) : c \in {tree, staged} \ {0}}

\* deriveCandidateFilesFromGit and loadSource: the authoritative sources.
Material(t) == IF head = packet[t] THEN WorkFiles ELSE FilesOfCommit(head)
SourceLoads(t) ==
  /\ packet[t] # NoCommit
  /\ launch[t].finished /\ launch[t].process \notin live
  /\ Material(t) # {}

IsCandidateOfAnyParent(t, c, files) ==
  /\ c # Baseline
  /\ FilesOfCommit(c) = files
  /\ log[c].task = t

\* assertCandidate: one parent, the base; same files; the task's own message.
IsCandidate(t, c, files) ==
  /\ c # Baseline
  /\ Parent(c) = packet[t]
  /\ FilesOfCommit(c) = files
  /\ log[c].task = t

\* verifyOrchestratedFinalizationRecord of attempt a.
FinalVerifies(t, a) ==
  LET e == evidence[t][a]
  IN /\ SourceLoads(t)
     /\ e.worker = note[t].by
     /\ FilesOfCommit(e.final) = Material(t)
     /\ IsCandidate(t, e.final, Material(t))
     /\ TreeClean

\* lookupCandidateReview: NOT_REQUIRED or ACCEPTED.
ReviewGrants(e) == ~e.required \/ e.review = "ACCEPT"

--------------------------------------------------------------------------------
(* finalizeOrchestratedTask: what a dev-close finds, one action per branch. *)

\* Nothing published for this attempt, its worker ended, the base authorized.
Closable(t) ==
  /\ At("idle")
  /\ Finalizing(t) /\ ~HasFinal(t) /\ ~OtherRunning(t)
  /\ Ev(t).source = 0
  /\ SourceLoads(t)
  /\ packet[t] = tasks[t].base /\ packet[t] = authorized
  /\ staged = 0

\* A finalization record exists: only the acceptance is left.
ResumeAcceptance(t, reviewed) ==
  /\ At("idle") /\ HasFinal(t)
  /\ cmd' = [Idle EXCEPT !.step = "accept", !.task = t, !.reviewed = reviewed]
  /\ UNCHANGED <<stateVars, recordVars, workerVars, repoVars, envVars>>

\* adoptSealedFail: the published FAIL goes back to the current slot.
AdoptSealedFail(t) ==
  /\ Finalizing(t) /\ ~HasFinal(t) /\ ~OtherRunning(t)
  /\ Ev(t).source # 0
  /\ Begin("failState", t)
  /\ completion' = [completion EXCEPT ![t] =
       [verdict |-> "FAIL", attempt |-> Att(t), commit |-> NoCommit, gate |-> TRUE]]
  /\ UNCHANGED <<stateVars, packet, launch, handoff, manifest, evidence,
                 workerVars, repoVars, envVars>>

\* HEAD already advanced: the candidate is captured after a new official gate
\* (a gate that fails leaves the task pending).
CaptureCandidate(t, reviewed) ==
  /\ Closable(t)
  /\ head # packet[t] /\ TreeClean
  /\ IsCandidate(t, head, Material(t))
  /\ Record(t, Att(t), [Ev(t) EXCEPT !.final = head, !.measured = log[head].content,
                                     !.required = reviewed, !.worker = note[t].by])
  /\ cmd' = [Idle EXCEPT !.step = "accept", !.task = t, !.reviewed = reviewed]
  /\ UNCHANGED <<stateVars, packet, launch, completion, handoff, manifest,
                 workerVars, repoVars, envVars>>

\* A declared FAILURE ends the attempt without a gate and without a source.
CloseDeclaredFailure(t) ==
  /\ Closable(t)
  /\ head = packet[t] /\ note[t].says = "FAILURE"
  /\ Begin("failSlot", t)
  /\ UNCHANGED <<stateVars, recordVars, workerVars, repoVars, envVars>>

\* The gate starts: patchFingerprint of the tree before the validations.
StartGate(t, reviewed) ==
  /\ Closable(t)
  /\ head = packet[t] /\ note[t].says # "FAILURE"
  /\ cmd' = [Idle EXCEPT !.step = "gate", !.task = t, !.patch = tree, !.reviewed = reviewed]
  /\ UNCHANGED <<stateVars, recordVars, workerVars, repoVars, envVars>>

--------------------------------------------------------------------------------
(* The official gate and the commit.                                       *)

\* Some validation failed: finishFail binds the source before the verdict.
GateFails ==
  /\ At("gate")
  /\ Goto("failArchive")
  /\ UNCHANGED <<stateVars, recordVars, workerVars, repoVars, envVars>>

\* All passed, but the tree, the index or HEAD moved meanwhile: a FAIL with no
\* failed validation, hence with no source to bind.
GateDrifts ==
  /\ At("gate")
  /\ tree # cmd.patch \/ staged # 0 \/ head # packet[cmd.task]
  /\ Goto("failSlot")
  /\ UNCHANGED <<stateVars, recordVars, workerVars, repoVars, envVars>>

\* All passed on an unmoved tree, which is measured a second time here.
GatePasses ==
  /\ At("gate")
  /\ tree = cmd.patch /\ staged = 0 /\ head = packet[cmd.task]
  /\ Goto("stage")
  /\ UNCHANGED <<stateVars, recordVars, workerVars, repoVars, envVars>>

\* stageFiles takes the files as they are now; only their names are compared.
Stage ==
  /\ At("stage")
  /\ IF WorkFiles = FilesIn(cmd.patch)
       THEN staged' = tree /\ Goto("commit")
       ELSE UNCHANGED staged /\ Goto("failSlot")
  /\ UNCHANGED <<stateVars, recordVars, workerVars, log, head, tree, envVars>>

\* git diff --cached --check failed and the index was restored.
CachedCheckFails ==
  /\ At("commit")
  /\ staged' = 0
  /\ Goto("failArchive")
  /\ UNCHANGED <<stateVars, recordVars, workerVars, log, head, tree, envVars>>

\* git commit itself failed: the index is restored and the error goes up.
CommitFails ==
  /\ At("commit")
  /\ staged' = 0
  /\ Finish
  /\ UNCHANGED <<stateVars, recordVars, workerVars, log, head, tree, envVars>>

CommitStaged ==
  /\ At("commit")
  /\ log' = Append(log, [task |-> cmd.task, parent |-> head, content |-> staged])
  /\ head' = Len(log) + 1
  /\ staged' = 0
  /\ tree' = IF tree = staged THEN 0 ELSE tree
  /\ cmd' = [cmd EXCEPT !.step = "record", !.candidate = Len(log) + 1]
  /\ UNCHANGED <<stateVars, recordVars, workerVars, envVars>>

\* The finalization record, unless the commit is not the expected candidate or
\* the checkout is not clean after all.
WriteFinal ==
  /\ At("record")
  /\ LET t == cmd.task
     IN IF IsCandidate(t, cmd.candidate, FilesIn(cmd.patch)) /\ TreeClean
          THEN /\ Record(t, Att(t), [Ev(t) EXCEPT !.final = cmd.candidate,
                       !.measured = cmd.patch, !.required = cmd.reviewed, !.worker = note[t].by])
               /\ Goto("accept")
          ELSE UNCHANGED evidence /\ Finish
  /\ UNCHANGED <<stateVars, packet, launch, completion, handoff, manifest,
                 workerVars, repoVars, envVars>>

--------------------------------------------------------------------------------
(* finishFail: archive, binding, current slot, state, in this order.       *)

\* deriveFailedAttemptSource measures the tree again; the archive of the FAIL
\* completion is append-only, and no two gates produce the same bytes.
ArchiveFail ==
  /\ At("failArchive")
  /\ LET t == cmd.task
     IN IF WorkFiles = FilesIn(cmd.patch) /\ staged = 0 /\ head = packet[t] /\ ~Ev(t).archive
          THEN /\ Record(t, Att(t), [Ev(t) EXCEPT !.archive = TRUE])
               /\ cmd' = [cmd EXCEPT !.step = "failBind", !.patch = tree]
          ELSE UNCHANGED evidence /\ Finish
  /\ UNCHANGED <<stateVars, packet, launch, completion, handoff, manifest,
                 workerVars, repoVars, envVars>>

BindFailSource ==
  /\ At("failBind")
  /\ Record(cmd.task, Att(cmd.task),
            [Ev(cmd.task) EXCEPT !.source = cmd.patch, !.worker = note[cmd.task].by])
  /\ Goto("failSlot")
  /\ UNCHANGED <<stateVars, packet, launch, completion, handoff, manifest,
                 workerVars, repoVars, envVars>>

WriteFailCompletion ==
  /\ At("failSlot")
  /\ completion' = [completion EXCEPT ![cmd.task] =
       [verdict |-> "FAIL", attempt |-> Att(cmd.task), commit |-> NoCommit,
        gate |-> Ev(cmd.task).source # 0]]
  /\ Goto("failState")
  /\ UNCHANGED <<stateVars, packet, launch, handoff, manifest, evidence,
                 workerVars, repoVars, envVars>>

WriteFailState ==
  /\ At("failState")
  /\ SetTask(cmd.task, [tasks[cmd.task] EXCEPT !.status = "FAIL", !.phase = "NONE",
                                               !.accepted = NoCommit])
  /\ Finish
  /\ UNCHANGED <<authorized, recordVars, workerVars, repoVars, envVars>>

--------------------------------------------------------------------------------
(* acceptValidatedCandidate: review, seal, promote.                        *)

\* The authority publishes a durable verdict on this candidate.
Review(verdict) ==
  /\ At("accept") /\ cmd.reviewed
  /\ Ev(cmd.task).required /\ Ev(cmd.task).review = "NONE"
  /\ Record(cmd.task, Att(cmd.task), [Ev(cmd.task) EXCEPT !.review = verdict])
  /\ UNCHANGED <<stateVars, packet, launch, completion, handoff, manifest,
                 workerVars, repoVars, cmd, envVars>>

\* No authority, an undecided or a rejected candidate, or a record that no
\* longer verifies: the candidate stays prepared and the task pending.
AcceptancePends ==
  /\ At("accept")
  /\ ~ReviewGrants(Ev(cmd.task)) \/ ~FinalVerifies(cmd.task, Att(cmd.task))
  /\ Finish
  /\ UNCHANGED <<stateVars, recordVars, workerVars, repoVars, envVars>>

BeginSealWithoutReview ==
  /\ At("accept")
  /\ FinalVerifies(cmd.task, Att(cmd.task))
  /\ Goto("sealCompletion")
  /\ UNCHANGED <<stateVars, recordVars, workerVars, repoVars, envVars>>

\* sealOrchestratedFinalization: first the review, then the record's sources.
BeginSeal ==
  /\ At("accept")
  /\ ReviewGrants(Ev(cmd.task))
  /\ FinalVerifies(cmd.task, Att(cmd.task))
  /\ Goto("sealCompletion")
  /\ UNCHANGED <<stateVars, recordVars, workerVars, repoVars, envVars>>

PassCompletion(t, a) ==
  [verdict |-> "PASS", attempt |-> a, commit |-> evidence[t][a].final, gate |-> TRUE]

SealCompletionOnce(next, refused) ==
  LET t == cmd.task
  IN /\ IF completion[t] = NoCompletion
          THEN completion' = [completion EXCEPT ![t] = PassCompletion(t, Att(t))] /\ next
          ELSE UNCHANGED completion /\ refused
     /\ UNCHANGED <<stateVars, packet, launch, handoff, manifest, evidence,
                    workerVars, repoVars, envVars>>

\* assertOrWrite of the CompletionRecord: absent or equal, else the seal throws.
SealCompletion(next, refused) ==
  LET t == cmd.task
  IN /\ IF completion[t] \in {NoCompletion, PassCompletion(t, Att(t))}
          THEN completion' = [completion EXCEPT ![t] = PassCompletion(t, Att(t))] /\ next
          ELSE UNCHANGED completion /\ refused
     /\ UNCHANGED <<stateVars, packet, launch, handoff, manifest, evidence,
                    workerVars, repoVars, envVars>>

SealHandoff(next, refused) ==
  LET t == cmd.task
  IN /\ IF handoff[t] \in {NoCommit, Ev(t).final}
          THEN handoff' = [handoff EXCEPT ![t] = Ev(t).final] /\ next
          ELSE UNCHANGED handoff /\ refused
     /\ UNCHANGED <<stateVars, packet, launch, completion, manifest, evidence,
                    workerVars, repoVars, envVars>>

SealManifest(next, refused) ==
  LET t == cmd.task
  IN /\ IF manifest[t] \in {NoCommit, Ev(t).final}
          THEN manifest' = [manifest EXCEPT ![t] = Ev(t).final] /\ next
          ELSE UNCHANGED manifest /\ refused
     /\ UNCHANGED <<stateVars, packet, launch, completion, handoff, evidence,
                    workerVars, repoVars, envVars>>

PromoteKeepingBase ==
  /\ At("promote")
  /\ LET t == cmd.task
     IN IF Status(t) \in {"RUNNING", "PASS"}
          THEN SetTask(t, [tasks[t] EXCEPT !.status = "PASS", !.phase = "NONE",
                                           !.accepted = Ev(t).final])
          ELSE UNCHANGED tasks
  /\ Finish
  /\ UNCHANGED <<authorized, recordVars, workerVars, repoVars, envVars>>

\* promoteState: RUNNING or PASS becomes PASS and the base moves to its commit.
Promote ==
  /\ At("promote")
  /\ LET t == cmd.task
     IN IF Status(t) \in {"RUNNING", "PASS"}
          THEN /\ SetTask(t, [tasks[t] EXCEPT !.status = "PASS", !.phase = "NONE",
                                              !.accepted = Ev(t).final])
               /\ authorized' = Ev(t).final
          ELSE UNCHANGED stateVars
  /\ Finish
  /\ UNCHANGED <<recordVars, workerVars, repoVars, envVars>>

SealStep ==
  \/ At("sealCompletion") /\ SealCompletion(Goto("sealHandoff"), Finish)
  \/ At("sealHandoff") /\ SealHandoff(Goto("sealManifest"), Finish)
  \/ At("sealManifest") /\ SealManifest(Goto("promote"), Finish)

Close(t) ==
  \/ \E reviewed \in {FALSE, Reviewing} :
       ResumeAcceptance(t, reviewed) \/ CaptureCandidate(t, reviewed) \/ StartGate(t, reviewed)
  \/ AdoptSealedFail(t)
  \/ CloseDeclaredFailure(t)

CloseStep ==
  \/ GateFails \/ GateDrifts \/ GatePasses \/ Stage \/ CachedCheckFails \/ CommitFails
  \/ CommitStaged \/ WriteFinal
  \/ ArchiveFail \/ BindFailSource \/ WriteFailCompletion \/ WriteFailState
  \/ \E verdict \in {"ACCEPT", "REJECT"} : Review(verdict)
  \/ AcceptancePends \/ BeginSeal \/ SealStep \/ Promote
================================================================================
