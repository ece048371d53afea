------------------------------ MODULE TaskRuntime ------------------------------
(***************************************************************************)
(* The harness as a whole: the commands of Launching, Finalization,        *)
(* Retrying and Recovery run one at a time over the shared state, while    *)
(* workers and people touch the same checkout and a command may die        *)
(* between any two of its durable writes.                                  *)
(***************************************************************************)
EXTENDS Recovery

\* The orchestrating process dies; its memory is gone, its workers are not.
Crash ==
  /\ ~At("idle") /\ crashes < MaxCrashes
  /\ Finish
  /\ crashes' = crashes + 1
  /\ UNCHANGED <<stateVars, recordVars, workerVars, repoVars, edits, foreign>>

\* Somebody edits or cleans the checkout.
OutsideEdit ==
  /\ edits < MaxEdits
  /\ tree' \in (Patch \cup {0}) \ {tree}
  /\ edits' = edits + 1
  /\ UNCHANGED <<stateVars, recordVars, workerVars, log, head, staged, cmd, crashes, foreign>>

\* Somebody commits what is in the tree.
OutsideCommit ==
  /\ foreign < MaxOutsideCommits
  /\ tree \in Patch /\ staged = 0
  /\ log' = Append(log, [task |-> 0, parent |-> head, content |-> tree])
  /\ head' = Len(log) + 1
  /\ tree' = 0
  /\ foreign' = foreign + 1
  /\ UNCHANGED <<stateVars, recordVars, workerVars, staged, cmd, crashes, edits>>

StartCommand ==
  \/ Recover
  \/ \E t \in Task : PrepareNextTask(t) \/ Launch(t) \/ Close(t) \/ Retry(t)

CommandStep == LaunchStep \/ CloseStep \/ RetryStep \/ RecoverStep

Next == StartCommand \/ CommandStep \/ WorkerStep \/ Crash \/ OutsideEdit \/ OutsideCommit

\* A command that runs goes on, a worker ends (or is killed at its machine
\* ceiling), and somebody keeps reconciling and closing what is pending.
Fairness ==
  /\ WF_vars(CommandStep)
  /\ WF_vars(\E p \in Pid : WorkerExits(p))
  /\ SF_vars(Recover)

Spec == Init /\ [][Next]_vars /\ Fairness

--------------------------------------------------------------------------------
Steps == {"idle", "spawn", "openRecord", "started", "await", "settle",
          "gate", "stage", "commit", "record", "failArchive", "failBind", "failSlot",
          "failState", "accept", "sealCompletion", "sealHandoff", "sealManifest", "promote",
          "reopenAbandoned", "copyFail", "copyNote", "releaseSlot", "releaseNote",
          "halfReset", "reset", "reopenFailed", "copyRejectedNote", "releaseRejectedNote",
          "moveRef", "halfRetire", "retire", "reopenRejected",
          "recover", "recoverCompletion", "recoverHandoff", "recoverManifest"}

CommitOrNone == {NoCommit} \cup Commit

TaskStates ==
  [status : {"READY", "RUNNING", "PASS", "FAIL", "INFRA_ERROR", "TIMED_OUT"},
   phase : {"NONE", "EXECUTING", "FINALIZING"}, attempts : 0..MaxAttempts,
   process : 0..Len(spawned), base : CommitOrNone, accepted : CommitOrNone]

LaunchRecords == [process : 0..Len(spawned), finished : BOOLEAN]

CompletionRecords ==
  [verdict : {"NONE", "PASS", "FAIL"}, attempt : 0..MaxAttempts,
   commit : CommitOrNone, gate : BOOLEAN]

EvidenceStates ==
  [archive : BOOLEAN, source : Content, final : CommitOrNone, measured : Content,
   required : BOOLEAN, review : {"NONE", "ACCEPT", "REJECT"}, worker : 0..Len(spawned),
   closed : SUBSET {"ABANDONED", "VALIDATION_FAILED", "REVIEW_REJECTED"},
   failCopy : BOOLEAN, noteCopy : BOOLEAN]

Notes == [by : 0..Len(spawned), says : {"NOTHING", "SUCCESS", "FAILURE"}]

LogEntries == [task : 0..NumTasks, parent : Nat, content : Content]

Commands ==
  [step : Steps, task : 1..NumTasks + 1, patch : Content, candidate : CommitOrNone,
   outcome : {"NONE", "FINISHED", "INFRA_ERROR", "TIMED_OUT"},
   reviewed : BOOLEAN, promoted : SUBSET Task]

StateTypes == tasks \in [Task -> TaskStates] /\ authorized \in Commit

RecordTypes ==
  /\ packet \in [Task -> CommitOrNone]
  /\ launch \in [Task -> LaunchRecords]
  /\ completion \in [Task -> CompletionRecords]
  /\ handoff \in [Task -> CommitOrNone]
  /\ manifest \in [Task -> CommitOrNone]
  /\ evidence \in [Task -> [Attempt -> EvidenceStates]]

WorkerTypes ==
  note \in [Task -> Notes] /\ spawned \in Seq(Task) /\ live \subseteq Pid

RepoTypes ==
  log \in Seq(LogEntries) /\ head \in Commit /\ tree \in Content /\ staged \in Content

EnvTypes ==
  crashes \in 0..MaxCrashes /\ edits \in 0..MaxEdits /\ foreign \in 0..MaxOutsideCommits

\* Types of the shared state.
TypeOK ==
  StateTypes /\ RecordTypes /\ WorkerTypes /\ RepoTypes /\ cmd \in Commands /\ EnvTypes

Accepted == {t \in Task : Status(t) = "PASS"}
AcceptedCommits == {tasks[t].accepted : t \in Accepted}

\* A task is PASS only on the full agreement of everything that was published
\* for its attempt: finalization record, close bundle, the ACCEPT a review owed,
\* and no record that archived the attempt as failed or rejected
\* (sealOrchestratedFinalization, promoteState, reconcileTask).  A crash of
\* dev-retry may leave an abandonment record of an attempt that then passes.
AcceptedIsSealed ==
  \A t \in Accepted :
    LET e == Ev(t)
    IN /\ tasks[t].accepted = e.final
       /\ completion[t] = [verdict |-> "PASS", attempt |-> Att(t),
                           commit |-> e.final, gate |-> TRUE]
       /\ handoff[t] = e.final /\ manifest[t] = e.final
       /\ ReviewGrants(e)
       /\ e.closed \subseteq {"ABANDONED"}

\* Accepted commits form one line of history: every one starts at the baseline
\* or at another accepted commit, no two start at the same place, and each
\* task has its own (launchTask's base guard, assertCandidate).
AcceptedLine ==
  /\ \A t \in Accepted :
       /\ log[tasks[t].accepted].task = t
       /\ Parent(tasks[t].accepted) \in AcceptedCommits \cup {Baseline}
  /\ \A t, u \in Accepted :
       Parent(tasks[t].accepted) = Parent(tasks[u].accepted) => t = u

\* The base handed to the next task is the youngest accepted commit, as long as
\* nobody else's commit changes the same set of files as an accepted one: with
\* equal sets, closing the older task again takes the commit at HEAD for its
\* candidate and moves the base back (run base_regression).
AuthorizedIsTip ==
  (\A c \in AcceptedCommits : \A d \in 1..Len(log) :
     FilesOfCommit(c) = FilesOfCommit(d) => log[c].task = log[d].task)
  => authorized = DerivedHead(tasks)

\* No attempt is left behind without a record that says how it ended
\* (writeAttemptAbandonment, writeValidationFailedAttempt,
\* writeReviewRejectedAttempt come before the state goes back to READY).
SupersededAttemptsClosed ==
  \A t \in Task : \A a \in Attempt :
    a < Att(t) \/ (a = Att(t) /\ Status(t) = "READY") =>
      evidence[t][a].closed # {}

\* Sessions that no attempt counts: their launch died before onStarted.
Launching(t) == cmd.step \in {"openRecord", "started"} /\ cmd.task = t
StraySession ==
  \E t \in Task : Cardinality({p \in Pid : spawned[p] = t})
                   > Att(t) + (IF Launching(t) THEN 1 ELSE 0)

\* Nobody but the commands and the session of the attempt touched anything.
Undisturbed == edits = 0 /\ foreign = 0 /\ ~StraySession

\* The current completion slot never shows the verdict of an earlier attempt,
\* and is empty while an attempt executes (releaseCurrentCompletion).  An edit
\* during the gate makes a FAIL without a source, which dev-retry leaves there.
SlotBelongsToAttempt ==
  Undisturbed => \A t \in Task :
    /\ completion[t].verdict # "NONE" => completion[t].attempt = Att(t)
    /\ Status(t) = "RUNNING" /\ tasks[t].phase = "EXECUTING" => completion[t] = NoCompletion

\* A patch the official gate rejected stays in the tree until its record, its
\* verdict and its worker's note are all preserved, as long as only the
\* commands touch the checkout (retryFailedAttempt publishes, then resets).
RejectedPatchPreserved ==
  Undisturbed =>
    \A t \in Task : \A a \in Attempt :
      LET e == evidence[t][a]
      IN e.source # 0 /\ tree # e.source =>
           "VALIDATION_FAILED" \in e.closed /\ e.failCopy /\ (e.worker # 0 => e.noteCopy)

\* No task stays RUNNING/EXECUTING for ever (recover.ts: a dead worker in
\* EXECUTING becomes INFRA_ERROR).
ExecutingEnds ==
  \A t \in Task : (Status(t) = "RUNNING" /\ tasks[t].phase = "EXECUTING")
                    ~> ~(Status(t) = "RUNNING" /\ tasks[t].phase = "EXECUTING")

\* A published finalization that no review holds back is always accepted in the
\* end, wherever the commands that seal it die (reconcileTask starts
\* from the records alone).
FinalizationConverges ==
  \A t \in Task :
    HasFinal(t) /\ ReviewGrants(Ev(t)) ~> Status(t) = "PASS" \/ ~Undisturbed

--------------------------------------------------------------------------------
(* The board a reader of the plan sees.                                    *)

Column == [READY |-> "todo", RUNNING |-> "working", PASS |-> "accepted",
           FAIL |-> "blocked", INFRA_ERROR |-> "blocked", TIMED_OUT |-> "blocked"]
TaskOf(c) == IF c \in {NoCommit, Baseline} THEN 0 ELSE log[c].task

Board == INSTANCE TaskBoard WITH
  Tasks <- Task, DependsOn <- Deps,
  board <- [t \in Task |-> Column[Status(t)]],
  from  <- [t \in Task |-> TaskOf(tasks[t].base)],
  tip   <- TaskOf(DerivedHead(tasks))

\* The harness implements the board: whatever crashes and edits do, a task is
\* started alone, after its dependencies, from the last accepted work, and is
\* accepted only on top of that same work (selectNextTask, launchTask,
\* finalizeOrchestratedTask, recover).
ImplementsBoard == Board!BoardSpec
================================================================================
