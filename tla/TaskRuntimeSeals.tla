---------------------------- MODULE TaskRuntimeSeals ----------------------------
(***************************************************************************)
(* A task is PASS only on the full agreement of everything that was        *)
(* published for its attempt, for any plan, any patches and any bounds.    *)
(***************************************************************************)
EXTENDS TaskRuntimeHistory

\* A review that was owed has said no, and it never says anything else.
Rejected(e) == e.required /\ e.review = "REJECT"

\* Steps by what the command that is at them has found or written.
Awaiting  == {"await", "settle"}
Unsourced == {"gate", "stage", "commit", "record", "failArchive", "failBind"}
Closing   == Unsourced \cup {"failSlot", "failState"}
Refailing == {"copyFail", "copyNote", "releaseSlot", "releaseNote", "halfReset", "reset",
              "reopenFailed"}
Rejecting == {"copyRejectedNote", "releaseRejectedNote", "moveRef", "halfRetire", "retire",
              "reopenRejected"}
Unsealed  == {"sealCompletion", "recoverCompletion"}
Sealed    == {"sealHandoff", "recoverHandoff", "sealManifest", "recoverManifest", "promote"}

\* A bound FAIL source and a finalization exclude each other; what archives an
\* attempt as failed or as rejected rests on one of them.
EvidenceSound(e) ==
  /\ e.source # 0 => e.final = NoCommit
  /\ "VALIDATION_FAILED" \in e.closed => e.source # 0
  /\ "REVIEW_REJECTED" \in e.closed => e.final # NoCommit /\ Rejected(e)

EvidenceInv ==
  \A t \in Task : \A a \in Attempt :
    /\ EvidenceSound(evidence[t][a])
    /\ a > Att(t) => evidence[t][a] = NoEvidence

\* A finalization that no review rejected keeps its task RUNNING, behind HEAD,
\* or PASS; a PASS in the completion slot is the finalization's.
TaskInv(t) ==
  /\ HasFinal(t) => Status(t) \in {"RUNNING", "PASS"} \/ Rejected(Ev(t))
  /\ HasFinal(t) /\ Status(t) = "RUNNING" =>
       tasks[t].phase # "EXECUTING" /\ (head = tasks[t].base => Rejected(Ev(t)))
  /\ completion[t].verdict = "PASS" =>
       completion[t] = PassCompletion(t, Att(t)) /\ HasFinal(t) /\ ReviewGrants(Ev(t))
  /\ Status(t) = "PASS" =>
       /\ HasFinal(t) /\ tasks[t].accepted = Ev(t).final
       /\ completion[t].verdict = "PASS"
       /\ handoff[t] = Ev(t).final /\ manifest[t] = Ev(t).final

\* What a command at step s of task t can rely on.
Relies(s, t) ==
  /\ s \in Awaiting => Status(t) = "RUNNING" /\ tasks[t].phase = "EXECUTING"
  /\ s \in Closing => Finalizing(t) /\ ~HasFinal(t)
  /\ s \in Unsourced => Ev(t).source = 0
  /\ s = "record" => head # tasks[t].base
  /\ s = "reopenAbandoned" => Status(t) = "RUNNING" /\ (HasFinal(t) => Rejected(Ev(t)))
  /\ s \in Refailing => Status(t) \in {"FAIL", "READY"}
  /\ s \in Rejecting => Finalizing(t) /\ ~OtherRunning(t) /\ Rejected(Ev(t))
  /\ s \in Unsealed \cup Sealed => ReviewGrants(Ev(t))
  /\ s \in Sealed => completion[t].verdict = "PASS"
  /\ s \in {"sealManifest", "recoverManifest", "promote"} => handoff[t] = Ev(t).final
  /\ s = "promote" => manifest[t] = Ev(t).final

\* What recover has sealed agrees before it is promoted.
PromotedInv ==
  \A u \in cmd.promoted : handoff[u] = Ev(u).final /\ manifest[u] = Ev(u).final

SealedInv ==
  /\ HistoryInv
  /\ EvidenceInv
  /\ \A t \in Task : TaskInv(t)
  /\ Relies(cmd.step, cmd.task)
  /\ PromotedInv

--------------------------------------------------------------------------------
(* What is left alone stays sound.                                         *)

\* A task none of whose records is written, while HEAD stays or moves off its base.
LEMMA TaskFrame ==
  ASSUME NEW t \in Task, TaskInv(t), tasks'[t] = tasks[t], evidence'[t] = evidence[t],
         completion'[t] = completion[t], handoff'[t] = handoff[t], manifest'[t] = manifest[t],
         head' = head \/ head' # tasks[t].base \/ Status(t) # "RUNNING"
  PROVE  TaskInv(t)'
  BY DEF TaskInv, HasFinal, Ev, Att, Status, Rejected, ReviewGrants, PassCompletion

\* What a command relies on, while only repository, inbox and command change.
LEMMA ReliesFrame ==
  ASSUME NEW s, NEW t, Relies(s, t),
         UNCHANGED <<tasks, evidence, completion, handoff, manifest>>,
         head' = head \/ head' # tasks[t].base
  PROVE  Relies(s, t)'
  BY DEF Relies, HasFinal, Ev, Att, Status, Rejected, ReviewGrants, Finalizing, OtherRunning

\* The step and the task of the command say what it relies on.
LEMMA ReliesNow ==
  ASSUME NEW s, NEW t, Relies(s, t)', cmd'.step = s, cmd'.task = t
  PROVE  Relies(cmd.step, cmd.task)'
  BY DEF Relies, HasFinal, Ev, Att, Status, Rejected, ReviewGrants, Finalizing, OtherRunning

\* Steps that rely on nothing.
LEMMA ReliesOnNothing ==
  ASSUME NEW t,
         NEW s \in Steps \ (Awaiting \cup Closing \cup Refailing \cup Rejecting \cup Unsealed
                             \cup Sealed \cup {"reopenAbandoned"})
  PROVE  Relies(s, t) /\ Relies(s, t)'
  BY DEF Relies, Awaiting, Closing, Unsourced, Refailing, Rejecting, Unsealed, Sealed

\* Before the first attempt there is no record to rely on.
LEMMA EvWhole ==
  ASSUME SealedInv, NEW t \in Task
  PROVE  /\ tasks[t] \in TaskStates
         /\ Att(t) \in 0..MaxAttempts
         /\ Ev(t) \in EvidenceStates
         /\ EvidenceSound(Ev(t))
         /\ Att(t) = 0 => Ev(t) = NoEvidence
         /\ Att(t) > 0 => Att(t) \in Attempt /\ Ev(t) = evidence[t][Att(t)]
<1>1. tasks[t] \in TaskStates
  BY DEF SealedInv, HistoryInv, RuntimeInv, TypeOK, StateTypes
<1>2. Ev(t) \in EvidenceStates
  BY EvTypes DEF SealedInv, HistoryInv, RuntimeInv
<1>3. EvidenceSound(NoEvidence)
  BY DEF EvidenceSound, NoEvidence
<1> QED
  BY <1>1, <1>2, <1>3, EvWhere DEF SealedInv, HistoryInv, EvidenceInv

\* Actions that write no record and no state.
LEMMA QuietSeals ==
  ASSUME SealedInv, HistoryInv',
         UNCHANGED <<tasks, evidence, completion, handoff, manifest>>,
         head' = head \/ head' = Len(log) + 1,
         NEW s, NEW t, t \in Task \/ Relies(s, t)', Relies(s, t), cmd'.step = s, cmd'.task = t,
         cmd'.promoted \in {cmd.promoted, {}}
  PROVE  SealedInv'
<1>1. \A u \in Task : Len(log) + 1 # tasks[u].base
  BY EvWhole DEF SealedInv, HistoryInv, RuntimeInv, TypeOK, RepoTypes, TaskStates,
     CommitOrNone, Commit, NoCommit
<1>2. \A u \in Task : TaskInv(u)'
  BY <1>1, TaskFrame DEF SealedInv
<1>3. Relies(cmd.step, cmd.task)'
  BY <1>1, ReliesFrame, ReliesNow
<1>4. EvidenceInv'
  BY DEF SealedInv, EvidenceInv, Att
<1>5. PromotedInv'
  BY DEF SealedInv, PromotedInv, Ev, Att
<1> QED
  BY <1>2, <1>3, <1>4, <1>5 DEF SealedInv

\* What publishing a record of the current attempt changes.
LEMMA Written ==
  ASSUME SealedInv, NEW t \in Task, Att(t) > 0, NEW new, Record(t, Att(t), new),
         UNCHANGED tasks
  PROVE  /\ Ev(t)' = new /\ evidence'[t][Att(t)] = new
         /\ \A u \in Task \ {t} : evidence'[u] = evidence[u]
         /\ \A a \in Attempt \ {Att(t)} : evidence'[t][a] = evidence[t][a]
<1>1. Att(t) \in Attempt
  BY EvWhole
<1>2. evidence'[t][Att(t)] = new
  BY <1>1 DEF Record, SealedInv, HistoryInv, RuntimeInv, TypeOK, RecordTypes
<1>3. Ev(t)' = new
  BY <1>2 DEF Ev, Att
<1> QED
  BY <1>1, <1>2, <1>3 DEF Record, SealedInv, HistoryInv, RuntimeInv, TypeOK, RecordTypes

\* Actions that publish a record.
LEMMA RecordSeals ==
  ASSUME SealedInv, HistoryInv', NEW t \in Task, Att(t) > 0, NEW new,
         Record(t, Att(t), new), EvidenceSound(new),
         UNCHANGED <<tasks, completion, handoff, manifest, head>>,
         TaskInv(t)', Relies(cmd.step, cmd.task)', cmd'.promoted = {}
  PROVE  SealedInv'
<1>1. \A u \in Task \ {t} : TaskInv(u)'
  BY Written, TaskFrame DEF SealedInv
<1>2. EvidenceInv'
  <2>1. ASSUME NEW u \in Task, NEW a \in Attempt
        PROVE  EvidenceSound(evidence'[u][a]) /\ (a > Att(u) => evidence'[u][a] = NoEvidence)
    <3>1. Att(t) \in Attempt /\ Att(t) \in Nat
      BY EvWhole DEF Attempt
    <3>2. CASE u = t /\ a = Att(t)
      BY <3>1, <3>2, Written
    <3>3. CASE ~(u = t /\ a = Att(t))
      BY <3>1, <3>3, Written DEF SealedInv, EvidenceInv
    <3> QED
      BY <3>2, <3>3
  <2> QED
    BY <2>1 DEF EvidenceInv, Att, EvidenceSound, Rejected
<1>3. PromotedInv'
  BY DEF PromotedInv
<1> QED
  BY <1>1, <1>2, <1>3 DEF SealedInv

\* Records that say as much as before about finalization and review.
LEMMA AnnotationSeals ==
  ASSUME SealedInv, HistoryInv', NEW t \in Task, Att(t) > 0, NEW new,
         Record(t, Att(t), new), EvidenceSound(new),
         new.final = Ev(t).final, new.required = Ev(t).required, new.review = Ev(t).review,
         UNCHANGED <<tasks, completion, handoff, manifest, head>>,
         NEW s, Relies(s, t), s \in Unsourced => new.source = Ev(t).source,
         cmd'.step = s, cmd'.task = t, cmd'.promoted = {}
  PROVE  SealedInv'
<1>1. Ev(t)' = new /\ evidence'[t][Att(t)] = new /\ Att(t)' = Att(t) /\ Status(t)' = Status(t)
  BY Written DEF Att, Status
<1>2. PassCompletion(t, Att(t))' = PassCompletion(t, Att(t))
  BY <1>1, EvWhole DEF PassCompletion
<1>3. TaskInv(t)'
  BY <1>1, <1>2 DEF SealedInv, TaskInv, HasFinal, Rejected, ReviewGrants
<1>4. Relies(s, t)'
  BY <1>1 DEF Relies, HasFinal, Rejected, ReviewGrants, Finalizing, OtherRunning, Status
<1>5. Relies(cmd.step, cmd.task)'
  BY <1>4, ReliesNow
<1> QED
  BY <1>3, <1>5, RecordSeals

\* Actions that write one task of state.json.
LEMMA StateSeals ==
  ASSUME SealedInv, HistoryInv', NEW t \in Task, NEW new, SetTask(t, new),
         new.attempts \in {Att(t), Att(t) + 1},
         UNCHANGED <<evidence, completion, handoff, manifest, head>>,
         TaskInv(t)', Relies(cmd.step, cmd.task)', cmd'.promoted = {}
  PROVE  SealedInv'
<1>1. tasks'[t] = new /\ \A u \in Task \ {t} : tasks'[u] = tasks[u]
  BY DEF SetTask, SealedInv, HistoryInv, RuntimeInv, TypeOK, StateTypes
<1>2. \A u \in Task \ {t} : TaskInv(u)'
  BY <1>1, TaskFrame DEF SealedInv
<1>3. EvidenceInv'
  BY <1>1, EvWhole DEF SealedInv, EvidenceInv, Att, Attempt, EvidenceSound, Rejected
<1>4. PromotedInv'
  BY DEF PromotedInv
<1> QED
  BY <1>2, <1>3, <1>4 DEF SealedInv

\* Actions that write the completion slot of one task.
LEMMA SlotSeals ==
  ASSUME SealedInv, HistoryInv', NEW t \in Task, NEW new,
         completion' = [completion EXCEPT ![t] = new],
         UNCHANGED <<tasks, evidence, handoff, manifest, head>>,
         TaskInv(t)', Relies(cmd.step, cmd.task)', cmd'.promoted \in {cmd.promoted, {}}
  PROVE  SealedInv'
<1>1. \A u \in Task \ {t} : completion'[u] = completion[u]
  BY DEF SealedInv, HistoryInv, RuntimeInv, TypeOK, RecordTypes
<1>2. \A u \in Task \ {t} : TaskInv(u)'
  BY <1>1, TaskFrame DEF SealedInv
<1>3. EvidenceInv'
  BY DEF SealedInv, EvidenceInv, Att
<1>4. PromotedInv'
  BY DEF SealedInv, PromotedInv, Ev, Att
<1> QED
  BY <1>2, <1>3, <1>4 DEF SealedInv

--------------------------------------------------------------------------------
(* Where the command goes.                                                 *)

\* The task of a command and what it has sealed.
LEMMA CommandFacts ==
  ASSUME SealedInv
  PROVE  /\ cmd \in Commands
         /\ cmd.step # "recover" => cmd.task \in Task
         /\ cmd.step \notin {"recover", "recoverCompletion", "recoverHandoff",
                             "recoverManifest"} => cmd.promoted = {}
         /\ cmd.step \in Gate \cup Sealing => Att(cmd.task) > 0
         /\ cmd.step \in Sealing => HasFinal(cmd.task)
  BY DEF SealedInv, HistoryInv, RuntimeInv, TypeOK, CommandInv

\* The next step of a command is for the same task.
LEMMA GotoMoves ==
  ASSUME cmd \in Commands, NEW s, Goto(s)
  PROVE  cmd'.step = s /\ cmd'.task = cmd.task /\ cmd'.promoted = cmd.promoted
  BY DEF Goto, Commands

\* A command that ends, stays or goes on without writing records or state.
LEMMA IdleRelies == Relies("idle", 1) /\ Relies("idle", 1)'
  BY ReliesOnNothing DEF Steps, Awaiting, Closing, Unsourced, Refailing, Rejecting, Unsealed,
     Sealed

LEMMA IdleSeals ==
  ASSUME SealedInv, HistoryInv', cmd' = Idle,
         UNCHANGED <<tasks, evidence, completion, handoff, manifest>>,
         head' = head \/ head' = Len(log) + 1
  PROVE  SealedInv'
<1>1. cmd'.step = "idle" /\ cmd'.task = 1 /\ cmd'.promoted = {}
  BY DEF Idle
<1> QED
  BY <1>1, IdleRelies, QuietSeals

LEMMA StaySeals ==
  ASSUME SealedInv, HistoryInv', UNCHANGED cmd,
         UNCHANGED <<tasks, evidence, completion, handoff, manifest>>,
         head' = head \/ head' = Len(log) + 1
  PROVE  SealedInv'
<1>1. PICK s, t : s = cmd.step /\ t = cmd.task
  OBVIOUS
<1>2. Relies(s, t)
  BY <1>1 DEF SealedInv
<1>3. t \in Task \/ Relies(s, t)'
  <2>1. CASE s = "recover"
    BY <2>1, ReliesOnNothing DEF Steps, Awaiting, Closing, Unsourced, Refailing, Rejecting,
       Unsealed, Sealed
  <2> QED
    BY <1>1, <2>1, CommandFacts
<1> QED
  BY <1>1, <1>2, <1>3, QuietSeals

LEMMA GotoSeals ==
  ASSUME SealedInv, HistoryInv', NEW s, Goto(s), cmd.step # "recover", Relies(s, cmd.task),
         UNCHANGED <<tasks, evidence, completion, handoff, manifest>>,
         head' = head \/ head' = Len(log) + 1
  PROVE  SealedInv'
<1>1. PICK t \in Task : t = cmd.task
  BY CommandFacts
<1>2. Relies(s, t)
  BY <1>1
<1> QED
  BY <1>1, <1>2, QuietSeals, GotoMoves, CommandFacts

LEMMA BeginSeals ==
  ASSUME SealedInv, HistoryInv', NEW s, NEW t \in Task, Relies(s, t),
         cmd'.step = s, cmd'.task = t, cmd'.promoted = {},
         UNCHANGED <<tasks, evidence, completion, handoff, manifest>>,
         head' = head \/ head' = Len(log) + 1
  PROVE  SealedInv'
  BY QuietSeals

--------------------------------------------------------------------------------
(* The actions.                                                            *)

\* Launching: an attempt starts without records and with an empty slot.
LEMMA LaunchSeals == SealedInv /\ HistoryInv' /\ LaunchStep => SealedInv'
<1> SUFFICES ASSUME SealedInv, HistoryInv', LaunchStep PROVE SealedInv'
  OBVIOUS
<1>1. cmd \in Commands /\ Relies(cmd.step, cmd.task)
  BY CommandFacts DEF SealedInv
<1>2. CASE LaunchRefused
  BY <1>2, IdleSeals DEF LaunchRefused, Finish, stateVars, recordVars, repoVars
<1>3. CASE Spawn
  <2>1. Relies("openRecord", cmd.task)
    BY DEF Relies, Awaiting, Closing, Unsourced, Refailing, Rejecting, Unsealed, Sealed
  <2> QED
    BY <1>3, <2>1, GotoSeals DEF Spawn, At, stateVars, recordVars, repoVars
<1>4. CASE OpenRecord
  <2>1. Relies("started", cmd.task)
    BY DEF Relies, Awaiting, Closing, Unsourced, Refailing, Rejecting, Unsealed, Sealed
  <2> QED
    BY <1>4, <2>1, GotoSeals DEF OpenRecord, At, stateVars, repoVars
<1>5. ASSUME NEW outcome, Terminated(outcome) PROVE SealedInv'
  <2>1. PICK t \in Task : t = cmd.task
    BY <1>5, CommandFacts DEF Terminated, At
  <2>2. Relies("settle", t)
    BY <1>1, <1>5, <2>1 DEF Terminated, At, Relies, Awaiting, Closing, Unsourced, Refailing,
       Rejecting, Unsealed, Sealed
  <2>3. cmd'.step = "settle" /\ cmd'.task = t /\ cmd'.promoted = {}
    BY <1>5, <2>1, CommandFacts DEF Terminated, At, Commands
  <2> QED
    BY <1>5, <2>2, <2>3, BeginSeals DEF Terminated, stateVars, repoVars
<1>6. CASE SpawnFails
  <2>1. PICK t \in Task : t = cmd.task
    BY <1>6, CommandFacts DEF SpawnFails, At
  <2> DEFINE new == [tasks[t] EXCEPT !.status = "INFRA_ERROR", !.phase = "NONE"]
  <2>2. SetTask(t, new) /\ Status(t) = "READY"
    BY <1>6, <2>1 DEF SpawnFails, At, SealedInv, HistoryInv, StartsReady, Starting
  <2>3. new.attempts = Att(t) /\ new.status = "INFRA_ERROR"
    BY EvWhole DEF TaskStates, Att
  <2> HIDE DEF new
  <2>4. tasks'[t] = new /\ UNCHANGED <<evidence, completion, handoff, manifest, head>>
    BY <1>6, <2>2 DEF SpawnFails, SetTask, SealedInv, HistoryInv, RuntimeInv, TypeOK,
       StateTypes, recordVars, repoVars
  <2>5. TaskInv(t)'
    BY <2>2, <2>3, <2>4 DEF SealedInv, TaskInv, HasFinal, Ev, Att, Status, Rejected,
       ReviewGrants, PassCompletion
  <2>6. cmd'.step = "idle" /\ cmd'.task = 1 /\ cmd'.promoted = {}
    BY <1>6 DEF SpawnFails, Finish, Idle
  <2> QED
    BY <2>2, <2>3, <2>4, <2>5, <2>6, IdleRelies, ReliesNow, StateSeals
<1>7. CASE OnStarted
  <2>1. PICK t \in Task : t = cmd.task
    BY <1>7, CommandFacts DEF OnStarted, At
  <2> DEFINE new == [status |-> "RUNNING", phase |-> "EXECUTING", attempts |-> Att(t) + 1,
                     process |-> Len(spawned), base |-> packet[t], accepted |-> NoCommit]
  <2>2. SetTask(t, new) /\ Status(t) = "READY" /\ Att(t) < MaxAttempts
    BY <1>7, <2>1 DEF OnStarted, At, SealedInv, HistoryInv, StartsReady, Starting, RuntimeInv,
       CommandInv
  <2>3. new.attempts = Att(t) + 1 /\ new.status = "RUNNING" /\ new.phase = "EXECUTING"
    OBVIOUS
  <2> HIDE DEF new
  <2>4. tasks'[t] = new /\ UNCHANGED <<evidence, completion, handoff, manifest, head>>
    BY <1>7, <2>2 DEF OnStarted, SetTask, SealedInv, HistoryInv, RuntimeInv, TypeOK,
       StateTypes, recordVars, repoVars
  <2>5. Ev(t)' = NoEvidence
    <3>1. Att(t) + 1 \in Attempt /\ Att(t) + 1 > Att(t) /\ Att(t) + 1 # 0
      BY <2>2, EvWhole, BoundAssumption DEF Attempt
    <3>2. evidence[t][Att(t) + 1] = NoEvidence
      BY <3>1 DEF SealedInv, EvidenceInv
    <3> QED
      BY <2>3, <2>4, <3>1, <3>2 DEF Ev, Att
  <2>6. completion[t].verdict # "PASS"
    BY <2>2 DEF SealedInv, TaskInv, Rejected, ReviewGrants
  <2>7. TaskInv(t)'
    BY <2>3, <2>4, <2>5, <2>6 DEF TaskInv, HasFinal, Status, NoEvidence
  <2>8. cmd'.step = "await" /\ cmd'.task = t /\ cmd'.promoted = {}
    BY <1>7, <2>1, GotoMoves, CommandFacts DEF OnStarted, At
  <2>9. Relies("await", t)'
    BY <2>3, <2>4 DEF Relies, Status, Awaiting, Closing, Unsourced, Refailing, Rejecting,
       Unsealed, Sealed
  <2> QED
    BY <2>2, <2>3, <2>4, <2>7, <2>8, <2>9, ReliesNow, StateSeals
<1>8. CASE Settle
  <2>1. PICK t \in Task : t = cmd.task
    BY <1>8, CommandFacts DEF Settle, At
  <2> DEFINE new == IF cmd.outcome = "FINISHED"
                      THEN [tasks[t] EXCEPT !.phase = "FINALIZING"]
                      ELSE [tasks[t] EXCEPT !.status = cmd.outcome, !.phase = "NONE"]
  <2>2. SetTask(t, new) /\ Status(t) = "RUNNING" /\ tasks[t].phase = "EXECUTING"
    BY <1>1, <1>8, <2>1 DEF Settle, At, Relies, Awaiting
  <2>3. cmd.outcome \in {"FINISHED", "INFRA_ERROR", "TIMED_OUT"}
    BY <1>8 DEF Settle, At, SealedInv, HistoryInv, RuntimeInv, TypeOK, CommandInv, Commands
  <2>4. new.attempts = Att(t) /\ new.status # "PASS"
    BY <2>2, <2>3, EvWhole DEF TaskStates, Att, Status
  <2> HIDE DEF new
  <2>5. tasks'[t] = new /\ UNCHANGED <<evidence, completion, handoff, manifest, head>>
    BY <1>8, <2>2 DEF Settle, SetTask, SealedInv, HistoryInv, RuntimeInv, TypeOK,
       StateTypes, recordVars, repoVars
  <2>6. ~HasFinal(t)
    BY <2>2 DEF SealedInv, TaskInv
  <2>7. TaskInv(t)'
    BY <2>4, <2>5, <2>6 DEF SealedInv, TaskInv, HasFinal, Ev, Att, Status
  <2>8. cmd'.step = "idle" /\ cmd'.task = 1 /\ cmd'.promoted = {}
    BY <1>8 DEF Settle, Finish, Idle
  <2> QED
    BY <2>2, <2>4, <2>5, <2>7, <2>8, IdleRelies, ReliesNow, StateSeals
<1> QED
  BY <1>2, <1>3, <1>4, <1>5, <1>6, <1>7, <1>8 DEF LaunchStep

\* A close begins with a running task that has no finalization yet, or resumes one.
LEMMA CloseBegins ==
  ASSUME SealedInv, HistoryInv', NEW t \in Task, Close(t)
  PROVE  SealedInv'
<1>0. Relies("accept", t) /\ Relies("accept", t)'
  BY ReliesOnNothing DEF Steps, Awaiting, Closing, Unsourced, Refailing, Rejecting, Unsealed,
     Sealed
<1>1. Finalizing(t) => Att(t) > 0 /\ Status(t) = "RUNNING"
  BY EvWhole DEF Finalizing, SealedInv, HistoryInv, RuntimeInv, RecordInv
<1>2. ASSUME NEW reviewed, ResumeAcceptance(t, reviewed) PROVE SealedInv'
  <2>1. cmd'.step = "accept" /\ cmd'.task = t /\ cmd'.promoted = {}
    BY <1>2 DEF ResumeAcceptance, Idle
  <2> QED
    BY <1>0, <1>2, <2>1, BeginSeals DEF ResumeAcceptance, stateVars, recordVars, repoVars
<1>3. ASSUME NEW reviewed, CaptureCandidate(t, reviewed) PROVE SealedInv'
  <2> DEFINE new == [Ev(t) EXCEPT !.final = head, !.measured = log[head].content,
                                  !.required = reviewed, !.worker = note[t].by]
  <2>1. cmd'.step = "accept" /\ cmd'.task = t /\ cmd'.promoted = {}
    BY <1>3 DEF CaptureCandidate, Idle
  <2>2. /\ Finalizing(t) /\ ~HasFinal(t) /\ Ev(t).source = 0 /\ head # tasks[t].base
        /\ Record(t, Att(t), new)
        /\ UNCHANGED <<tasks, completion, handoff, manifest, head>>
    BY <1>3 DEF CaptureCandidate, Closable, stateVars, repoVars
  <2>3. /\ new.source = Ev(t).source /\ new.closed = Ev(t).closed /\ new.final = head
        /\ head # NoCommit
    BY EvWhole DEF EvidenceStates, SealedInv, HistoryInv, RuntimeInv, TypeOK, RepoTypes,
       Commit, NoCommit
  <2> HIDE DEF new
  <2>4. EvidenceSound(new)
    BY <2>2, <2>3, EvWhole DEF EvidenceSound, HasFinal
  <2>5. Ev(t)' = new
    BY <1>1, <2>2, Written
  <2>6. TaskInv(t)'
    BY <1>1, <2>2, <2>3, <2>5 DEF SealedInv, TaskInv, HasFinal, Status, Finalizing
  <2> QED
    BY <1>0, <1>1, <2>1, <2>2, <2>4, <2>6, ReliesNow, RecordSeals
<1>4. CASE AdoptSealedFail(t)
  <2> DEFINE new == [verdict |-> "FAIL", attempt |-> Att(t), commit |-> NoCommit, gate |-> TRUE]
  <2>1. cmd'.step = "failState" /\ cmd'.task = t /\ cmd'.promoted = {}
    BY <1>4 DEF AdoptSealedFail, Begin, Idle
  <2>2. /\ Finalizing(t) /\ ~HasFinal(t)
        /\ completion' = [completion EXCEPT ![t] = new]
        /\ UNCHANGED <<tasks, evidence, handoff, manifest, head>>
    BY <1>4 DEF AdoptSealedFail, stateVars, repoVars
  <2>3. new.verdict = "FAIL"
    OBVIOUS
  <2> HIDE DEF new
  <2>4. completion'[t] = new
    BY <2>2 DEF SealedInv, HistoryInv, RuntimeInv, TypeOK, RecordTypes
  <2>5. TaskInv(t)'
    BY <1>1, <2>2, <2>3, <2>4 DEF SealedInv, TaskInv, HasFinal, Ev, Att, Status
  <2>6. Relies("failState", t)'
    BY <2>2 DEF Relies, Finalizing, HasFinal, Ev, Att, Status, Awaiting, Closing, Unsourced,
       Refailing, Rejecting, Unsealed, Sealed
  <2> QED
    BY <2>1, <2>2, <2>5, <2>6, ReliesNow, SlotSeals
<1>5. CASE CloseDeclaredFailure(t)
  <2>1. cmd'.step = "failSlot" /\ cmd'.task = t /\ cmd'.promoted = {}
    BY <1>5 DEF CloseDeclaredFailure, Begin, Idle
  <2>2. Relies("failSlot", t)
    BY <1>5 DEF CloseDeclaredFailure, Closable, Relies, Awaiting, Closing, Unsourced, Refailing,
       Rejecting, Unsealed, Sealed
  <2> QED
    BY <1>5, <2>1, <2>2, BeginSeals DEF CloseDeclaredFailure, stateVars, recordVars, repoVars
<1>6. ASSUME NEW reviewed, StartGate(t, reviewed) PROVE SealedInv'
  <2>1. cmd'.step = "gate" /\ cmd'.task = t /\ cmd'.promoted = {}
    BY <1>6 DEF StartGate, Idle
  <2>2. Relies("gate", t)
    BY <1>6 DEF StartGate, Closable, Relies, Awaiting, Closing, Unsourced, Refailing,
       Rejecting, Unsealed, Sealed
  <2> QED
    BY <1>6, <2>1, <2>2, BeginSeals DEF StartGate, stateVars, recordVars, repoVars
<1> QED
  BY <1>2, <1>3, <1>4, <1>5, <1>6 DEF Close

\* The gate, the commit and the finalization record.
LEMMA GateSeals ==
  ASSUME SealedInv, HistoryInv',
         \/ GateFails \/ GateDrifts \/ GatePasses \/ Stage \/ CachedCheckFails \/ CommitFails
         \/ CommitStaged \/ WriteFinal
  PROVE  SealedInv'
<1>1. PICK t \in Task : t = cmd.task
  BY CommandFacts DEF GateFails, GateDrifts, GatePasses, Stage, CachedCheckFails, CommitFails,
     CommitStaged, WriteFinal, At
<1>2. cmd \in Commands /\ Relies(cmd.step, t) /\ cmd.step \in Gate
  BY <1>1, CommandFacts DEF SealedInv, GateFails, GateDrifts, GatePasses, Stage,
     CachedCheckFails, CommitFails, CommitStaged, WriteFinal, At, Gate
<1>3. Finalizing(t) /\ ~HasFinal(t) /\ Ev(t).source = 0
  BY <1>2 DEF Relies, Closing, Unsourced, Gate
<1>4. \A s \in {"stage", "commit", "failArchive", "failSlot"} : Relies(s, t)
  BY <1>3 DEF Relies, Awaiting, Closing, Unsourced, Refailing, Rejecting, Unsealed, Sealed
<1>5. CASE GateFails \/ GateDrifts \/ GatePasses
  BY <1>1, <1>4, <1>5, GotoSeals DEF GateFails, GateDrifts, GatePasses, At, stateVars,
     recordVars, repoVars
<1>6. CASE Stage \/ CachedCheckFails \/ CommitFails
  BY <1>1, <1>4, <1>6, GotoSeals, IdleSeals DEF Stage, CachedCheckFails, CommitFails, At,
     Finish, stateVars, recordVars
<1>7. CASE CommitStaged
  <2>1. cmd'.step = "record" /\ cmd'.task = t /\ cmd'.promoted = {}
    BY <1>1, <1>2, <1>7, CommandFacts DEF CommitStaged, At, Commands
  <2>2. UNCHANGED <<tasks, evidence, completion, handoff, manifest>> /\ head' = Len(log) + 1
    BY <1>7 DEF CommitStaged, stateVars, recordVars
  <2>3. \A u \in Task : tasks[u].base # Len(log) + 1
    BY EvWhole DEF SealedInv, HistoryInv, RuntimeInv, TypeOK, RepoTypes, TaskStates,
       CommitOrNone, Commit, NoCommit
  <2>4. \A u \in Task : TaskInv(u)'
    BY <2>2, <2>3, TaskFrame DEF SealedInv
  <2>5. Relies("record", t)'
    BY <1>3, <2>2, <2>3 DEF Relies, Finalizing, HasFinal, Ev, Att, Status, Awaiting, Closing,
       Unsourced, Refailing, Rejecting, Unsealed, Sealed
  <2>6. Relies(cmd.step, cmd.task)'
    BY <2>1, <2>5, ReliesNow
  <2>7. EvidenceInv' /\ PromotedInv'
    BY <2>1, <2>2 DEF SealedInv, EvidenceInv, Att, PromotedInv
  <2> QED
    BY <2>4, <2>6, <2>7 DEF SealedInv
<1>8. CASE WriteFinal
  <2> DEFINE new == [Ev(t) EXCEPT !.final = cmd.candidate, !.measured = cmd.patch,
                                  !.required = cmd.reviewed, !.worker = note[t].by]
  <2>1. CASE UNCHANGED evidence /\ Finish
    BY <1>8, <2>1, IdleSeals DEF WriteFinal, Finish, stateVars, repoVars
  <2>2. CASE Record(t, Att(t), new) /\ Goto("accept")
    <3>1. cmd'.step = "accept" /\ cmd'.task = t /\ cmd'.promoted = {}
      BY <1>1, <1>2, <1>8, <2>2, GotoMoves, CommandFacts DEF WriteFinal, At
    <3>2. cmd.candidate # NoCommit /\ head # tasks[t].base /\ Att(t) > 0
      BY <1>1, <1>2, <1>8, CommandFacts DEF WriteFinal, At, SealedInv, HistoryInv, RuntimeInv,
         CommandInv, TypeOK, RepoTypes, NoCommit, Relies, Gate
    <3>3. new.source = Ev(t).source /\ new.closed = Ev(t).closed /\ new.final = cmd.candidate
      BY EvWhole DEF EvidenceStates
    <3>4. Record(t, Att(t), new) /\ UNCHANGED <<tasks, completion, handoff, manifest, head>>
      BY <1>8, <2>2 DEF WriteFinal, stateVars, repoVars
    <3> HIDE DEF new
    <3>5. EvidenceSound(new)
      BY <1>3, <3>3, EvWhole DEF EvidenceSound, HasFinal
    <3>6. Ev(t)' = new
      BY <3>2, <3>4, Written
    <3>7. TaskInv(t)'
      BY <1>3, <3>2, <3>3, <3>4, <3>6 DEF SealedInv, TaskInv, HasFinal, Status, Finalizing
    <3>8. Relies("accept", t)'
      BY ReliesOnNothing DEF Steps, Awaiting, Closing, Unsourced, Refailing, Rejecting,
         Unsealed, Sealed
    <3> QED
      BY <3>1, <3>2, <3>4, <3>5, <3>7, <3>8, ReliesNow, RecordSeals
  <2> QED
    BY <1>1, <1>8, <2>1, <2>2 DEF WriteFinal
<1> QED
  BY <1>5, <1>6, <1>7, <1>8

\* The sealing of an official FAIL.
LEMMA FailSeals ==
  ASSUME SealedInv, HistoryInv',
         ArchiveFail \/ BindFailSource \/ WriteFailCompletion \/ WriteFailState
  PROVE  SealedInv'
<1>1. PICK t \in Task : t = cmd.task
  BY CommandFacts DEF ArchiveFail, BindFailSource, WriteFailCompletion, WriteFailState, At
<1>2. /\ cmd \in Commands /\ Relies(cmd.step, t) /\ cmd.promoted = {}
      /\ cmd.step \in {"failArchive", "failBind", "failSlot", "failState"}
  BY <1>1, CommandFacts DEF SealedInv, ArchiveFail, BindFailSource, WriteFailCompletion,
     WriteFailState, At
<1>3. Finalizing(t) /\ ~HasFinal(t)
  BY <1>2 DEF Relies, Closing, Unsourced
<1>4. Att(t) > 0 /\ Status(t) = "RUNNING"
  BY <1>3 DEF Finalizing, SealedInv, HistoryInv, RuntimeInv, RecordInv
<1>5. CASE ArchiveFail
  <2> DEFINE new == [Ev(t) EXCEPT !.archive = TRUE]
  <2>1. CASE UNCHANGED evidence /\ Finish
    BY <1>5, <2>1, IdleSeals DEF ArchiveFail, Finish, stateVars, repoVars
  <2>2. CASE Record(t, Att(t), new) /\ cmd' = [cmd EXCEPT !.step = "failBind", !.patch = tree]
    <3>1. cmd'.step = "failBind" /\ cmd'.task = t /\ cmd'.promoted = {}
      BY <1>1, <1>2, <2>2 DEF Commands
    <3>2. /\ new.source = Ev(t).source /\ new.closed = Ev(t).closed /\ new.final = Ev(t).final
          /\ new.required = Ev(t).required /\ new.review = Ev(t).review
      BY EvWhole DEF EvidenceStates
    <3>3. Record(t, Att(t), new) /\ UNCHANGED <<tasks, completion, handoff, manifest, head>>
      BY <1>5, <2>2 DEF ArchiveFail, stateVars, repoVars
    <3> HIDE DEF new
    <3>4. EvidenceSound(new)
      BY <3>2, EvWhole DEF EvidenceSound, Rejected
    <3>5. Relies("failBind", t)
      BY <1>2, <1>3, <1>5 DEF ArchiveFail, At, Relies, Awaiting, Closing, Unsourced, Refailing,
         Rejecting, Unsealed, Sealed
    <3> QED
      BY <1>4, <3>1, <3>2, <3>3, <3>4, <3>5, AnnotationSeals
  <2> QED
    BY <1>1, <1>5, <2>1, <2>2 DEF ArchiveFail
<1>6. CASE BindFailSource
  <2> DEFINE new == [Ev(t) EXCEPT !.source = cmd.patch, !.worker = note[t].by]
  <2>1. cmd'.step = "failSlot" /\ cmd'.task = t /\ cmd'.promoted = {}
    BY <1>1, <1>2, <1>6, GotoMoves DEF BindFailSource
  <2>2. /\ new.closed = Ev(t).closed /\ new.final = Ev(t).final
        /\ new.required = Ev(t).required /\ new.review = Ev(t).review
    BY EvWhole DEF EvidenceStates
  <2>3. Record(t, Att(t), new) /\ UNCHANGED <<tasks, completion, handoff, manifest, head>>
    BY <1>1, <1>6 DEF BindFailSource, stateVars, repoVars
  <2> HIDE DEF new
  <2>4. Ev(t).source = 0
    BY <1>2, <1>6 DEF BindFailSource, At, Relies, Unsourced
  <2>5. EvidenceSound(new)
    BY <1>3, <2>2, <2>4, EvWhole DEF EvidenceSound, HasFinal, Rejected
  <2>6. Relies("failSlot", t) /\ "failSlot" \notin Unsourced
    BY <1>3 DEF Relies, Awaiting, Closing, Unsourced, Refailing, Rejecting, Unsealed, Sealed
  <2> QED
    BY <1>4, <2>1, <2>2, <2>3, <2>5, <2>6, AnnotationSeals
<1>7. CASE WriteFailCompletion
  <2> DEFINE new == [verdict |-> "FAIL", attempt |-> Att(t), commit |-> NoCommit,
                     gate |-> Ev(t).source # 0]
  <2>1. cmd'.step = "failState" /\ cmd'.task = t /\ cmd'.promoted = {}
    BY <1>1, <1>2, <1>7, GotoMoves DEF WriteFailCompletion
  <2>2. /\ completion' = [completion EXCEPT ![t] = new]
        /\ UNCHANGED <<tasks, evidence, handoff, manifest, head>>
    BY <1>1, <1>7 DEF WriteFailCompletion, stateVars, repoVars
  <2>3. new.verdict = "FAIL"
    OBVIOUS
  <2> HIDE DEF new
  <2>4. completion'[t] = new
    BY <2>2 DEF SealedInv, HistoryInv, RuntimeInv, TypeOK, RecordTypes
  <2>5. TaskInv(t)'
    BY <1>3, <1>4, <2>2, <2>3, <2>4 DEF SealedInv, TaskInv, HasFinal, Ev, Att, Status
  <2>6. Relies("failState", t)'
    BY <1>3, <2>2 DEF Relies, Finalizing, HasFinal, Ev, Att, Status, Awaiting, Closing,
       Unsourced, Refailing, Rejecting, Unsealed, Sealed
  <2> QED
    BY <2>1, <2>2, <2>5, <2>6, ReliesNow, SlotSeals
<1>8. CASE WriteFailState
  <2> DEFINE new == [tasks[t] EXCEPT !.status = "FAIL", !.phase = "NONE", !.accepted = NoCommit]
  <2>1. cmd'.step = "idle" /\ cmd'.task = 1 /\ cmd'.promoted = {}
    BY <1>8 DEF WriteFailState, Finish, Idle
  <2>2. SetTask(t, new) /\ UNCHANGED <<evidence, completion, handoff, manifest, head>>
    BY <1>1, <1>8 DEF WriteFailState, recordVars, repoVars
  <2>3. new.attempts = Att(t) /\ new.status = "FAIL"
    BY EvWhole DEF TaskStates, Att
  <2> HIDE DEF new
  <2>4. tasks'[t] = new
    BY <2>2 DEF SetTask, SealedInv, HistoryInv, RuntimeInv, TypeOK, StateTypes
  <2>5. TaskInv(t)'
    BY <1>3, <2>2, <2>3, <2>4 DEF SealedInv, TaskInv, HasFinal, Ev, Att, Status
  <2> QED
    BY <2>1, <2>2, <2>3, <2>5, IdleRelies, ReliesNow, StateSeals
<1> QED
  BY <1>5, <1>6, <1>7, <1>8

\* Actions that write the handoff or the manifest of a task with a finalization.
LEMMA BundleSeals ==
  ASSUME SealedInv, HistoryInv', NEW t \in Task, t = cmd.task,
         \/ handoff' = [handoff EXCEPT ![t] = Ev(t).final] /\ UNCHANGED manifest
         \/ manifest' = [manifest EXCEPT ![t] = Ev(t).final] /\ UNCHANGED handoff,
         UNCHANGED <<tasks, evidence, completion, head>>,
         Relies(cmd.step, cmd.task)', cmd'.promoted \in {cmd.promoted, {}}
  PROVE  SealedInv'
<1>1. /\ handoff'[t] \in {handoff[t], Ev(t).final} /\ manifest'[t] \in {manifest[t], Ev(t).final}
      /\ \A u \in Task \ {t} : handoff'[u] = handoff[u] /\ manifest'[u] = manifest[u]
  BY DEF SealedInv, HistoryInv, RuntimeInv, TypeOK, RecordTypes
<1>2. \A u \in Task \ {t} : TaskInv(u)'
  BY <1>1, TaskFrame DEF SealedInv
<1>3. TaskInv(t)'
  BY <1>1 DEF SealedInv, TaskInv, HasFinal, Ev, Att, Status, Rejected, ReviewGrants,
     PassCompletion
<1>4. EvidenceInv'
  BY DEF SealedInv, EvidenceInv, Att
<1>5. PromotedInv'
  BY <1>1, CommandFacts DEF SealedInv, PromotedInv, Ev, Att, Commands
<1> QED
  BY <1>2, <1>3, <1>4, <1>5 DEF SealedInv

\* What the completion record of the seal finds or writes, for any way on.
LEMMA CompletionSealed ==
  ASSUME SealedInv, NEW t \in Task, t = cmd.task, HasFinal(t), ReviewGrants(Ev(t)),
         UNCHANGED <<tasks, evidence, handoff, manifest, head>>,
         completion' = [completion EXCEPT ![t] = PassCompletion(t, Att(t))]
  PROVE  TaskInv(t)' /\ completion'[t].verdict = "PASS"
<1>1. completion'[t] = PassCompletion(t, Att(t))
  BY DEF SealedInv, HistoryInv, RuntimeInv, TypeOK, RecordTypes
<1>2. /\ Ev(t)' = Ev(t) /\ Att(t)' = Att(t) /\ Status(t)' = Status(t)
      /\ PassCompletion(t, Att(t))' = PassCompletion(t, Att(t))
  BY DEF Ev, Att, Status, PassCompletion
<1>3. completion'[t].verdict = "PASS"
  BY <1>1 DEF PassCompletion
<1>4. TaskInv(t)
  BY DEF SealedInv
<1>5. /\ HasFinal(t)' = HasFinal(t) /\ Rejected(Ev(t))' = Rejected(Ev(t))
      /\ ReviewGrants(Ev(t))' = ReviewGrants(Ev(t))
  BY <1>2 DEF HasFinal, Rejected, ReviewGrants
<1>6. TaskInv(t)'
  BY <1>1, <1>2, <1>3, <1>4, <1>5 DEF TaskInv
<1> QED
  BY <1>3, <1>6

\* The acceptance of a candidate: review, seal, promotion.
LEMMA AcceptSeals ==
  ASSUME SealedInv, HistoryInv',
         \/ \E verdict \in {"ACCEPT", "REJECT"} : Review(verdict)
         \/ AcceptancePends \/ BeginSeal \/ SealStep \/ Promote
  PROVE  SealedInv'
<1>1. PICK t \in Task : t = cmd.task
  BY CommandFacts DEF Review, AcceptancePends, BeginSeal, SealStep, Promote, At
<1>2. /\ cmd \in Commands /\ Relies(cmd.step, t) /\ cmd.promoted = {}
      /\ Att(t) > 0 /\ HasFinal(t)
  BY <1>1, CommandFacts DEF SealedInv, Review, AcceptancePends, BeginSeal, SealStep, Promote,
     At, Sealing
<1>3. ASSUME NEW verdict \in {"ACCEPT", "REJECT"}, Review(verdict) PROVE SealedInv'
  <2> DEFINE new == [Ev(t) EXCEPT !.review = verdict]
  <2>1. cmd'.step = "accept" /\ cmd'.task = t /\ cmd'.promoted = {}
    BY <1>1, <1>2, <1>3 DEF Review, At
  <2>2. /\ new.source = Ev(t).source /\ new.closed = Ev(t).closed /\ new.final = Ev(t).final
        /\ new.required = Ev(t).required
    BY EvWhole DEF EvidenceStates
  <2>3. /\ Record(t, Att(t), new) /\ UNCHANGED <<tasks, completion, handoff, manifest, head>>
        /\ Ev(t).required /\ Ev(t).review = "NONE"
    BY <1>1, <1>3 DEF Review, stateVars, repoVars
  <2> HIDE DEF new
  <2>4. EvidenceSound(new)
    BY <2>2, <2>3, EvWhole DEF EvidenceSound, Rejected
  <2>5. Ev(t)' = new
    BY <1>2, <2>3, Written
  <2>6. ~Rejected(Ev(t)) /\ ~ReviewGrants(Ev(t))
    BY <2>3 DEF Rejected, ReviewGrants
  <2>7. TaskInv(t)'
    BY <1>2, <2>2, <2>3, <2>5, <2>6 DEF SealedInv, TaskInv, HasFinal, Status
  <2>8. Relies("accept", t)'
    BY ReliesOnNothing DEF Steps, Awaiting, Closing, Unsourced, Refailing, Rejecting,
       Unsealed, Sealed
  <2> QED
    BY <1>2, <2>1, <2>3, <2>4, <2>7, <2>8, ReliesNow, RecordSeals
<1>4. CASE AcceptancePends
  BY <1>4, IdleSeals DEF AcceptancePends, Finish, stateVars, recordVars, repoVars
<1>5. CASE BeginSeal
  <2>1. Relies("sealCompletion", t)
    BY <1>1, <1>5 DEF BeginSeal, Relies, Awaiting, Closing, Unsourced, Refailing, Rejecting,
       Unsealed, Sealed
  <2> QED
    BY <1>1, <1>5, <2>1, GotoSeals DEF BeginSeal, At, stateVars, recordVars, repoVars
<1>6. CASE At("sealCompletion") /\ SealCompletion(Goto("sealHandoff"), Finish)
  <2>1. ReviewGrants(Ev(t))
    BY <1>2, <1>6 DEF At, Relies, Unsealed
  <2>2. CASE UNCHANGED completion /\ Finish
    BY <1>6, <2>2, IdleSeals DEF SealCompletion, Finish, stateVars, repoVars
  <2>3. CASE /\ completion' = [completion EXCEPT ![t] = PassCompletion(t, Att(t))]
             /\ Goto("sealHandoff")
    <3>1. cmd'.step = "sealHandoff" /\ cmd'.task = t /\ cmd'.promoted = {}
      BY <1>1, <1>2, <2>3, GotoMoves
    <3>2. UNCHANGED <<tasks, evidence, handoff, manifest, head>>
      BY <1>6 DEF SealCompletion, stateVars, repoVars
    <3>3. TaskInv(t)' /\ completion'[t].verdict = "PASS"
      BY <1>1, <1>2, <2>1, <2>3, <3>2, CompletionSealed
    <3>4. Relies("sealHandoff", t)'
      BY <2>1, <3>2, <3>3 DEF Relies, ReviewGrants, Ev, Att, Awaiting, Closing, Unsourced,
         Refailing, Rejecting, Unsealed, Sealed
    <3> QED
      BY <2>3, <3>1, <3>2, <3>3, <3>4, ReliesNow, SlotSeals
  <2> QED
    BY <1>1, <1>6, <2>2, <2>3 DEF SealCompletion
<1>7. CASE At("sealHandoff") /\ SealHandoff(Goto("sealManifest"), Finish)
  <2>1. ReviewGrants(Ev(t)) /\ completion[t].verdict = "PASS"
    BY <1>2, <1>7 DEF At, Relies, Sealed
  <2>2. CASE UNCHANGED handoff /\ Finish
    BY <1>7, <2>2, IdleSeals DEF SealHandoff, Finish, stateVars, repoVars
  <2>3. CASE handoff' = [handoff EXCEPT ![t] = Ev(t).final] /\ Goto("sealManifest")
    <3>1. cmd'.step = "sealManifest" /\ cmd'.task = t /\ cmd'.promoted = {}
      BY <1>1, <1>2, <2>3, GotoMoves
    <3>2. UNCHANGED <<tasks, evidence, completion, manifest, head>>
      BY <1>7 DEF SealHandoff, stateVars, repoVars
    <3>3. handoff'[t] = Ev(t).final
      BY <2>3 DEF SealedInv, HistoryInv, RuntimeInv, TypeOK, RecordTypes
    <3>4. Relies("sealManifest", t)'
      BY <2>1, <3>2, <3>3 DEF Relies, ReviewGrants, Ev, Att, Awaiting, Closing, Unsourced,
         Refailing, Rejecting, Unsealed, Sealed
    <3> QED
      BY <1>1, <2>3, <3>1, <3>2, <3>4, ReliesNow, BundleSeals
  <2> QED
    BY <1>1, <1>7, <2>2, <2>3 DEF SealHandoff
<1>8. CASE At("sealManifest") /\ SealManifest(Goto("promote"), Finish)
  <2>1. ReviewGrants(Ev(t)) /\ completion[t].verdict = "PASS" /\ handoff[t] = Ev(t).final
    BY <1>2, <1>8 DEF At, Relies, Sealed
  <2>2. CASE UNCHANGED manifest /\ Finish
    BY <1>8, <2>2, IdleSeals DEF SealManifest, Finish, stateVars, repoVars
  <2>3. CASE manifest' = [manifest EXCEPT ![t] = Ev(t).final] /\ Goto("promote")
    <3>1. cmd'.step = "promote" /\ cmd'.task = t /\ cmd'.promoted = {}
      BY <1>1, <1>2, <2>3, GotoMoves
    <3>2. UNCHANGED <<tasks, evidence, completion, handoff, head>>
      BY <1>8 DEF SealManifest, stateVars, repoVars
    <3>3. manifest'[t] = Ev(t).final
      BY <2>3 DEF SealedInv, HistoryInv, RuntimeInv, TypeOK, RecordTypes
    <3>4. Relies("promote", t)'
      BY <2>1, <3>2, <3>3 DEF Relies, ReviewGrants, Ev, Att, Awaiting, Closing, Unsourced,
         Refailing, Rejecting, Unsealed, Sealed
    <3> QED
      BY <1>1, <2>3, <3>1, <3>2, <3>4, ReliesNow, BundleSeals
  <2> QED
    BY <1>1, <1>8, <2>2, <2>3 DEF SealManifest
<1>9. CASE Promote
  <2> DEFINE new == [tasks[t] EXCEPT !.status = "PASS", !.phase = "NONE",
                                     !.accepted = Ev(t).final]
  <2>1. cmd'.step = "idle" /\ cmd'.task = 1 /\ cmd'.promoted = {} /\ cmd' = Idle
    BY <1>9 DEF Promote, Finish, Idle
  <2>2. CASE UNCHANGED tasks
    BY <1>9, <2>1, <2>2, IdleSeals DEF Promote, recordVars, repoVars
  <2>3. CASE SetTask(t, new)
    <3>1. UNCHANGED <<evidence, completion, handoff, manifest, head>>
      BY <1>9 DEF Promote, recordVars, repoVars
    <3>2. new.attempts = Att(t) /\ new.status = "PASS" /\ new.accepted = Ev(t).final
      BY EvWhole DEF TaskStates, Att
    <3> HIDE DEF new
    <3>3. tasks'[t] = new
      BY <2>3 DEF SetTask, SealedInv, HistoryInv, RuntimeInv, TypeOK, StateTypes
    <3>4. /\ ReviewGrants(Ev(t)) /\ completion[t].verdict = "PASS"
          /\ handoff[t] = Ev(t).final /\ manifest[t] = Ev(t).final
      BY <1>2, <1>9 DEF Promote, At, Relies, Sealed
    <3>5. TaskInv(t)'
      BY <1>2, <3>1, <3>2, <3>3, <3>4 DEF SealedInv, TaskInv, HasFinal, Ev, Att, Status,
         ReviewGrants, PassCompletion
    <3> QED
      BY <2>1, <2>3, <3>1, <3>2, <3>5, IdleRelies, ReliesNow, StateSeals
  <2> QED
    BY <1>1, <1>9, <2>2, <2>3 DEF Promote, stateVars
<1> QED
  BY <1>3, <1>4, <1>5, <1>6, <1>7, <1>8, <1>9 DEF SealStep

\* A retry archives an attempt as what it is.
LEMMA RetryBegins ==
  ASSUME SealedInv, HistoryInv', NEW t \in Task, Retry(t)
  PROVE  SealedInv'
<1>1. Finalizing(t) => Att(t) > 0 /\ Status(t) = "RUNNING"
  BY EvWhole DEF Finalizing, SealedInv, HistoryInv, RuntimeInv, RecordInv
<1>2. ASSUME NEW how \in {"ABANDONED", "VALIDATION_FAILED", "REVIEW_REJECTED"}, NEW s,
             Att(t) > 0, CloseAttempt(t, how), cmd'.step = s, cmd'.task = t, cmd'.promoted = {},
             UNCHANGED <<tasks, completion, handoff, manifest, head>>,
             how = "VALIDATION_FAILED" => Ev(t).source # 0,
             how = "REVIEW_REJECTED" => HasFinal(t) /\ Rejected(Ev(t)),
             Relies(s, t)
      PROVE  SealedInv'
  <2> DEFINE new == [Ev(t) EXCEPT !.closed = @ \cup {how}]
  <2>1. /\ new.source = Ev(t).source /\ new.closed = Ev(t).closed \cup {how}
        /\ new.final = Ev(t).final /\ new.required = Ev(t).required
        /\ new.review = Ev(t).review
    BY EvWhole DEF EvidenceStates
  <2>2. Record(t, Att(t), new)
    BY <1>2 DEF CloseAttempt
  <2> HIDE DEF new
  <2>3. EvidenceSound(new)
    BY <1>2, <2>1, EvWhole DEF EvidenceSound, Rejected, HasFinal
  <2> QED
    BY <1>2, <2>1, <2>2, <2>3, AnnotationSeals
<1>3. CASE RecordAbandonment(t)
  <2>1. cmd'.step = "reopenAbandoned" /\ cmd'.task = t /\ cmd'.promoted = {}
    BY <1>3 DEF RecordAbandonment, Begin, Idle
  <2>2. Finalizing(t) /\ (HasFinal(t) => Rejected(Ev(t)))
    BY <1>1, <1>3 DEF RecordAbandonment, Abandonable, SealedInv, TaskInv
  <2>3. Relies("reopenAbandoned", t)
    BY <2>2 DEF Relies, Finalizing, Awaiting, Closing, Unsourced, Refailing, Rejecting,
       Unsealed, Sealed
  <2>4. CloseAttempt(t, "ABANDONED") /\ UNCHANGED <<tasks, completion, handoff, manifest, head>>
    BY <1>3 DEF RecordAbandonment, stateVars, repoVars
  <2> QED
    BY <1>1, <1>2, <2>1, <2>2, <2>3, <2>4
<1>4. ASSUME FailedSourceLoads(t)
      PROVE  Relies("copyFail", t) /\ Att(t) > 0 /\ Ev(t).source # 0
  BY <1>4 DEF FailedSourceLoads, FailEvidence, Relies, Awaiting, Closing, Unsourced, Refailing,
     Rejecting, Unsealed, Sealed
<1>5. CASE ArchiveFailedAttempt(t)
  <2>1. cmd'.step = "copyFail" /\ cmd'.task = t /\ cmd'.promoted = {}
    BY <1>5 DEF ArchiveFailedAttempt, Idle
  <2>2. /\ CloseAttempt(t, "VALIDATION_FAILED")
        /\ UNCHANGED <<tasks, completion, handoff, manifest, head>>
    BY <1>5 DEF ArchiveFailedAttempt, stateVars, repoVars
  <2> QED
    BY <1>2, <1>4, <1>5, <2>1, <2>2 DEF ArchiveFailedAttempt
<1>6. CASE ResumeArchival(t)
  <2>1. cmd'.step = "copyFail" /\ cmd'.task = t /\ cmd'.promoted = {}
    BY <1>6 DEF ResumeArchival, Begin, Idle
  <2> QED
    BY <1>4, <1>6, <2>1, BeginSeals DEF ResumeArchival, stateVars, recordVars, repoVars
<1>7. CASE ArchiveRejectedCandidate(t)
  <2>1. cmd'.step = "copyRejectedNote" /\ cmd'.task = t /\ cmd'.promoted = {}
    BY <1>7 DEF ArchiveRejectedCandidate, Idle
  <2>2. Finalizing(t) /\ ~OtherRunning(t) /\ HasFinal(t) /\ Rejected(Ev(t))
    BY <1>7 DEF ArchiveRejectedCandidate, RejectedCandidate, Rejected
  <2>3. Relies("copyRejectedNote", t)
    BY <2>2 DEF Relies, Awaiting, Closing, Unsourced, Refailing, Rejecting, Unsealed, Sealed
  <2>4. /\ CloseAttempt(t, "REVIEW_REJECTED")
        /\ UNCHANGED <<tasks, completion, handoff, manifest, head>>
    BY <1>7 DEF ArchiveRejectedCandidate, stateVars, repoVars
  <2> QED
    BY <1>1, <1>2, <2>1, <2>2, <2>3, <2>4
<1> QED
  BY <1>3, <1>5, <1>6, <1>7 DEF Retry

\* A task is reopened without a finalization, or with one a review rejected.
LEMMA ReopenSeals ==
  ASSUME SealedInv, HistoryInv', ReopenAbandoned \/ ReopenFailed \/ ReopenRejected
  PROVE  SealedInv'
<1>1. PICK t \in Task : t = cmd.task
  BY CommandFacts DEF ReopenAbandoned, ReopenFailed, ReopenRejected, At
<1>2. Relies(cmd.step, t) /\ cmd.step \in {"reopenAbandoned", "reopenFailed", "reopenRejected"}
  BY <1>1 DEF SealedInv, ReopenAbandoned, ReopenFailed, ReopenRejected, At
<1>3. (HasFinal(t) => Rejected(Ev(t))) /\ Status(t) # "PASS"
  BY <1>2 DEF SealedInv, TaskInv, Relies, Refailing, Rejecting, Finalizing
<1> DEFINE new == Reopened(t)
<1>4. SetTask(t, new) /\ UNCHANGED <<evidence, completion, handoff, manifest, head>>
  BY <1>1 DEF ReopenAbandoned, ReopenFailed, ReopenRejected, recordVars, repoVars
<1>5. new.attempts = Att(t) /\ new.status = "READY"
  BY EvWhole DEF Reopened, TaskStates, Att
<1> HIDE DEF new
<1>6. tasks'[t] = new
  BY <1>4 DEF SetTask, SealedInv, HistoryInv, RuntimeInv, TypeOK, StateTypes
<1>7. TaskInv(t)'
  BY <1>3, <1>4, <1>5, <1>6 DEF SealedInv, TaskInv, HasFinal, Ev, Att, Status, Rejected,
     ReviewGrants, PassCompletion
<1>8. cmd'.step = "idle" /\ cmd'.task = 1 /\ cmd'.promoted = {}
  BY DEF ReopenAbandoned, ReopenFailed, ReopenRejected, Finish, Idle
<1> QED
  BY <1>4, <1>5, <1>7, <1>8, IdleRelies, ReliesNow, StateSeals

\* Copies of what an archived attempt leaves behind.
LEMMA CopySeals ==
  ASSUME SealedInv, HistoryInv', CopyFailCompletion \/ CopyNote \/ CopyRejectedNote
  PROVE  SealedInv'
<1>1. PICK t \in Task : t = cmd.task
  BY CommandFacts DEF CopyFailCompletion, CopyNote, CopyRejectedNote, At
<1>2. /\ Relies(cmd.step, t) /\ cmd \in Commands /\ cmd.promoted = {}
      /\ cmd.step \in {"copyFail", "copyNote", "copyRejectedNote"}
  BY <1>1, CommandFacts DEF SealedInv, CopyFailCompletion, CopyNote, CopyRejectedNote, At
<1>3. Att(t) > 0
  <2>1. Ev(t).closed # {}
    BY <1>1, <1>2 DEF SealedInv, HistoryInv, ReopensClosed, Reopening
  <2> QED
    BY <2>1, EvWhole DEF NoEvidence
<1>4. ASSUME NEW new, Record(t, Att(t), new),
             \/ new = [Ev(t) EXCEPT !.failCopy = TRUE]
             \/ new = [Ev(t) EXCEPT !.noteCopy = @ \/ Ev(t).worker # 0]
             \/ new = [Ev(t) EXCEPT !.noteCopy = TRUE],
             NEW s, Goto(s), Relies(s, t),
             UNCHANGED <<tasks, completion, handoff, manifest, head>>
      PROVE  SealedInv'
  <2>1. /\ new.source = Ev(t).source /\ new.closed = Ev(t).closed /\ new.final = Ev(t).final
        /\ new.required = Ev(t).required /\ new.review = Ev(t).review
    BY <1>4, EvWhole DEF EvidenceStates
  <2>2. EvidenceSound(new)
    BY <2>1, EvWhole DEF EvidenceSound, Rejected
  <2>3. cmd'.step = s /\ cmd'.task = t /\ cmd'.promoted = {}
    BY <1>1, <1>2, <1>4, GotoMoves
  <2> QED
    BY <1>3, <1>4, <2>1, <2>2, <2>3, AnnotationSeals
<1>5. CASE CopyFailCompletion
  <2>1. Relies("copyNote", t)
    BY <1>2, <1>5 DEF CopyFailCompletion, At, Relies, Awaiting, Closing, Unsourced, Refailing,
       Rejecting, Unsealed, Sealed
  <2> QED
    BY <1>1, <1>4, <1>5, <2>1 DEF CopyFailCompletion, stateVars, repoVars
<1>6. CASE CopyNote
  <2>1. Relies("releaseSlot", t)
    BY <1>2, <1>6 DEF CopyNote, At, Relies, Awaiting, Closing, Unsourced, Refailing,
       Rejecting, Unsealed, Sealed
  <2> QED
    BY <1>1, <1>4, <1>6, <2>1 DEF CopyNote, stateVars, repoVars
<1>7. CASE CopyRejectedNote
  <2>1. Relies("releaseRejectedNote", t)
    BY <1>2, <1>7 DEF CopyRejectedNote, At, Relies, Awaiting, Closing, Unsourced, Refailing,
       Rejecting, Unsealed, Sealed
  <2> QED
    BY <1>1, <1>4, <1>7, <2>1 DEF CopyRejectedNote, stateVars, repoVars
<1> QED
  BY <1>5, <1>6, <1>7

\* The rest of the retries touches the slot of a task that is not PASS, the
\* inbox and the checkout; the ref only moves when nobody else is running.
LEMMA RetrySeals == SealedInv /\ HistoryInv' /\ RetryStep => SealedInv'
<1> SUFFICES ASSUME SealedInv, HistoryInv', RetryStep PROVE SealedInv'
  OBVIOUS
<1>1. PICK t \in Task : t = cmd.task
  BY CommandFacts DEF RetryStep, ReopenAbandoned, CopyFailCompletion, CopyNote, ReleaseSlot,
     ReleaseNote, HalfReset, Reset, ReopenFailed, CopyRejectedNote, ReleaseRejectedNote,
     MoveRef, HalfRetire, Retire, ReopenRejected, At
<1>2. Relies(cmd.step, t) /\ cmd \in Commands
  BY <1>1, CommandFacts DEF SealedInv
<1>3. ASSUME cmd.step \in {"releaseSlot", "releaseNote", "halfReset", "reset"}
      PROVE  /\ Status(t) \in {"FAIL", "READY"} /\ cmd.promoted = {}
             /\ \A s \in Refailing : Relies(s, t)
  BY <1>1, <1>2, <1>3, CommandFacts DEF Relies, Awaiting, Closing, Unsourced, Refailing,
     Rejecting, Unsealed, Sealed
<1>4. ASSUME cmd.step \in {"releaseRejectedNote", "moveRef", "halfRetire", "retire"}
      PROVE  /\ ~OtherRunning(t) /\ Rejected(Ev(t)) /\ cmd.promoted = {}
             /\ \A s \in Rejecting : Relies(s, t)
  BY <1>1, <1>2, <1>4, CommandFacts DEF Relies, Awaiting, Closing, Unsourced, Refailing,
     Rejecting, Unsealed, Sealed
<1>5. CASE ReleaseSlot
  <2>1. cmd'.step = "releaseNote" /\ cmd'.task = t /\ cmd'.promoted = {}
    BY <1>1, <1>2, <1>3, <1>5, GotoMoves DEF ReleaseSlot, At
  <2>2. /\ completion' = [completion EXCEPT ![t] = NoCompletion]
        /\ UNCHANGED <<tasks, evidence, handoff, manifest, head>>
    BY <1>1, <1>5 DEF ReleaseSlot, stateVars, repoVars
  <2>3. completion'[t].verdict = "NONE"
    BY <2>2 DEF NoCompletion, SealedInv, HistoryInv, RuntimeInv, TypeOK, RecordTypes
  <2>4. TaskInv(t)'
    BY <1>3, <1>5, <2>2, <2>3 DEF ReleaseSlot, At, SealedInv, TaskInv, HasFinal, Ev, Att,
       Status, Rejected
  <2>5. Relies("releaseNote", t)'
    BY <1>3, <1>5, <2>2 DEF ReleaseSlot, At, Relies, Status, Awaiting, Closing, Unsourced,
       Refailing, Rejecting, Unsealed, Sealed
  <2> QED
    BY <2>1, <2>2, <2>4, <2>5, ReliesNow, SlotSeals
<1>6. CASE ReleaseNote
  <2>1. PICK s \in Refailing : Goto(s)
    BY <1>6 DEF ReleaseNote, Refailing
  <2> QED
    BY <1>1, <1>3, <1>6, <2>1, GotoSeals DEF ReleaseNote, At, stateVars, recordVars, repoVars
<1>7. CASE HalfReset \/ Reset
  <2>1. Finish \/ \E s \in Refailing : Goto(s)
    BY <1>7 DEF HalfReset, Reset, Refailing
  <2> QED
    BY <1>1, <1>3, <1>7, <2>1, GotoSeals, IdleSeals DEF HalfReset, Reset, At, Finish,
       stateVars, recordVars
<1>8. CASE ReleaseRejectedNote
  <2>1. PICK s \in Rejecting : Goto(s)
    BY <1>8 DEF ReleaseRejectedNote, Rejecting
  <2> QED
    BY <1>1, <1>4, <1>8, <2>1, GotoSeals DEF ReleaseRejectedNote, At, stateVars, recordVars,
       repoVars
<1>9. CASE HalfRetire \/ Retire
  <2>1. Finish \/ \E s \in Rejecting : Goto(s)
    BY <1>9 DEF HalfRetire, Retire, Rejecting
  <2> QED
    BY <1>1, <1>4, <1>9, <2>1, GotoSeals, IdleSeals DEF HalfRetire, Retire, At, Finish,
       stateVars, recordVars
<1>10. CASE MoveRef
  <2>1. UNCHANGED <<tasks, evidence, completion, handoff, manifest>>
    BY <1>10 DEF MoveRef, stateVars, recordVars
  <2>2. Finish \/ Goto("halfRetire")
    BY <1>10 DEF MoveRef
  <2>3. \A u \in Task \ {t} : Status(u) # "RUNNING"
    BY <1>4, <1>10 DEF MoveRef, At, OtherRunning
  <2>4. \A u \in Task \ {t} : TaskInv(u)'
    BY <2>1, <2>3, TaskFrame DEF SealedInv
  <2>5. TaskInv(t)'
    BY <1>4, <1>10, <2>1 DEF MoveRef, At, SealedInv, TaskInv, HasFinal, Ev, Att, Status,
       Rejected, ReviewGrants, PassCompletion
  <2>6. /\ \/ cmd'.step = "idle" /\ cmd'.task = 1
           \/ cmd'.step = "halfRetire" /\ cmd'.task = t
        /\ cmd'.promoted = {}
    BY <1>1, <1>2, <1>4, <1>10, <2>2, GotoMoves DEF MoveRef, At, Finish, Idle
  <2>7. Relies("halfRetire", t)'
    BY <1>2, <1>10, <2>1 DEF MoveRef, At, Relies, HasFinal, Ev, Att, Status, Rejected,
       ReviewGrants, Finalizing, OtherRunning, Awaiting, Closing, Unsourced, Refailing,
       Rejecting, Unsealed, Sealed
  <2>8. Relies(cmd.step, cmd.task)'
    BY <2>6, <2>7, IdleRelies, ReliesNow
  <2>9. EvidenceInv' /\ PromotedInv'
    BY <2>1, <2>6 DEF SealedInv, EvidenceInv, Att, PromotedInv
  <2> QED
    BY <2>4, <2>5, <2>8, <2>9 DEF SealedInv
<1>11. CASE ReopenAbandoned \/ ReopenFailed \/ ReopenRejected
  BY <1>11, ReopenSeals
<1>12. CASE CopyFailCompletion \/ CopyNote \/ CopyRejectedNote
  BY <1>12, CopySeals
<1> QED
  BY <1>5, <1>6, <1>7, <1>8, <1>9, <1>10, <1>11, <1>12 DEF RetryStep

\* A recovery goes on with the next task.
LEMMA NextTaskRelies ==
  ASSUME cmd'.step = "recover"
  PROVE  Relies(cmd.step, cmd.task)'
<1>1. PICK t : t = cmd'.task
  OBVIOUS
<1>2. Relies("recover", t)'
  BY ReliesOnNothing DEF Steps, Awaiting, Closing, Unsourced, Refailing, Rejecting, Unsealed,
     Sealed
<1> QED
  BY <1>1, <1>2, ReliesNow

\* A recovery seals, in the order of a close, what no review holds back, and
\* promotes what is then completely sealed.
LEMMA RecoverSealSeals == SealedInv /\ HistoryInv' /\ RecoverSealStep => SealedInv'
<1> SUFFICES ASSUME SealedInv, HistoryInv', RecoverSealStep PROVE SealedInv'
  OBVIOUS
<1>1. PICK t \in Task : t = cmd.task
  BY CommandFacts DEF RecoverSealStep, At
<1>2. cmd \in Commands /\ Relies(cmd.step, t) /\ HasFinal(t)
  BY <1>1, CommandFacts DEF SealedInv, RecoverSealStep, At, Sealing
<1>3. ASSUME Refused, UNCHANGED <<tasks, evidence, completion, handoff, manifest, head>>
      PROVE  SealedInv'
  <2>1. PICK n : n = cmd.task + 1
    OBVIOUS
  <2>2. cmd'.step = "recover" /\ cmd'.task = n /\ cmd'.promoted = cmd.promoted
    BY <1>2, <1>3, <2>1 DEF Refused, Commands
  <2>3. Relies("recover", n) /\ Relies("recover", n)'
    BY ReliesOnNothing DEF Steps, Awaiting, Closing, Unsourced, Refailing, Rejecting, Unsealed,
       Sealed
  <2> QED
    BY <1>3, <2>2, <2>3, QuietSeals
<1>4. CASE At("recoverCompletion") /\ SealCompletion(Goto("recoverHandoff"), Refused)
  <2>1. ReviewGrants(Ev(t))
    BY <1>2, <1>4 DEF At, Relies, Unsealed
  <2>2. CASE UNCHANGED completion /\ Refused
    BY <1>3, <1>4, <2>2 DEF SealCompletion, stateVars, repoVars
  <2>3. CASE /\ completion' = [completion EXCEPT ![t] = PassCompletion(t, Att(t))]
             /\ Goto("recoverHandoff")
    <3>1. cmd'.step = "recoverHandoff" /\ cmd'.task = t /\ cmd'.promoted = cmd.promoted
      BY <1>1, <1>2, <2>3, GotoMoves
    <3>2. UNCHANGED <<tasks, evidence, handoff, manifest, head>>
      BY <1>4 DEF SealCompletion, stateVars, repoVars
    <3>3. TaskInv(t)' /\ completion'[t].verdict = "PASS"
      BY <1>1, <1>2, <2>1, <2>3, <3>2, CompletionSealed
    <3>4. Relies("recoverHandoff", t)'
      BY <2>1, <3>2, <3>3 DEF Relies, ReviewGrants, Ev, Att, Awaiting, Closing, Unsourced,
         Refailing, Rejecting, Unsealed, Sealed
    <3> QED
      BY <2>3, <3>1, <3>2, <3>3, <3>4, ReliesNow, SlotSeals
  <2> QED
    BY <1>1, <1>4, <2>2, <2>3 DEF SealCompletion
<1>5. CASE At("recoverHandoff") /\ SealHandoff(Goto("recoverManifest"), Refused)
  <2>1. ReviewGrants(Ev(t)) /\ completion[t].verdict = "PASS"
    BY <1>2, <1>5 DEF At, Relies, Sealed
  <2>2. CASE UNCHANGED handoff /\ Refused
    BY <1>3, <1>5, <2>2 DEF SealHandoff, stateVars, repoVars
  <2>3. CASE handoff' = [handoff EXCEPT ![t] = Ev(t).final] /\ Goto("recoverManifest")
    <3>1. cmd'.step = "recoverManifest" /\ cmd'.task = t /\ cmd'.promoted = cmd.promoted
      BY <1>1, <1>2, <2>3, GotoMoves
    <3>2. UNCHANGED <<tasks, evidence, completion, manifest, head>>
      BY <1>5 DEF SealHandoff, stateVars, repoVars
    <3>3. handoff'[t] = Ev(t).final
      BY <2>3 DEF SealedInv, HistoryInv, RuntimeInv, TypeOK, RecordTypes
    <3>4. Relies("recoverManifest", t)'
      BY <2>1, <3>2, <3>3 DEF Relies, ReviewGrants, Ev, Att, Awaiting, Closing, Unsourced,
         Refailing, Rejecting, Unsealed, Sealed
    <3> QED
      BY <1>1, <2>3, <3>1, <3>2, <3>4, ReliesNow, BundleSeals
  <2> QED
    BY <1>1, <1>5, <2>2, <2>3 DEF SealHandoff
<1>6. CASE At("recoverManifest") /\ SealManifest(Promoted, Refused)
  <2>1. ReviewGrants(Ev(t)) /\ completion[t].verdict = "PASS" /\ handoff[t] = Ev(t).final
    BY <1>2, <1>6 DEF At, Relies, Sealed
  <2>2. CASE UNCHANGED manifest /\ Refused
    BY <1>3, <1>6, <2>2 DEF SealManifest, stateVars, repoVars
  <2>3. CASE manifest' = [manifest EXCEPT ![t] = Ev(t).final] /\ Promoted
    <3> DEFINE more == {u \in {cmd.task} : FinalVerifies(u, Att(u))}
    <3>1. cmd'.step = "recover" /\ cmd'.promoted = cmd.promoted \cup more
      BY <1>2, <2>3 DEF Promoted, Commands
    <3>2. more \subseteq {t}
      BY <1>1
    <3> HIDE DEF more
    <3>3. UNCHANGED <<tasks, evidence, completion, handoff, head>>
      BY <1>6 DEF SealManifest, stateVars, repoVars
    <3>4. /\ manifest'[t] = Ev(t).final
          /\ \A u \in Task \ {t} : manifest'[u] = manifest[u]
      BY <2>3 DEF SealedInv, HistoryInv, RuntimeInv, TypeOK, RecordTypes
    <3>5. \A u \in Task \ {t} : TaskInv(u)'
      BY <3>3, <3>4, TaskFrame DEF SealedInv
    <3>6. TaskInv(t)'
      BY <3>3, <3>4 DEF SealedInv, TaskInv, HasFinal, Ev, Att, Status, Rejected, ReviewGrants,
         PassCompletion
    <3>7. EvidenceInv'
      BY <3>3 DEF SealedInv, EvidenceInv, Att
    <3>8. cmd.promoted \subseteq Task
      BY <1>2 DEF Commands
    <3>9. PromotedInv'
      BY <2>1, <3>1, <3>2, <3>3, <3>4, <3>8 DEF SealedInv, PromotedInv, Ev, Att
    <3>10. Relies(cmd.step, cmd.task)'
      BY <3>1, NextTaskRelies
    <3> QED
      BY <3>5, <3>6, <3>7, <3>9, <3>10 DEF SealedInv
  <2> QED
    BY <1>1, <1>6, <2>2, <2>3 DEF SealManifest
<1> QED
  BY <1>4, <1>5, <1>6 DEF RecoverSealStep

\* The single write of a recovery accepts what is completely sealed.
LEMMA RecoverSeals == SealedInv /\ HistoryInv' /\ RecoverStep => SealedInv'
<1> SUFFICES ASSUME SealedInv, HistoryInv', RecoverStep PROVE SealedInv'
  OBVIOUS
<1>1. CASE RecoverSeal
  <2> DEFINE t == CHOOSE u \in NextToSeal : \A v \in NextToSeal : u <= v
  <2>1. t \in Task /\ ReviewGrants(Ev(t))
    <3>1. t \in NextToSeal
      BY <1>1, FirstToSeal DEF RecoverSeal
    <3> QED
      BY <3>1 DEF NextToSeal, Sealable
  <2> HIDE DEF t
  <2>2. cmd'.step = "recoverCompletion" /\ cmd'.task = t /\ cmd'.promoted = cmd.promoted
    BY <1>1, CommandFacts DEF RecoverSeal, t, Commands
  <2>3. Relies("recoverCompletion", t)
    BY <2>1 DEF Relies, Awaiting, Closing, Unsourced, Refailing, Rejecting, Unsealed, Sealed
  <2> QED
    BY <1>1, <2>1, <2>2, <2>3, QuietSeals DEF RecoverSeal, stateVars, recordVars, repoVars
<1>2. CASE RecoverWrite
  <2>1. UNCHANGED <<evidence, completion, handoff, manifest, head>>
        /\ cmd'.step = "idle" /\ cmd'.task = 1 /\ cmd'.promoted = {}
    BY <1>2 DEF RecoverWrite, Finish, Idle, recordVars, repoVars
  <2>2. ASSUME NEW t \in Task
        PROVE  tasks'[t] = Reconciled(t) /\ Att(t)' = Att(t) /\ Ev(t)' = Ev(t)
    <3>1. tasks'[t] = Reconciled(t)
      BY <1>2 DEF RecoverWrite
    <3>2. Reconciled(t).attempts = Att(t)
      BY EvWhole DEF Reconciled, TaskStates, Att
    <3> QED
      BY <2>1, <3>1, <3>2 DEF Ev, Att
  <2>3. ASSUME NEW t \in Task PROVE TaskInv(t)'
    <3>1. CASE Proved(t)
      <4>1. completion[t].verdict = "PASS"
        BY <3>1 DEF Proved, BundleValid, SealedInv, HistoryInv, RuntimeInv, CommandInv
      <4>2. HasFinal(t) /\ ReviewGrants(Ev(t)) /\ completion[t] = PassCompletion(t, Att(t))
        BY <4>1 DEF SealedInv, TaskInv
      <4>3. completion[t].commit = Ev(t).final
        BY <4>2, EvWhole DEF PassCompletion, HasFinal, NoEvidence
      <4>4. handoff[t] = Ev(t).final /\ manifest[t] = Ev(t).final
        BY <3>1, <4>3 DEF Proved, BundleValid, SealedInv, PromotedInv
      <4>5. tasks'[t].status = "PASS" /\ tasks'[t].accepted = Ev(t).final
        BY <2>2, <3>1, <4>3, EvWhole DEF Reconciled, TaskStates
      <4> QED
        BY <2>1, <2>2, <4>1, <4>2, <4>4, <4>5 DEF TaskInv, HasFinal, Status, ReviewGrants,
           PassCompletion
    <3>2. CASE ~Proved(t) /\ Orphaned(t)
      <4>1. ~HasFinal(t)
        BY <3>2 DEF Orphaned, SealedInv, TaskInv
      <4>2. tasks'[t].status = "INFRA_ERROR"
        BY <2>2, <3>2, EvWhole DEF Reconciled, TaskStates
      <4> QED
        BY <2>1, <2>2, <4>1, <4>2 DEF SealedInv, TaskInv, HasFinal, Status
    <3>3. CASE ~Proved(t) /\ ~Orphaned(t)
      <4>1. tasks'[t] = tasks[t]
        BY <2>2, <3>3 DEF Reconciled
      <4> QED
        BY <2>1, <4>1, TaskFrame DEF SealedInv
    <3> QED
      BY <3>1, <3>2, <3>3
  <2>4. EvidenceInv'
    BY <2>1, <2>2 DEF SealedInv, EvidenceInv, EvidenceSound, Rejected
  <2>5. Relies(cmd.step, cmd.task)' /\ PromotedInv'
    BY <2>1, IdleRelies, ReliesNow DEF PromotedInv
  <2> QED
    BY <2>3, <2>4, <2>5 DEF SealedInv
<1> QED
  BY <1>1, <1>2, RecoverSealSeals DEF RecoverStep

\* Commands that begin, and what happens around them.
LEMMA AroundSeals ==
  ASSUME SealedInv, HistoryInv',
         StartCommand \/ WorkerStep \/ Crash \/ OutsideEdit \/ OutsideCommit
  PROVE  SealedInv'
<1>1. CASE Recover
  <2>1. cmd'.step = "recover" /\ cmd'.task = 1 /\ cmd'.promoted = {} /\ 1 \in Task
    BY <1>1, PlanAssumption DEF Recover, Begin, Idle, Task
  <2>2. Relies("recover", 1)
    BY ReliesOnNothing DEF Steps, Awaiting, Closing, Unsourced, Refailing, Rejecting, Unsealed,
       Sealed
  <2> QED
    BY <1>1, <2>1, <2>2, BeginSeals DEF Recover, stateVars, recordVars, repoVars
<1>2. ASSUME NEW t \in Task, PrepareNextTask(t) PROVE SealedInv'
  BY <1>2, StaySeals DEF PrepareNextTask, stateVars, repoVars
<1>3. ASSUME NEW t \in Task, Launch(t) PROVE SealedInv'
  <2>1. cmd'.step = "spawn" /\ cmd'.task = t /\ cmd'.promoted = {}
    BY <1>3 DEF Launch, Begin, Idle
  <2>2. Relies("spawn", t)
    BY ReliesOnNothing DEF Steps, Awaiting, Closing, Unsourced, Refailing, Rejecting, Unsealed,
       Sealed
  <2> QED
    BY <1>3, <2>1, <2>2, BeginSeals DEF Launch, stateVars, recordVars, repoVars
<1>4. CASE WorkerStep \/ OutsideEdit \/ OutsideCommit
  BY <1>4, StaySeals DEF WorkerStep, WorkerEdits, WorkerReports, WorkerExits, OutsideEdit,
     OutsideCommit, stateVars, recordVars, repoVars
<1>5. CASE Crash
  BY <1>5, IdleSeals DEF Crash, Finish, stateVars, recordVars, repoVars
<1> QED
  BY <1>1, <1>2, <1>3, <1>4, <1>5, CloseBegins, RetryBegins DEF StartCommand

--------------------------------------------------------------------------------
(* The theorem.                                                            *)

\* The initial state, and every step.
LEMMA InitSealed == Init => SealedInv
<1> SUFFICES ASSUME Init PROVE SealedInv
  OBVIOUS
<1>1. HistoryInv
  <2>1. SupersededAttemptsClosed
    BY BoundAssumption DEF Init, SupersededAttemptsClosed, Att, Status, InitialTask, Attempt
  <2>2. StartsReady /\ ReopensClosed
    BY DEF Init, StartsReady, ReopensClosed, Idle, Starting, Reopening
  <2> QED
    BY <2>1, <2>2, InitRuntime DEF HistoryInv
<1>2. \A t \in Task : Ev(t) = NoEvidence /\ Status(t) = "READY" /\ completion[t].verdict = "NONE"
  BY DEF Init, Ev, Att, Status, InitialTask, NoCompletion
<1>3. EvidenceInv
  BY DEF Init, EvidenceInv, EvidenceSound, NoEvidence
<1>4. \A t \in Task : TaskInv(t)
  BY <1>2 DEF TaskInv, HasFinal, NoEvidence
<1>5. Relies(cmd.step, cmd.task) /\ PromotedInv
  BY IdleRelies DEF Init, Idle, PromotedInv
<1> QED
  BY <1>1, <1>3, <1>4, <1>5 DEF SealedInv

LEMMA StepSealed == SealedInv /\ [Next]_vars => SealedInv'
<1> SUFFICES ASSUME SealedInv, [Next]_vars PROVE SealedInv'
  OBVIOUS
<1>1. HistoryInv'
  BY StepHistory DEF SealedInv
<1>2. CASE UNCHANGED vars
  BY <1>1, <1>2, StaySeals DEF vars, stateVars, recordVars, repoVars
<1>3. CASE Next
  <2>1. CASE CloseStep
    BY <1>1, <2>1, GateSeals, FailSeals, AcceptSeals DEF CloseStep
  <2> QED
    BY <1>1, <1>3, <2>1, AroundSeals, LaunchSeals, RetrySeals, RecoverSeals
       DEF Next, CommandStep
<1> QED
  BY <1>2, <1>3

\* Whatever crashes, edits and commits from outside do: a task that is PASS has its
\* finalization record, the close bundle and the state on one commit, the
\* ACCEPT a review owed, and no record that says it failed or was rejected.
THEOREM AcceptedSealed == Spec => []AcceptedIsSealed
<1>1. SealedInv => AcceptedIsSealed
  <2> SUFFICES ASSUME SealedInv, NEW t \in Task, Status(t) = "PASS"
               PROVE  /\ tasks[t].accepted = Ev(t).final
                      /\ completion[t] = [verdict |-> "PASS", attempt |-> Att(t),
                                          commit |-> Ev(t).final, gate |-> TRUE]
                      /\ handoff[t] = Ev(t).final /\ manifest[t] = Ev(t).final
                      /\ ReviewGrants(Ev(t))
                      /\ Ev(t).closed \subseteq {"ABANDONED"}
    BY DEF AcceptedIsSealed, Accepted
  <2>1. /\ HasFinal(t) /\ ReviewGrants(Ev(t)) /\ tasks[t].accepted = Ev(t).final
        /\ handoff[t] = Ev(t).final /\ manifest[t] = Ev(t).final
        /\ completion[t] = PassCompletion(t, Att(t))
    BY DEF SealedInv, TaskInv
  <2>2. Ev(t) = evidence[t][Att(t)]
    BY <2>1, EvWhole DEF HasFinal, NoEvidence
  <2>3. Ev(t).closed \subseteq {"ABANDONED"}
    BY <2>1, EvWhole DEF HasFinal, EvidenceSound, EvidenceStates, Rejected, ReviewGrants
  <2> QED
    BY <2>1, <2>2, <2>3 DEF PassCompletion
<1> QED
  BY <1>1, InitSealed, StepSealed, PTL DEF Spec
================================================================================
