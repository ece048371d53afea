---------------------------- MODULE TaskRuntimeLine ----------------------------
(***************************************************************************)
(* Accepted commits form one line of history, for any plan, any patches    *)
(* and any bounds.                                                         *)
(***************************************************************************)
EXTENDS TaskRuntimeSeals

\* Where a candidate may start: at the baseline or at accepted work.
Anchors == AcceptedCommits \cup {Baseline}

\* A finalization no review has rejected: accepted, or to be accepted.
Standing(t) == HasFinal(t) /\ ~Rejected(Ev(t))

\* L is the first-parent line that ends at HEAD, or a part of it that a
\* rejected candidate was taken from.
LineOf(L) ==
  /\ L \subseteq Commit /\ Baseline \in L /\ head \in L
  /\ \A k \in L : k <= head
  /\ \A k \in L \ {Baseline} :
       /\ Parent(k) \in L /\ Parent(k) < k
       /\ \A j \in L : j < k => j <= Parent(k)

\* Everything that stands is on the line, and so is the commit a close has
\* made and is about to record.
HoldsStanding(L) ==
  /\ \A t \in Task : Standing(t) => Ev(t).final \in L
  /\ cmd.step = "record" => cmd.candidate \in L

\* A finalization is a commit of its own task on an anchor.
FinalsAnchored ==
  \A t \in Task : HasFinal(t) => log[Ev(t).final].task = t /\ Parent(Ev(t).final) \in Anchors

\* What a close and the repair of a rejected candidate have found stays true.
Retiring == {"copyRejectedNote", "releaseRejectedNote", "moveRef"}
GuardsHold ==
  /\ cmd.step \in Gate => packet[cmd.task] \in Anchors
  /\ cmd.step \in Retiring =>
       HasFinal(cmd.task) /\ Parent(Ev(cmd.task).final) = tasks[cmd.task].base

LineInv ==
  /\ SealedInv
  /\ authorized \in Anchors
  /\ FinalsAnchored
  /\ GuardsHold
  /\ \E L \in SUBSET Commit : LineOf(L) /\ HoldsStanding(L)

--------------------------------------------------------------------------------
(* What steps do not undo.                                                 *)

\* Accepted work stays accepted.
PassKept ==
  \A t \in Task : Status(t) = "PASS" =>
    tasks'[t].status = "PASS" /\ tasks'[t].accepted = tasks[t].accepted

\* No finalization appears or changes, unless a new attempt starts without one,
\* what was rejected stays rejected, and the source of a FAIL is bound by finishFail.
SourceKept(t) == Ev(t)'.source = Ev(t).source \/ At("failBind")
FinalsKept ==
  \A t \in Task : \/ Status(t) = "READY" /\ Ev(t)'.final = NoCommit
                  \/ /\ Ev(t)'.final = Ev(t).final /\ SourceKept(t)
                     /\ Rejected(Ev(t)) => Rejected(Ev(t))'

\* Commits stay.
LogKept ==
  /\ Len(log) <= Len(log')
  /\ \A c \in 1..Len(log) : log'[c] = log[c]

LEMMA AnchorsGrow == ASSUME PassKept PROVE Anchors \subseteq Anchors'
  BY DEF PassKept, Anchors, AcceptedCommits, Accepted, Status

\* A task that is rewritten and was not PASS.
LEMMA RewritePass ==
  ASSUME SealedInv, NEW t \in Task, Status(t) # "PASS", NEW new, SetTask(t, new)
  PROVE  PassKept
  BY DEF PassKept, SetTask, SealedInv, HistoryInv, RuntimeInv, TypeOK, StateTypes, Status

LEMMA PassStays == SealedInv /\ Next => PassKept
<1> SUFFICES ASSUME SealedInv, Next PROVE PassKept
  OBVIOUS
<1>1. ASSUME UNCHANGED tasks PROVE PassKept
  BY <1>1 DEF PassKept, Status
<1>2. ASSUME cmd.step \notin {"idle", "recover"}
       PROVE  cmd.task \in Task /\ Relies(cmd.step, cmd.task)
  BY <1>2, CommandFacts DEF SealedInv
<1>3. CASE StartCommand
  BY <1>1, <1>3 DEF StartCommand, Recover, PrepareNextTask, Launch, Close, ResumeAcceptance,
     CaptureCandidate, StartGate, AdoptSealedFail, CloseDeclaredFailure, Retry,
     RecordAbandonment, ArchiveFailedAttempt, ResumeArchival, ArchiveRejectedCandidate, stateVars
<1>4. CASE LaunchStep
  <2>1. CASE SpawnFails \/ OnStarted
    <3>1. cmd.task \in Task /\ Status(cmd.task) # "PASS"
      BY <1>2, <2>1 DEF SpawnFails, OnStarted, At, SealedInv, HistoryInv, StartsReady, Starting
    <3> QED
      BY <2>1, <3>1, RewritePass DEF SpawnFails, OnStarted
  <2>2. CASE Settle
    <3>1. cmd.task \in Task /\ Status(cmd.task) # "PASS"
      BY <1>2, <2>2 DEF Settle, At, Relies, Awaiting
    <3> QED
      BY <2>2, <3>1, RewritePass DEF Settle
  <2> QED
    BY <1>1, <1>4, <2>1, <2>2 DEF LaunchStep, LaunchRefused, Spawn, OpenRecord, Terminated,
       stateVars
<1>5. CASE CloseStep
  <2>1. CASE WriteFailState
    <3>1. cmd.task \in Task /\ Status(cmd.task) # "PASS"
      BY <1>2, <2>1 DEF WriteFailState, At, Relies, Closing, Finalizing
    <3> QED
      BY <2>1, <3>1, RewritePass DEF WriteFailState
  <2>2. CASE Promote
    <3>1. PICK t \in Task : t = cmd.task
      BY <1>2, <2>2 DEF Promote, At
    <3> DEFINE new == [tasks[t] EXCEPT !.status = "PASS", !.phase = "NONE",
                                       !.accepted = Ev(t).final]
    <3>2. UNCHANGED tasks \/ SetTask(t, new)
      BY <2>2, <3>1 DEF Promote, stateVars
    <3>3. new.status = "PASS" /\ new.accepted = Ev(t).final
      BY EvWhole DEF TaskStates
    <3>4. Status(t) = "PASS" => tasks[t].accepted = Ev(t).final
      BY DEF SealedInv, TaskInv
    <3> HIDE DEF new
    <3> QED
      BY <1>1, <3>2, <3>3, <3>4 DEF PassKept, SetTask, SealedInv, HistoryInv, RuntimeInv,
         TypeOK, StateTypes, Status
  <2> QED
    BY <1>1, <1>5, <2>1, <2>2 DEF CloseStep, GateFails, GateDrifts, GatePasses, Stage,
       CachedCheckFails, CommitFails, CommitStaged, WriteFinal, ArchiveFail, BindFailSource,
       WriteFailCompletion, Review, AcceptancePends, BeginSeal, SealStep, SealCompletion,
       SealHandoff, SealManifest, stateVars
<1>6. CASE RetryStep
  <2>1. CASE ReopenAbandoned \/ ReopenFailed \/ ReopenRejected
    <3>1. cmd.task \in Task /\ Status(cmd.task) # "PASS"
      BY <1>2, <2>1 DEF ReopenAbandoned, ReopenFailed, ReopenRejected, At, Relies, Refailing,
         Rejecting, Finalizing
    <3> QED
      BY <2>1, <3>1, RewritePass DEF ReopenAbandoned, ReopenFailed, ReopenRejected
  <2> QED
    BY <1>1, <1>6, <2>1 DEF RetryStep, CopyFailCompletion, CopyNote, ReleaseSlot, ReleaseNote,
       HalfReset, Reset, CopyRejectedNote, ReleaseRejectedNote, MoveRef, HalfRetire, Retire,
       stateVars
<1>7. CASE RecoverStep
  <2>1. CASE RecoverWrite
    BY <2>1 DEF RecoverWrite, Reconciled, Proved, Orphaned, PassKept, Status
  <2> QED
    BY <1>1, <1>7, <2>1 DEF RecoverStep, RecoverSeal, RecoverSealStep, SealCompletion,
       SealHandoff, SealManifest, stateVars
<1>8. CASE WorkerStep \/ Crash \/ OutsideEdit \/ OutsideCommit
  BY <1>1, <1>8 DEF WorkerStep, WorkerEdits, WorkerReports, WorkerExits, Crash, OutsideEdit,
     OutsideCommit, stateVars
<1> QED
  BY <1>3, <1>4, <1>5, <1>6, <1>7, <1>8 DEF Next, CommandStep

\* A record that says as much as before about finalization and review.
LEMMA MildRecord ==
  ASSUME SealedInv, UNCHANGED tasks, NEW t \in Task, NEW new, Record(t, Att(t), new),
         new.final = Ev(t).final, Rejected(Ev(t)) => Rejected(new),
         new.source = Ev(t).source \/ At("failBind")
  PROVE  FinalsKept
<1>1. CASE Att(t) = 0
  <2>1. \A u \in Task : Ev(u)' = Ev(u)
    BY <1>1 DEF Record, Ev, Att, SealedInv, HistoryInv, RuntimeInv, TypeOK, RecordTypes, Attempt
  <2> QED
    BY <2>1 DEF FinalsKept, Rejected, SourceKept
<1>2. CASE Att(t) # 0
  <2>0. Att(t) > 0
    BY <1>2, EvWhole
  <2>1. Ev(t)' = new /\ \A u \in Task \ {t} : evidence'[u] = evidence[u]
    BY <2>0, Written
  <2>2. \A u \in Task \ {t} : Ev(u)' = Ev(u)
    BY <2>1 DEF Ev, Att
  <2> QED
    BY <2>1, <2>2 DEF FinalsKept, Rejected, SourceKept
<1> QED
  BY <1>1, <1>2

\* Only the commit that is recorded and the candidate that is captured are new.
LEMMA FinalsStay ==
  SealedInv /\ Next => FinalsKept \/ WriteFinal
                         \/ \E t \in Task : \E r \in {FALSE, Reviewing} : CaptureCandidate(t, r)
<1> SUFFICES ASSUME SealedInv, Next, ~WriteFinal,
                    \A t \in Task : \A r \in {FALSE, Reviewing} : ~CaptureCandidate(t, r)
             PROVE  FinalsKept
  OBVIOUS
<1>1. ASSUME UNCHANGED evidence PROVE FinalsKept
  <2>1. CASE AttemptsKept
    BY <1>1, <2>1 DEF AttemptsKept, FinalsKept, Ev, Att, Rejected, SourceKept
  <2>2. CASE OnStarted
    <3>1. PICK t \in Task : t = cmd.task /\ Att(t) < MaxAttempts /\ Status(t) = "READY"
      BY <2>2 DEF OnStarted, At, SealedInv, HistoryInv, RuntimeInv, CommandInv, StartsReady,
         Starting
    <3>2. /\ tasks'[t].attempts = Att(t) + 1
          /\ \A u \in Task \ {t} : tasks'[u] = tasks[u]
      BY <2>2, <3>1 DEF OnStarted, SetTask, SealedInv, HistoryInv, RuntimeInv, TypeOK, StateTypes
    <3>3. Att(t) + 1 \in Attempt /\ Att(t) + 1 > Att(t) /\ Att(t) + 1 # 0
      BY <3>1, EvWhole, BoundAssumption DEF Attempt
    <3>4. evidence[t][Att(t) + 1] = NoEvidence
      BY <3>3 DEF SealedInv, EvidenceInv
    <3>5. Ev(t)' = NoEvidence
      BY <1>1, <3>2, <3>3, <3>4 DEF Ev, Att
    <3> QED
      BY <1>1, <3>1, <3>2, <3>5 DEF FinalsKept, NoEvidence, Ev, Att, Rejected, SourceKept
  <2>3. CASE ReopenAbandoned \/ ReopenFailed \/ ReopenRejected
    <3>1. cmd.task \in Task /\ SetTask(cmd.task, Reopened(cmd.task))
      BY <2>3, CommandFacts DEF ReopenAbandoned, ReopenFailed, ReopenRejected, At
    <3>2. \A u \in Task : Att(u)' = Att(u)
      BY <3>1 DEF SetTask, Reopened, SealedInv, HistoryInv, RuntimeInv, TypeOK, StateTypes,
         TaskStates, Att
    <3> QED
      BY <1>1, <3>2 DEF FinalsKept, Ev, Rejected, SourceKept
  <2> QED
    BY <2>1, <2>2, <2>3, AttemptsStay DEF SealedInv
<1>2. ASSUME NEW t \in Task, NEW how, CloseAttempt(t, how), UNCHANGED tasks PROVE FinalsKept
  <2> DEFINE new == [Ev(t) EXCEPT !.closed = @ \cup {how}]
  <2>1. /\ new.final = Ev(t).final /\ new.source = Ev(t).source
        /\ new.required = Ev(t).required /\ new.review = Ev(t).review
    BY EvWhole DEF EvidenceStates
  <2>2. Record(t, Att(t), new)
    BY <1>2 DEF CloseAttempt
  <2> HIDE DEF new
  <2> QED
    BY <1>2, <2>1, <2>2, MildRecord DEF Rejected
<1>3. CASE StartCommand
  <2>1. ASSUME NEW t \in Task, Retry(t) PROVE FinalsKept
    BY <1>1, <1>2, <2>1 DEF Retry, RecordAbandonment, ArchiveFailedAttempt, ResumeArchival,
       ArchiveRejectedCandidate, stateVars, recordVars
  <2> QED
    BY <1>1, <1>3, <2>1 DEF StartCommand, Recover, PrepareNextTask, Launch, Close,
       ResumeAcceptance, StartGate, AdoptSealedFail, CloseDeclaredFailure, recordVars
<1>4. CASE LaunchStep
  BY <1>1, <1>4 DEF LaunchStep, LaunchRefused, SpawnFails, Spawn, OpenRecord, OnStarted, Settle,
     Terminated, recordVars
<1>5. ASSUME cmd.step \notin {"idle", "recover"} PROVE cmd.task \in Task
  BY <1>5, CommandFacts
<1>6. ASSUME NEW t \in Task, NEW new, Record(t, Att(t), new), UNCHANGED tasks,
             \/ new = [Ev(t) EXCEPT !.archive = TRUE]
             \/ At("failBind") /\ new = [Ev(t) EXCEPT !.source = cmd.patch, !.worker = note[t].by]
             \/ new = [Ev(t) EXCEPT !.failCopy = TRUE]
             \/ new = [Ev(t) EXCEPT !.noteCopy = @ \/ Ev(t).worker # 0]
             \/ new = [Ev(t) EXCEPT !.noteCopy = TRUE]
      PROVE  FinalsKept
  <2>1. /\ new.final = Ev(t).final /\ (new.source = Ev(t).source \/ At("failBind"))
        /\ new.required = Ev(t).required /\ new.review = Ev(t).review
    BY <1>6, EvWhole DEF EvidenceStates
  <2> QED
    BY <1>6, <2>1, MildRecord DEF Rejected
<1>7. CASE CloseStep
  <2>1. CASE ArchiveFail \/ BindFailSource
    BY <1>1, <1>5, <1>6, <2>1 DEF ArchiveFail, BindFailSource, At, stateVars
  <2>2. ASSUME NEW verdict, Review(verdict) PROVE FinalsKept
    <3>1. PICK t \in Task : t = cmd.task
      BY <1>5, <2>2 DEF Review, At
    <3> DEFINE new == [Ev(t) EXCEPT !.review = verdict]
    <3>2. new.final = Ev(t).final /\ new.source = Ev(t).source
      BY EvWhole DEF EvidenceStates
    <3>3. Record(t, Att(t), new) /\ ~Rejected(Ev(t)) /\ UNCHANGED tasks
      BY <2>2, <3>1 DEF Review, Rejected, stateVars
    <3> HIDE DEF new
    <3> QED
      BY <3>2, <3>3, MildRecord
  <2> QED
    BY <1>1, <1>7, <2>1, <2>2 DEF CloseStep, GateFails, GateDrifts, GatePasses, Stage,
       CachedCheckFails, CommitFails, CommitStaged, WriteFailCompletion, WriteFailState,
       AcceptancePends, BeginSeal, SealStep, SealCompletion, SealHandoff, SealManifest, Promote,
       recordVars
<1>8. CASE RetryStep
  <2>1. CASE CopyFailCompletion \/ CopyNote \/ CopyRejectedNote
    BY <1>5, <1>6, <2>1 DEF CopyFailCompletion, CopyNote, CopyRejectedNote, At, stateVars
  <2> QED
    BY <1>1, <1>8, <2>1 DEF RetryStep, ReopenAbandoned, ReleaseSlot, ReleaseNote, HalfReset,
       Reset, ReopenFailed, ReleaseRejectedNote, MoveRef, HalfRetire, Retire, ReopenRejected,
       recordVars
<1>9. CASE RecoverStep
  BY <1>1, <1>9 DEF RecoverStep, RecoverSeal, RecoverSealStep, SealCompletion, SealHandoff,
     SealManifest, RecoverWrite, recordVars
<1>10. CASE WorkerStep \/ Crash \/ OutsideEdit \/ OutsideCommit
  BY <1>1, <1>10 DEF WorkerStep, WorkerEdits, WorkerReports, WorkerExits, Crash, OutsideEdit,
     OutsideCommit, recordVars
<1> QED
  BY <1>3, <1>4, <1>7, <1>8, <1>9, <1>10 DEF Next, CommandStep

\* Commits are added by a close and from outside; HEAD moves with them, and back
\* when a rejected candidate is retired.
LEMMA RepoStays ==
  Next => UNCHANGED <<log, head>> \/ CommitStaged \/ OutsideCommit \/ MoveRef
  BY DEF Next, StartCommand, CommandStep, Recover, PrepareNextTask, Launch, Close,
     ResumeAcceptance, CaptureCandidate, StartGate, AdoptSealedFail, CloseDeclaredFailure,
     Retry, RecordAbandonment, ArchiveFailedAttempt, ResumeArchival, ArchiveRejectedCandidate,
     LaunchStep, LaunchRefused, SpawnFails, Spawn, OpenRecord, OnStarted, Settle, Terminated,
     CloseStep, GateFails, GateDrifts, GatePasses, Stage, CachedCheckFails, CommitFails,
     WriteFinal, ArchiveFail, BindFailSource, WriteFailCompletion, WriteFailState, Review,
     AcceptancePends, BeginSeal, SealStep, SealCompletion, SealHandoff, SealManifest, Promote,
     RetryStep, ReopenAbandoned, CopyFailCompletion, CopyNote, ReleaseSlot, ReleaseNote,
     HalfReset, Reset, ReopenFailed, CopyRejectedNote, ReleaseRejectedNote, HalfRetire, Retire,
     ReopenRejected, RecoverStep, RecoverSeal, RecoverSealStep, RecoverWrite, WorkerStep,
     WorkerEdits, WorkerReports, WorkerExits, Crash, OutsideEdit, repoVars

LEMMA LogStays == SealedInv /\ Next => LogKept
<1> SUFFICES ASSUME SealedInv, Next PROVE LogKept
  OBVIOUS
<1>1. log \in Seq(LogEntries)
  BY DEF SealedInv, HistoryInv, RuntimeInv, TypeOK, RepoTypes
<1>2. ASSUME UNCHANGED log PROVE LogKept
  BY <1>1, <1>2 DEF LogKept
<1>3. ASSUME NEW e, log' = Append(log, e) PROVE LogKept
  BY <1>1, <1>3 DEF LogKept
<1> QED
  BY <1>2, <1>3, RepoStays DEF CommitStaged, OutsideCommit, MoveRef

\* The base moves when a task is accepted.
LEMMA BaseStays == Next => UNCHANGED authorized \/ Promote \/ RecoverWrite
  BY DEF Next, StartCommand, CommandStep, Recover, PrepareNextTask, Launch, Close,
     ResumeAcceptance, CaptureCandidate, StartGate, AdoptSealedFail, CloseDeclaredFailure,
     Retry, RecordAbandonment, ArchiveFailedAttempt, ResumeArchival, ArchiveRejectedCandidate,
     LaunchStep, LaunchRefused, SpawnFails, Spawn, OpenRecord, OnStarted, Settle, Terminated,
     CloseStep, GateFails, GateDrifts, GatePasses, Stage, CachedCheckFails, CommitFails,
     CommitStaged, WriteFinal, ArchiveFail, BindFailSource, WriteFailCompletion,
     WriteFailState, Review, AcceptancePends, BeginSeal, SealStep, SealCompletion, SealHandoff,
     SealManifest, RetryStep, ReopenAbandoned, CopyFailCompletion, CopyNote, ReleaseSlot,
     ReleaseNote, HalfReset, Reset, ReopenFailed, CopyRejectedNote, ReleaseRejectedNote,
     MoveRef, HalfRetire, Retire, ReopenRejected, RecoverStep, RecoverSeal, RecoverSealStep,
     WorkerStep, WorkerEdits, WorkerReports, WorkerExits, Crash, OutsideEdit, OutsideCommit,
     stateVars

--------------------------------------------------------------------------------
(* The running command.                                                    *)

\* A step has nothing to do with a gate or a retirement, or begins one, goes on
\* with one, or leaves it where it is.
Aside == cmd'.step \notin Gate \cup Retiring
Advances(steps) ==
  /\ cmd.step \in steps /\ cmd'.step \in steps
  /\ cmd'.task = cmd.task /\ UNCHANGED <<tasks, packet>>
  /\ cmd'.step = "record" =>
       CommitStaged \/ (cmd.step = "record" /\ cmd'.candidate = cmd.candidate)

LEMMA LineMoves ==
  ASSUME SealedInv, Next
  PROVE  \/ Aside
         \/ Advances(Gate) \/ Advances(Retiring)
         \/ \E t \in Task : \E r \in {FALSE, Reviewing} :
              StartGate(t, r) /\ cmd'.task = t /\ cmd'.step = "gate"
         \/ \E t \in Task :
              ArchiveRejectedCandidate(t) /\ cmd'.task = t /\ cmd'.step = "copyRejectedNote"
<1> DEFINE Goal ==
      \/ Aside
      \/ Advances(Gate) \/ Advances(Retiring)
      \/ \E t \in Task : \E r \in {FALSE, Reviewing} :
           StartGate(t, r) /\ cmd'.task = t /\ cmd'.step = "gate"
      \/ \E t \in Task :
           ArchiveRejectedCandidate(t) /\ cmd'.task = t /\ cmd'.step = "copyRejectedNote"
<1>14. Aside \/ Advances(Gate) \/ Advances(Retiring) => Goal
  OBVIOUS
<1>16. /\ \A t \in Task : \A r \in {FALSE, Reviewing} :
            StartGate(t, r) /\ cmd'.task = t /\ cmd'.step = "gate" => Goal
       /\ \A t \in Task :
            ArchiveRejectedCandidate(t) /\ cmd'.task = t /\ cmd'.step = "copyRejectedNote" => Goal
  OBVIOUS
<1> HIDE DEF Goal
<1>0. cmd \in Commands
  BY CommandFacts
<1>1. ASSUME NEW s, Goto(s)
      PROVE  cmd'.step = s /\ cmd'.task = cmd.task /\ cmd'.candidate = cmd.candidate
  BY <1>0, <1>1 DEF Goto, Commands
<1>2. ASSUME Finish PROVE Aside
  BY <1>2 DEF Finish, Idle, Aside, Gate, Retiring
<1>3. ASSUME NEW s, NEW t, Begin(s, t) PROVE cmd'.step = s
  BY <1>3 DEF Begin, Idle
<1>4. ASSUME UNCHANGED <<cmd, tasks, packet>> PROVE Goal
  <2>1. Aside \/ Advances(Gate) \/ Advances(Retiring)
    BY <1>4 DEF Aside, Advances
  <2> QED
    BY <1>14, <2>1
<1>5. ASSUME At("idle"), UNCHANGED cmd PROVE Aside
  BY <1>5 DEF At, Aside, Gate, Retiring
<1>6. ASSUME NEW t \in Task, PrepareNextTask(t) \/ Launch(t) \/ Close(t) \/ Retry(t) PROVE Goal
  <2>1. ASSUME PrepareNextTask(t) \/ Launch(t) PROVE Aside
    BY <1>3, <1>5, <2>1 DEF PrepareNextTask, Launch, Aside, Gate, Retiring
  <2>2. CASE Close(t)
    <3>1. ASSUME NEW r \in {FALSE, Reviewing}, StartGate(t, r) PROVE Goal
      <4>1. cmd'.step = "gate" /\ cmd'.task = t
        BY <3>1 DEF StartGate, Idle
      <4> QED
        BY <1>16, <3>1, <4>1
    <3>2. ASSUME NEW r, ResumeAcceptance(t, r) \/ CaptureCandidate(t, r) PROVE Aside
      BY <3>2 DEF ResumeAcceptance, CaptureCandidate, Idle, Aside, Gate, Retiring
    <3>3. ASSUME AdoptSealedFail(t) \/ CloseDeclaredFailure(t) PROVE Aside
      BY <1>3, <3>3 DEF AdoptSealedFail, CloseDeclaredFailure, Aside, Gate, Retiring
    <3> QED
      BY <1>14, <2>2, <3>1, <3>2, <3>3 DEF Close
  <2>3. CASE Retry(t)
    <3>1. ASSUME RecordAbandonment(t) \/ ResumeArchival(t) PROVE Aside
      BY <1>3, <3>1 DEF RecordAbandonment, ResumeArchival, Aside, Gate, Retiring
    <3>2. ASSUME ArchiveFailedAttempt(t) PROVE Aside
      BY <3>2 DEF ArchiveFailedAttempt, Idle, Aside, Gate, Retiring
    <3>3. CASE ArchiveRejectedCandidate(t)
      <4>1. cmd'.step = "copyRejectedNote" /\ cmd'.task = t
        BY <3>3 DEF ArchiveRejectedCandidate, Idle
      <4> QED
        BY <1>16, <3>3, <4>1
    <3> QED
      BY <1>14, <2>3, <3>1, <3>2, <3>3 DEF Retry
  <2> QED
    BY <1>6, <1>14, <2>1, <2>2, <2>3
<1>7. ASSUME Recover PROVE Aside
  BY <1>3, <1>7 DEF Recover, Aside, Gate, Retiring
<1>8. ASSUME LaunchStep PROVE Aside
  <2>1. ASSUME NEW outcome, Terminated(outcome) PROVE cmd'.step = "settle"
    BY <1>0, <2>1 DEF Terminated, Commands
  <2>2. CASE Spawn \/ OpenRecord \/ OnStarted
    BY <1>1, <2>2 DEF Spawn, OpenRecord, OnStarted, Aside, Gate, Retiring
  <2>3. CASE LaunchRefused \/ SpawnFails \/ Settle
    BY <1>2, <2>3 DEF LaunchRefused, SpawnFails, Settle
  <2> QED
    BY <1>8, <2>1, <2>2, <2>3 DEF LaunchStep, Aside, Gate, Retiring
<1>9. ASSUME CloseStep PROVE Goal
  <2>1. ASSUME CommitStaged PROVE Advances(Gate)
    <3>1. cmd'.step = "record" /\ cmd'.task = cmd.task
      BY <1>0, <2>1 DEF CommitStaged, Commands
    <3> QED
      BY <2>1, <3>1 DEF CommitStaged, At, Advances, Gate, stateVars, recordVars
  <2>2. ASSUME GatePasses \/ Stage PROVE Aside \/ Advances(Gate)
    BY <1>1, <2>2 DEF GatePasses, Stage, At, Advances, Aside, Gate, Retiring, stateVars, recordVars
  <2>3. ASSUME GateFails \/ GateDrifts \/ CachedCheckFails \/ CommitFails PROVE Aside
    BY <1>1, <1>2, <2>3 DEF GateFails, GateDrifts, CachedCheckFails, CommitFails, Aside, Gate,
       Retiring
  <2>4. ASSUME ArchiveFail PROVE Aside
    <3>1. Finish \/ cmd'.step = "failBind"
      BY <1>0, <2>4 DEF ArchiveFail, Commands
    <3> QED
      BY <1>2, <3>1 DEF Aside, Gate, Retiring
  <2>5. ASSUME WriteFinal \/ BindFailSource \/ WriteFailCompletion \/ WriteFailState PROVE Aside
    BY <1>1, <1>2, <2>5 DEF WriteFinal, BindFailSource, WriteFailCompletion, WriteFailState,
       Aside, Gate, Retiring
  <2>6. ASSUME NEW verdict, Review(verdict) PROVE Goal
    BY <1>4, <2>6 DEF Review, stateVars
  <2>7. ASSUME AcceptancePends \/ BeginSeal \/ SealStep \/ Promote PROVE Aside
    BY <1>1, <1>2, <2>7 DEF AcceptancePends, BeginSeal, SealStep, SealCompletion, SealHandoff,
       SealManifest, Promote, Aside, Gate, Retiring
  <2> QED
    BY <1>9, <1>14, <2>1, <2>2, <2>3, <2>4, <2>5, <2>6, <2>7 DEF CloseStep
<1>10. ASSUME RetryStep PROVE Goal
  <2>1. ASSUME ReopenAbandoned \/ ReopenFailed \/ ReopenRejected PROVE Aside
    BY <1>2, <2>1 DEF ReopenAbandoned, ReopenFailed, ReopenRejected
  <2>2. ASSUME CopyFailCompletion \/ CopyNote \/ ReleaseSlot \/ ReleaseNote PROVE Aside
    BY <1>1, <2>2 DEF CopyFailCompletion, CopyNote, ReleaseSlot, ReleaseNote, Aside, Gate, Retiring
  <2>3. ASSUME HalfReset \/ Reset \/ HalfRetire \/ Retire \/ MoveRef PROVE Aside
    BY <1>1, <1>2, <2>3 DEF HalfReset, Reset, HalfRetire, Retire, MoveRef, Aside, Gate, Retiring
  <2>4. ASSUME CopyRejectedNote \/ ReleaseRejectedNote PROVE Advances(Retiring)
    BY <1>1, <2>4 DEF CopyRejectedNote, ReleaseRejectedNote, At, Advances, Retiring, stateVars,
       recordVars
  <2> QED
    BY <1>10, <1>14, <2>1, <2>2, <2>3, <2>4 DEF RetryStep
<1>11. ASSUME RecoverStep PROVE Aside
  <2>1. ASSUME Refused \/ Promoted \/ RecoverSeal PROVE Aside
    BY <1>0, <2>1 DEF Refused, Promoted, RecoverSeal, Commands, Aside, Gate, Retiring
  <2>2. CASE RecoverSeal \/ RecoverWrite
    BY <1>2, <2>1, <2>2 DEF RecoverWrite
  <2>3. CASE RecoverSealStep
    BY <1>1, <2>1, <2>3 DEF RecoverSealStep, SealCompletion, SealHandoff, SealManifest, Aside,
       Gate, Retiring
  <2> QED
    BY <1>11, <2>2, <2>3 DEF RecoverStep
<1>12. ASSUME WorkerStep \/ OutsideEdit \/ OutsideCommit PROVE Goal
  <2>1. UNCHANGED <<cmd, tasks, packet>>
    BY <1>12 DEF WorkerStep, WorkerEdits, WorkerReports, WorkerExits, OutsideEdit,
       OutsideCommit, stateVars, recordVars
  <2> QED
    BY <1>4, <2>1
<1>13. ASSUME Crash PROVE Aside
  BY <1>2, <1>13 DEF Crash
<1>15. Goal
  BY <1>6, <1>7, <1>8, <1>9, <1>10, <1>11, <1>12, <1>13, <1>14
     DEF Next, StartCommand, CommandStep
<1> QED
  BY <1>15 DEF Goal

--------------------------------------------------------------------------------
(* The line of history.                                                    *)

\* A finalization names a commit over the baseline.
LEMMA FinalPlace ==
  ASSUME SealedInv, NEW t \in Task, HasFinal(t)
  PROVE  Ev(t).final \in 1..Len(log) /\ Len(log) \in Nat
<1>1. Ev(t).final \in CommitOrNone /\ Len(log) \in Nat
  BY EvWhole DEF EvidenceStates, SealedInv, HistoryInv, RuntimeInv, TypeOK, RepoTypes
<1>2. Ev(t).final # Baseline
  BY EvWhole DEF HasFinal, NoEvidence, SealedInv, HistoryInv, RuntimeInv, RecordInv
<1> QED
  BY <1>1, <1>2 DEF HasFinal, CommitOrNone, Commit, Baseline, NoCommit

\* HEAD moves to a new commit on it.
LEMMA LineExtends ==
  ASSUME SealedInv, NEW L, LineOf(L), NEW e, e.parent = head, log' = Append(log, e),
         NEW n, n = Len(log) + 1, head' = n
  PROVE  LineOf(L \cup {n})'
<1>1. log \in Seq(LogEntries) /\ Len(log) \in Nat /\ head \in 0..Len(log)
  BY DEF SealedInv, HistoryInv, RuntimeInv, TypeOK, RepoTypes, Commit
<1>2. Len(log') = n /\ log'[n] = e /\ \A k \in 1..Len(log) : log'[k] = log[k]
  BY <1>1
<1>3. L \subseteq 0..Len(log)
  BY DEF LineOf, Commit
<1>4. \A k \in L \ {0} : log'[k] = log[k]
  BY <1>1, <1>2, <1>3
<1>5. ASSUME NEW k \in (L \cup {n}) \ {Baseline}
      PROVE  /\ log'[k].parent \in L \cup {n} /\ log'[k].parent < k
             /\ \A j \in L \cup {n} : j < k => j <= log'[k].parent
  <2>1. CASE k = n
    BY <1>1, <1>2, <1>3, <2>1 DEF LineOf
  <2>2. CASE k \in L \ {Baseline}
    BY <1>1, <1>3, <1>4, <2>2 DEF LineOf, Parent, Baseline
  <2> QED
    BY <2>1, <2>2
<1>6. /\ L \cup {n} \subseteq 0..Len(log') /\ Baseline \in L
      /\ \A k \in L \cup {n} : k <= n
  BY <1>1, <1>2, <1>3 DEF LineOf
<1> QED
  BY <1>5, <1>6 DEF LineOf, Commit, Parent

\* HEAD moves back by one commit.
LEMMA LineRetracts ==
  ASSUME SealedInv, NEW L, LineOf(L), UNCHANGED log, NEW c, c = head, c # Baseline,
         head' = Parent(c)
  PROVE  LineOf(L \ {c})'
<1>1. L \subseteq 0..Len(log) /\ Len(log) \in Nat
  BY DEF SealedInv, HistoryInv, RuntimeInv, TypeOK, RepoTypes, LineOf, Commit
<1>2. /\ Parent(c) \in L /\ Parent(c) < c /\ c \in L
      /\ \A j \in L : j < c => j <= Parent(c)
      /\ \A j \in L : j <= c
  BY DEF LineOf
<1>3. \A j \in L \ {c} : j <= Parent(c)
  BY <1>1, <1>2
<1>4. \A k \in L \ {c} : k # Baseline => Parent(k) \in L \ {c}
  BY <1>1, <1>2 DEF LineOf
<1> QED
  BY <1>1, <1>2, <1>3, <1>4 DEF LineOf, Commit, Parent, Baseline

\* Two commits of a line that start at the same place are one.
LEMMA LineForksNowhere ==
  ASSUME SealedInv, NEW L, LineOf(L), NEW c \in L \ {Baseline}, NEW d \in L \ {Baseline},
         Parent(c) = Parent(d)
  PROVE  c = d
<1>1. L \subseteq 0..Len(log) /\ Len(log) \in Nat
  BY DEF SealedInv, HistoryInv, RuntimeInv, TypeOK, RepoTypes, LineOf, Commit
<1>2. PICK p \in L : p = Parent(c) /\ p = Parent(d)
  BY DEF LineOf
<1>3. p < c /\ p < d /\ (c < d => c <= p) /\ (d < c => d <= p)
  BY <1>2 DEF LineOf
<1>4. p \in Int /\ c \in Int /\ d \in Int
  BY <1>1
<1> QED
  BY <1>3, <1>4

\* A finalization that is kept stays where it was.
LEMMA AnchoredStays ==
  ASSUME SealedInv, FinalsAnchored, LogKept, PassKept, NEW t \in Task,
         HasFinal(t)', Ev(t)'.final = Ev(t).final
  PROVE  log'[Ev(t)'.final].task = t /\ Parent(Ev(t).final)' \in Anchors' /\ HasFinal(t)
<1>1. HasFinal(t)
  BY DEF HasFinal, NoCommit
<1>2. log'[Ev(t).final] = log[Ev(t).final]
  BY <1>1, FinalPlace DEF LogKept
<1> QED
  BY <1>1, <1>2, AnchorsGrow DEF FinalsAnchored, Parent

--------------------------------------------------------------------------------
(* The actions.                                                            *)

\* The base is moved to accepted work.
LEMMA BaseAnchored == ASSUME LineInv, Next, SealedInv', PassKept PROVE authorized' \in Anchors'
<1>1. CASE UNCHANGED authorized
  BY <1>1, AnchorsGrow DEF LineInv
<1>2. CASE Promote
  <2>1. PICK t \in Task : t = cmd.task
    BY <1>2, CommandFacts DEF Promote, At, LineInv
  <2> DEFINE new == [tasks[t] EXCEPT !.status = "PASS", !.phase = "NONE",
                                     !.accepted = Ev(t).final]
  <2>2. CASE UNCHANGED stateVars
    BY <1>1, <2>2 DEF stateVars
  <2>3. CASE SetTask(t, new) /\ authorized' = Ev(t).final
    <3>1. new.status = "PASS" /\ new.accepted = Ev(t).final
      BY EvWhole DEF TaskStates, LineInv
    <3> HIDE DEF new
    <3>2. tasks'[t] = new
      BY <2>3 DEF SetTask, LineInv, SealedInv, HistoryInv, RuntimeInv, TypeOK, StateTypes
    <3> QED
      BY <2>3, <3>1, <3>2 DEF Anchors, AcceptedCommits, Accepted, Status
  <2> QED
    BY <1>2, <2>1, <2>2, <2>3 DEF Promote
<1>3. CASE RecoverWrite
  <2> DEFINE ts == [t \in Task |-> Reconciled(t)]
             A == {ts[t].accepted : t \in {u \in Task : ts[u].status = "PASS"}}
  <2>1. tasks' = ts /\ authorized' = ReconciledHead(ts)
    BY <1>3 DEF RecoverWrite
  <2>2. Anchors' = A \cup {Baseline}
    BY <2>1 DEF Anchors, AcceptedCommits, Accepted, Status
  <2>3. DerivedHead(ts) = Baseline \/ DerivedHead(ts) \in A
    <3>1. A \subseteq 0..Len(log) /\ Len(log) \in Nat
      <4>1. /\ ts \in [Task -> TaskStates]
            /\ \A t \in Task : ts[t].status = "PASS" => ts[t].accepted # NoCommit
        BY ReconciledTypes DEF LineInv, SealedInv, HistoryInv
      <4>2. Len(log) \in Nat
        BY DEF LineInv, SealedInv, HistoryInv, RuntimeInv, TypeOK, RepoTypes
      <4> HIDE DEF ts
      <4> QED
        BY <4>1, <4>2 DEF TaskStates, CommitOrNone, Commit
    <3>2. A = {} => DerivedHead(ts) = Baseline
      BY DEF DerivedHead
    <3>3. A # {} => DerivedHead(ts) = CHOOSE c \in A : \A d \in A : d <= c
      BY DEF DerivedHead
    <3> HIDE DEF A
    <3> QED
      BY <3>1, <3>2, <3>3, Largest
  <2> HIDE DEF ts, A
  <2>4. authorized' = authorized \/ authorized' = DerivedHead(ts)
    BY <2>1 DEF ReconciledHead
  <2> QED
    BY <1>1, <2>2, <2>3, <2>4
<1> QED
  BY <1>1, <1>2, <1>3, BaseStays

\* Where a finalization is published, and nothing else.
LEMMA NewFinal ==
  ASSUME LineInv, Next, NEW t \in Task, Att(t) > 0, NEW new, Record(t, Att(t), new),
         UNCHANGED <<tasks, log>>, log[new.final].task = t, Parent(new.final) \in Anchors
  PROVE  /\ FinalsAnchored'
         /\ Ev(t)' = new /\ \A u \in Task \ {t} : Ev(u)' = Ev(u)
<1>1. Ev(t)' = new /\ \A u \in Task \ {t} : evidence'[u] = evidence[u]
  BY Written DEF LineInv
<1>2. \A u \in Task \ {t} : Ev(u)' = Ev(u)
  BY <1>1 DEF Ev, Att
<1>3. PassKept /\ LogKept
  BY PassStays, LogStays DEF LineInv
<1>4. Anchors \subseteq Anchors'
  BY <1>3, AnchorsGrow
<1>5. ASSUME NEW u \in Task \ {t}, HasFinal(u)'
      PROVE  log'[Ev(u)'.final].task = u /\ Parent(Ev(u).final)' \in Anchors'
  BY <1>2, <1>3, <1>5, AnchoredStays DEF LineInv
<1>6. log'[Ev(t)'.final].task = t /\ Parent(Ev(t).final)' \in Anchors'
  BY <1>1, <1>4 DEF Parent
<1> QED
  BY <1>1, <1>2, <1>5, <1>6 DEF FinalsAnchored

\* The two ways a finalization is published.
LEMMA WriteFinalAnchors ==
  ASSUME LineInv, Next, WriteFinal, NEW t \in Task, t = cmd.task
  PROVE  \/ UNCHANGED evidence
         \/ /\ FinalsAnchored' /\ Ev(t)'.final = cmd.candidate /\ Ev(t)'.source = Ev(t).source
            /\ \A u \in Task \ {t} : Ev(u)' = Ev(u)
<1> DEFINE new == [Ev(t) EXCEPT !.final = cmd.candidate, !.measured = cmd.patch,
                                !.required = cmd.reviewed, !.worker = note[t].by]
<1>1. CASE UNCHANGED evidence
  BY <1>1
<1>2. CASE /\ IsCandidate(t, cmd.candidate, FilesIn(cmd.patch))
           /\ Record(t, Att(t), new)
  <2>1. new.final = cmd.candidate /\ new.source = Ev(t).source
    BY EvWhole DEF EvidenceStates, LineInv
  <2>2. Record(t, Att(t), new) /\ UNCHANGED <<tasks, log>>
    BY <1>2 DEF WriteFinal, stateVars, repoVars
  <2> HIDE DEF new
  <2>3. Att(t) > 0 /\ packet[t] \in Anchors
    BY CommandFacts DEF LineInv, GuardsHold, WriteFinal, At, Gate
  <2>4. log[new.final].task = t /\ Parent(new.final) \in Anchors
    BY <1>2, <2>1, <2>3 DEF IsCandidate
  <2> QED
    BY <2>1, <2>2, <2>3, <2>4, NewFinal
<1> QED
  BY <1>1, <1>2 DEF WriteFinal

LEMMA CaptureAnchors ==
  ASSUME LineInv, Next, NEW t \in Task, NEW r, CaptureCandidate(t, r)
  PROVE  /\ FinalsAnchored' /\ Ev(t)'.final = head /\ Ev(t)'.source = Ev(t).source
         /\ \A u \in Task \ {t} : Ev(u)' = Ev(u)
<1> DEFINE new == [Ev(t) EXCEPT !.final = head, !.measured = log[head].content,
                                !.required = r, !.worker = note[t].by]
<1>1. new.final = head /\ new.source = Ev(t).source
  BY EvWhole DEF EvidenceStates, LineInv
<1>2. Record(t, Att(t), new) /\ UNCHANGED <<tasks, log>>
  BY DEF CaptureCandidate, stateVars, repoVars
<1> HIDE DEF new
<1>3. Att(t) > 0 /\ packet[t] \in Anchors
  BY DEF CaptureCandidate, Closable, Finalizing, LineInv, SealedInv, HistoryInv, RuntimeInv,
     RecordInv
<1>4. log[new.final].task = t /\ Parent(new.final) \in Anchors
  BY <1>1, <1>3 DEF CaptureCandidate, IsCandidate
<1> QED
  BY <1>1, <1>2, <1>3, <1>4, NewFinal

LEMMA AnchorsStay == ASSUME LineInv, Next PROVE FinalsAnchored'
<1>1. PassKept /\ LogKept
  BY PassStays, LogStays DEF LineInv
<1>2. CASE FinalsKept
  <2>1. ASSUME NEW t \in Task, HasFinal(t)'
        PROVE  log'[Ev(t)'.final].task = t /\ Parent(Ev(t).final)' \in Anchors'
    BY <1>1, <1>2, <2>1, AnchoredStays DEF LineInv, FinalsKept, HasFinal
  <2> QED
    BY <2>1 DEF FinalsAnchored
<1>3. CASE WriteFinal
  <2>1. PICK t \in Task : t = cmd.task
    BY <1>3, CommandFacts DEF WriteFinal, At, LineInv
  <2>2. CASE UNCHANGED evidence
    <3>1. UNCHANGED tasks
      BY <1>3 DEF WriteFinal, stateVars
    <3>2. FinalsKept
      BY <2>2, <3>1 DEF FinalsKept, Ev, Att, Rejected, SourceKept
    <3> QED
      BY <1>2, <3>2
  <2> QED
    BY <1>3, <2>1, <2>2, WriteFinalAnchors
<1> QED
  BY <1>2, <1>3, FinalsStay, CaptureAnchors DEF LineInv

\* What the running command has found stays true.
LEMMA GuardsStay == ASSUME LineInv, Next PROVE GuardsHold'
<1>1. Anchors \subseteq Anchors' /\ LogKept
  BY PassStays, LogStays, AnchorsGrow DEF LineInv
<1>2. CASE Aside
  BY <1>2 DEF Aside, GuardsHold
<1>3. CASE Advances(Gate)
  <2>1. cmd'.step \notin Retiring /\ packet'[cmd'.task] \in Anchors'
    BY <1>1, <1>3 DEF Advances, LineInv, GuardsHold, Gate, Retiring
  <2> QED
    BY <2>1 DEF GuardsHold
<1>4. ASSUME NEW t \in Task, cmd'.task = t, cmd'.step \in Retiring, UNCHANGED tasks,
             HasFinal(t), Parent(Ev(t).final) = tasks[t].base, Ev(t)'.final = Ev(t).final
      PROVE  GuardsHold'
  <2>1. cmd'.step \notin Gate
    BY <1>4 DEF Gate, Retiring
  <2>2. log'[Ev(t).final] = log[Ev(t).final]
    BY <1>1, <1>4, FinalPlace DEF LogKept, LineInv
  <2>3. HasFinal(t)' /\ Parent(Ev(t).final)' = tasks'[t].base
    BY <1>4, <2>2 DEF HasFinal, NoCommit, Parent
  <2> QED
    BY <1>4, <2>1, <2>3 DEF GuardsHold, HasFinal, Ev, Att
<1>5. CASE Advances(Retiring)
  <2>1. PICK t \in Task : t = cmd.task /\ t = cmd'.task
    BY <1>5, CommandFacts DEF Advances, Retiring, LineInv
  <2>2. HasFinal(t) /\ Parent(Ev(t).final) = tasks[t].base /\ Status(t) = "RUNNING"
    BY <1>5, <2>1 DEF Advances, LineInv, GuardsHold, SealedInv, Relies, Retiring, Rejecting,
       Finalizing
  <2>3. ~WriteFinal /\ \A u \in Task, r \in {FALSE, Reviewing} : ~CaptureCandidate(u, r)
    BY <1>5 DEF Advances, Retiring, WriteFinal, CaptureCandidate, Closable, At
  <2>4. Ev(t)'.final = Ev(t).final
    BY <2>2, <2>3, FinalsStay DEF LineInv, FinalsKept
  <2> QED
    BY <1>4, <1>5, <2>1, <2>2, <2>4 DEF Advances
<1>6. ASSUME NEW t \in Task, NEW r, StartGate(t, r), cmd'.task = t, cmd'.step = "gate"
      PROVE  GuardsHold'
  <2>1. packet'[t] \in Anchors
    BY <1>6 DEF StartGate, Closable, recordVars, LineInv
  <2> QED
    BY <1>1, <1>6, <2>1 DEF GuardsHold, Retiring
<1>7. ASSUME NEW t \in Task, ArchiveRejectedCandidate(t), cmd'.task = t,
             cmd'.step = "copyRejectedNote"
      PROVE  GuardsHold'
  <2>1. /\ HasFinal(t) /\ Parent(Ev(t).final) = tasks[t].base /\ Status(t) = "RUNNING"
        /\ UNCHANGED tasks /\ At("idle")
    BY <1>7 DEF ArchiveRejectedCandidate, RejectedCandidate, Finalizing, stateVars
  <2>2. ~WriteFinal /\ \A u \in Task, r \in {FALSE, Reviewing} : ~CaptureCandidate(u, r)
    <3>1. ~WriteFinal
      BY <2>1 DEF WriteFinal, At
    <3>2. \A u \in Task, r \in {FALSE, Reviewing} : ~CaptureCandidate(u, r)
      BY <1>7 DEF CaptureCandidate, Idle
    <3> QED
      BY <3>1, <3>2
  <2>3. Ev(t)'.final = Ev(t).final
    BY <2>1, <2>2, FinalsStay DEF LineInv, FinalsKept
  <2> QED
    BY <1>4, <1>7, <2>1, <2>3 DEF Retiring
<1> QED
  BY <1>2, <1>3, <1>5, <1>6, <1>7, LineMoves DEF LineInv

\* What stands on the line keeps standing there.
LEMMA StandingStays ==
  ASSUME LineInv, Next, NEW L, LineOf(L), HoldsStanding(L)
  PROVE  /\ \A t \in Task : Standing(t)' => Ev(t)'.final \in L
         /\ cmd'.step = "record" => CommitStaged \/ cmd'.candidate \in L
<1>1. ASSUME NEW t \in Task, Standing(t)' PROVE Ev(t)'.final \in L
  <2>1. CASE FinalsKept
    BY <1>1, <2>1 DEF FinalsKept, Standing, HasFinal, Rejected, NoCommit, HoldsStanding
  <2>2. ASSUME NEW u \in Task, NEW c \in L, Ev(u)'.final = c,
               \A v \in Task \ {u} : Ev(v)' = Ev(v)
        PROVE  Ev(t)'.final \in L
    BY <1>1, <2>2 DEF Standing, HasFinal, Rejected, HoldsStanding
  <2>3. CASE WriteFinal
    <3>1. PICK u \in Task : u = cmd.task /\ cmd.step = "record"
      BY <2>3, CommandFacts DEF WriteFinal, At, LineInv
    <3>2. CASE UNCHANGED evidence
      <4>1. UNCHANGED tasks
        BY <2>3 DEF WriteFinal, stateVars
      <4>2. FinalsKept
        BY <3>2, <4>1 DEF FinalsKept, Ev, Att, Rejected, SourceKept
      <4> QED
        BY <2>1, <4>2
    <3>3. cmd.candidate \in L
      BY <3>1 DEF HoldsStanding
    <3> QED
      BY <2>2, <2>3, <3>1, <3>2, <3>3, WriteFinalAnchors
  <2>4. ASSUME NEW u \in Task, NEW r, CaptureCandidate(u, r) PROVE Ev(t)'.final \in L
    <3>1. head \in L
      BY DEF LineOf
    <3> QED
      BY <2>2, <2>4, <3>1, CaptureAnchors
  <2> QED
    BY <2>1, <2>3, <2>4, FinalsStay DEF LineInv
<1>2. ASSUME cmd'.step = "record" PROVE CommitStaged \/ cmd'.candidate \in L
  <2>1. Advances(Gate) \/ (CommitStaged \/ (cmd.step = "record" /\ cmd'.candidate = cmd.candidate))
    BY <1>2, LineMoves DEF LineInv, Aside, Advances, Gate, Retiring
  <2> QED
    BY <1>2, <2>1 DEF Advances, HoldsStanding
<1> QED
  BY <1>1, <1>2

\* The line goes on at a new commit, or loses the candidate that is retired.
Follows(L, M) ==
  \/ UNCHANGED <<log, head>> /\ M = L
  \/ (CommitStaged \/ OutsideCommit) /\ M = L \cup {Len(log) + 1}
  \/ MoveRef /\ head' # head /\ M = L \ {head}

LEMMA LineFollows ==
  ASSUME LineInv, Next, SealedInv', NEW L, LineOf(L), HoldsStanding(L)
  PROVE  \E M : LineOf(M)' /\ HoldsStanding(M)' /\ Follows(L, M)
<1>1. /\ \A t \in Task : Standing(t)' => Ev(t)'.final \in L
      /\ cmd'.step = "record" => CommitStaged \/ cmd'.candidate \in L
  BY StandingStays
<1>2. CASE UNCHANGED <<log, head>>
  <2>1. LineOf(L)'
    BY <1>2 DEF LineOf, Commit, Parent
  <2>2. ~CommitStaged
    BY <1>2 DEF CommitStaged, LineInv, SealedInv, HistoryInv, RuntimeInv, TypeOK, RepoTypes, Commit
  <2>3. HoldsStanding(L)'
    BY <1>1, <2>2 DEF HoldsStanding
  <2> QED
    BY <1>2, <2>1, <2>3 DEF Follows
<1>3. CASE CommitStaged \/ OutsideCommit
  <2>1. PICK n : n = Len(log) + 1
    OBVIOUS
  <2>2. LineOf(L \cup {n})'
    <3>1. PICK e : e.parent = head /\ log' = Append(log, e)
      BY <1>3 DEF CommitStaged, OutsideCommit
    <3> QED
      BY <1>3, <2>1, <3>1, LineExtends DEF CommitStaged, OutsideCommit, LineInv
  <2>3. CommitStaged => cmd'.candidate = n
    BY <2>1, CommandFacts DEF CommitStaged, LineInv, Commands
  <2>4. HoldsStanding(L \cup {n})'
    BY <1>1, <2>3 DEF HoldsStanding
  <2> QED
    BY <1>3, <2>1, <2>2, <2>4 DEF Follows
<1>4. CASE MoveRef /\ head' # head
  <2>1. PICK t \in Task : t = cmd.task
    BY <1>4, CommandFacts DEF MoveRef, At, LineInv
  <2>2. PICK c : c = head
    OBVIOUS
  <2>3. /\ HasFinal(t) /\ c = Ev(t).final /\ head' = Parent(c) /\ Rejected(Ev(t))
        /\ UNCHANGED <<log, tasks, evidence>> /\ cmd.step = "moveRef"
    BY <1>4, <2>1, <2>2 DEF MoveRef, At, LineInv, GuardsHold, Retiring, SealedInv, Relies,
       Rejecting, stateVars, recordVars, repoVars
  <2>4. c # Baseline
    BY <2>3, FinalPlace DEF LineInv, Baseline
  <2>5. LineOf(L \ {c})'
    BY <2>2, <2>3, <2>4, LineRetracts DEF LineInv
  <2>6. \A u \in Task : Standing(u)' => Ev(u).final # c
    BY <2>3 DEF Standing, Ev, Att, Rejected, HasFinal, LineInv, FinalsAnchored
  <2>7. cmd'.step # "record"
    BY <1>4, GotoMoves, CommandFacts DEF MoveRef, Finish, Idle, LineInv
  <2>8. HoldsStanding(L \ {c})'
    BY <1>1, <2>3, <2>6, <2>7 DEF HoldsStanding, Ev, Att
  <2> QED
    BY <1>4, <2>2, <2>5, <2>8 DEF Follows
<1>5. CASE MoveRef /\ head' = head
  BY <1>2, <1>5 DEF MoveRef
<1> QED
  BY <1>2, <1>3, <1>4, <1>5, RepoStays

\* A line exists after every step.
LEMMA LineStays ==
  ASSUME LineInv, Next, SealedInv'
  PROVE  \E L \in SUBSET Commit' : LineOf(L)' /\ HoldsStanding(L)'
<1>1. PICK L \in SUBSET Commit : LineOf(L) /\ HoldsStanding(L)
  BY DEF LineInv
<1> QED
  BY <1>1, LineFollows DEF LineOf

--------------------------------------------------------------------------------
(* The theorem.                                                            *)

LEMMA StepLine == LineInv /\ [Next]_vars => LineInv'
<1> SUFFICES ASSUME LineInv, [Next]_vars PROVE LineInv'
  OBVIOUS
<1>1. SealedInv'
  BY StepSealed DEF LineInv
<1>2. CASE Next
  BY <1>1, <1>2, PassStays, BaseAnchored, AnchorsStay, GuardsStay, LineStays DEF LineInv
<1>3. CASE UNCHANGED vars
  <2>1. UNCHANGED <<tasks, authorized, packet, evidence, log, head, cmd>>
    BY <1>3 DEF vars, stateVars, recordVars, repoVars
  <2>2. Anchors' = Anchors /\ Commit' = Commit
    BY <2>1 DEF Anchors, AcceptedCommits, Accepted, Status, Commit
  <2>3. FinalsAnchored' /\ GuardsHold'
    BY <2>1, <2>2 DEF LineInv, FinalsAnchored, GuardsHold, HasFinal, Ev, Att, Parent
  <2>4. \A L : LineOf(L) /\ HoldsStanding(L) => LineOf(L)' /\ HoldsStanding(L)'
    BY <2>1, <2>2 DEF LineOf, HoldsStanding, Standing, HasFinal, Ev, Att, Rejected, Parent
  <2> QED
    BY <1>1, <2>1, <2>2, <2>3, <2>4 DEF LineInv
<1> QED
  BY <1>2, <1>3

LEMMA InitLine == Init => LineInv
<1> SUFFICES ASSUME Init PROVE LineInv
  OBVIOUS
<1>1. SealedInv
  BY InitSealed
<1>2. authorized \in Anchors /\ GuardsHold
  BY DEF Init, Anchors, GuardsHold, Idle, Gate, Retiring
<1>3. \A t \in Task : ~HasFinal(t)
  BY DEF Init, HasFinal, Ev, Att, InitialTask, NoEvidence
<1>4. LineOf({Baseline}) /\ HoldsStanding({Baseline})
  BY <1>3 DEF Init, LineOf, HoldsStanding, Standing, Baseline, Commit, Idle
<1> QED
  BY <1>1, <1>2, <1>3, <1>4 DEF LineInv, FinalsAnchored, LineOf

\* Whatever crashes, edits and commits from outside do: every accepted commit
\* is its task's own, starts at the baseline or at another accepted commit, and
\* no two start at the same place.
THEOREM LineHolds == Spec => []AcceptedLine
<1>1. Init => LineInv
  BY InitLine
<1>2. LineInv => AcceptedLine
  <2> SUFFICES ASSUME LineInv PROVE AcceptedLine
    OBVIOUS
  <2>1. PICK L \in SUBSET Commit : LineOf(L) /\ HoldsStanding(L)
    BY DEF LineInv
  <2>2. ASSUME NEW t \in Accepted
        PROVE  /\ t \in Task /\ HasFinal(t) /\ tasks[t].accepted = Ev(t).final
               /\ log[Ev(t).final].task = t /\ Parent(Ev(t).final) \in AcceptedCommits \cup {Baseline}
               /\ Ev(t).final \in L \ {Baseline}
    <3>1. t \in Task /\ HasFinal(t) /\ tasks[t].accepted = Ev(t).final /\ ~Rejected(Ev(t))
      BY DEF Accepted, LineInv, SealedInv, TaskInv, Rejected, ReviewGrants
    <3>2. Ev(t).final \in L \ {Baseline}
      BY <2>1, <3>1, FinalPlace DEF LineInv, HoldsStanding, Standing, Baseline
    <3> QED
      BY <3>1, <3>2 DEF LineInv, FinalsAnchored, Anchors
  <2>3. ASSUME NEW t \in Accepted, NEW u \in Accepted,
               Parent(tasks[t].accepted) = Parent(tasks[u].accepted)
        PROVE  t = u
    BY <2>1, <2>2, <2>3, LineForksNowhere DEF LineInv
  <2> QED
    BY <2>2, <2>3 DEF AcceptedLine
<1> QED
  BY <1>1, <1>2, StepLine, PTL DEF Spec
================================================================================
