--------------------------- MODULE TaskRuntimeHistory ---------------------------
(***************************************************************************)
(* The types of TaskRuntime hold in every reachable state, and no attempt  *)
(* is left behind without a record of how it ended, for any plan, any      *)
(* patches and any bounds.  For each of the two: the inductive invariant   *)
(* and lemmas by what a step writes and what it leaves alone, then one     *)
(* lemma per group of actions, in the order of the modules, then the       *)
(* theorem.                                                                *)
(***************************************************************************)
EXTENDS TaskRuntime, WellFoundedInduction, TLAPS

Sealing == {"accept", "sealCompletion", "sealHandoff", "sealManifest", "promote",
            "recoverCompletion", "recoverHandoff", "recoverManifest"}

\* Steps at which a command owes nothing to the guards it has passed.
Gate == {"gate", "stage", "commit", "record"}
Plain == Steps \ (Gate \cup Sealing \cup {"spawn", "openRecord", "started", "settle",
                    "copyRejectedNote", "releaseRejectedNote", "moveRef"})

\* What the running command can rely on from the guards it has passed.
CommandInv ==
  /\ cmd.step # "recover" => cmd.task \in Task
  /\ cmd.step \in {"spawn", "openRecord", "started"} => Att(cmd.task) < MaxAttempts
  /\ cmd.step = "settle" => cmd.outcome # "NONE"
  /\ cmd.step = "record" => cmd.candidate \in 1..Len(log)
  /\ cmd.step \in Gate \cup Sealing => Att(cmd.task) > 0
  /\ cmd.step \in Sealing => HasFinal(cmd.task)
  /\ cmd.step \in {"copyRejectedNote", "releaseRejectedNote", "moveRef"} =>
       tasks[cmd.task].base # NoCommit
  /\ cmd.step \in {"recoverHandoff", "recoverManifest"} => completion[cmd.task].verdict = "PASS"
  /\ \A u \in cmd.promoted : completion[u].verdict = "PASS"
  /\ cmd.promoted # {} => cmd.step \in {"recover", "recoverCompletion", "recoverHandoff",
                                         "recoverManifest"}

\* Whatever was published or accepted names a commit over the baseline.
RecordInv ==
  /\ \A t \in Task : \A a \in Attempt : evidence[t][a].final # Baseline
  /\ \A t \in Task : completion[t].verdict = "PASS" => completion[t].commit # NoCommit
  /\ \A t \in Task : Status(t) = "PASS" => tasks[t].accepted # NoCommit
  /\ \A t \in Task : Status(t) = "RUNNING" => Att(t) > 0

RuntimeInv == TypeOK /\ CommandInv /\ RecordInv

--------------------------------------------------------------------------------
(* Least and greatest members.                                             *)

\* A nonempty set of naturals has a least member.
LEMMA Smallest ==
  ASSUME NEW S \in SUBSET Nat, S # {}
  PROVE  \E c \in S : \A d \in S : c <= d
<1>1. PICK c \in S : \A d \in S : ~(<<d, c>> \in OpToRel(<, Nat))
  BY NatLessThanWellFounded, WFMin
<1>2. ASSUME NEW d \in S PROVE ~(d < c)
  BY <1>1 DEF OpToRel
<1> QED
  BY <1>2

\* A nonempty set of naturals below a bound has a greatest member.
LEMMA Largest ==
  ASSUME NEW n \in Nat, NEW S \in SUBSET (0..n), S # {}
  PROVE  \E c \in S : \A d \in S : d <= c
<1> DEFINE D == {k \in Nat : \E c \in S : k = n - c}
<1>1. PICK k \in D : \A j \in D : k <= j
  <2>1. PICK c \in S : TRUE
    OBVIOUS
  <2>2. n - c \in D
    BY <2>1
  <2> QED
    BY <2>2, Smallest
<1>2. PICK c \in S : k = n - c
  OBVIOUS
<1>3. ASSUME NEW d \in S PROVE d <= c
  BY <1>1, <1>2
<1> QED
  BY <1>3

\* RecoverSeal has a first task to take.
LEMMA FirstToSeal ==
  ASSUME NextToSeal # {}
  PROVE  \E u \in NextToSeal : \A v \in NextToSeal : u <= v
<1>1. NextToSeal \in SUBSET Nat
  BY DEF NextToSeal, Task
<1> QED
  BY <1>1, Smallest

--------------------------------------------------------------------------------
(* What is not written keeps its types.                                    *)

\* state.json.
LEMMA StateFrame ==
  ASSUME StateTypes, UNCHANGED stateVars, UNCHANGED <<spawned, log>>
  PROVE  StateTypes'
  BY DEF StateTypes, stateVars, TaskStates, CommitOrNone, Commit

\* The records, while no process and no commit is added.
LEMMA RecordFrame ==
  ASSUME RecordTypes, UNCHANGED recordVars, UNCHANGED <<spawned, log>>
  PROVE  RecordTypes'
  BY DEF RecordTypes, recordVars, LaunchRecords, CompletionRecords, EvidenceStates,
         CommitOrNone, Commit

\* Workers and their notes.
LEMMA WorkerFrame == ASSUME WorkerTypes, UNCHANGED workerVars PROVE WorkerTypes'
  BY DEF WorkerTypes, workerVars, Notes, Pid

\* The repository.
LEMMA RepoFrame == ASSUME RepoTypes, UNCHANGED repoVars PROVE RepoTypes'
  BY DEF RepoTypes, repoVars, Commit, Content, LogEntries

\* The bounds.
LEMMA EnvFrame == ASSUME EnvTypes, UNCHANGED envVars PROVE EnvTypes'
  BY DEF EnvTypes, envVars

\* The log and the list of processes only grow.
LEMMA LogGrows ==
  ASSUME StateTypes, RecordTypes, cmd \in Commands, RepoTypes,
         UNCHANGED stateVars, UNCHANGED recordVars, UNCHANGED spawned,
         NEW e \in LogEntries, log' = Append(log, e)
  PROVE  StateTypes' /\ RecordTypes' /\ log' \in Seq(LogEntries)'
         /\ Len(log') = Len(log) + 1 /\ CommitOrNone \subseteq CommitOrNone'
         /\ Commit \subseteq Commit'
<1>1. Len(log) \in Nat /\ Len(log') = Len(log) + 1 /\ log' \in Seq(LogEntries)
  BY DEF RepoTypes
<1>2. Commit \subseteq Commit' /\ CommitOrNone \subseteq CommitOrNone'
  BY <1>1 DEF Commit, CommitOrNone
<1>3. TaskStates \subseteq TaskStates' /\ CompletionRecords \subseteq CompletionRecords'
      /\ EvidenceStates \subseteq EvidenceStates' /\ LaunchRecords = LaunchRecords'
  BY <1>2 DEF TaskStates, CompletionRecords, EvidenceStates, LaunchRecords
<1>4. StateTypes'
  BY <1>2, <1>3 DEF StateTypes, stateVars
<1>5. RecordTypes'
  BY <1>2, <1>3 DEF RecordTypes, recordVars
<1> QED
  BY <1>1, <1>2, <1>4, <1>5 DEF LogEntries, Content

\* Every process stays one of the processes when another is born.
LEMMA ProcessesGrow ==
  ASSUME StateTypes, RecordTypes, WorkerTypes,
         UNCHANGED stateVars, UNCHANGED recordVars, UNCHANGED <<log, note>>,
         NEW t \in Task, spawned' = Append(spawned, t),
         live' \subseteq live \cup {Len(spawned) + 1}
  PROVE  StateTypes' /\ RecordTypes' /\ WorkerTypes'
<1>1. /\ Len(spawned) \in Nat /\ Len(spawned') = Len(spawned) + 1
      /\ spawned' \in Seq(Task)
  BY DEF WorkerTypes
<1>2. 0..Len(spawned) \subseteq 0..Len(spawned')
  BY <1>1
<1>3. Commit' = Commit /\ CommitOrNone' = CommitOrNone
  BY DEF Commit, CommitOrNone
<1>4. /\ TaskStates \subseteq TaskStates' /\ CompletionRecords = CompletionRecords'
      /\ EvidenceStates \subseteq EvidenceStates' /\ LaunchRecords \subseteq LaunchRecords'
      /\ Notes \subseteq Notes'
  BY <1>2, <1>3 DEF TaskStates, CompletionRecords, EvidenceStates, LaunchRecords, Notes
<1>5. StateTypes'
  BY <1>3, <1>4 DEF StateTypes, stateVars
<1>6. RecordTypes'
  BY <1>3, <1>4 DEF RecordTypes, recordVars
<1>7. live' \subseteq Pid'
  BY <1>1 DEF WorkerTypes, Pid
<1> QED
  BY <1>1, <1>4, <1>5, <1>6, <1>7 DEF WorkerTypes

--------------------------------------------------------------------------------
(* Writing keeps the types of what is written.                             *)

\* The records of the current attempt, or none before the first one.
LEMMA EvTypes ==
  ASSUME TypeOK, NEW t \in Task
  PROVE  Ev(t) \in EvidenceStates /\ Att(t) \in 0..MaxAttempts
<1>1. tasks[t] \in TaskStates
  BY DEF TypeOK, StateTypes
<1>2. Att(t) \in 0..MaxAttempts
  BY <1>1 DEF TaskStates, Att
<1>3. NoEvidence \in EvidenceStates
  <2>1. 0 \in Content /\ 0 \in 0..Len(spawned)
    BY WorkAssumption DEF Content, TypeOK, WorkerTypes
  <2> QED
    BY <2>1 DEF NoEvidence, EvidenceStates, CommitOrNone
<1>4. Att(t) # 0 => Att(t) \in Attempt
  BY <1>2, BoundAssumption DEF Attempt
<1> QED
  BY <1>2, <1>3, <1>4 DEF Ev, TypeOK, RecordTypes

\* Writing one task keeps the types of state.json.
LEMMA SetTaskTypes ==
  ASSUME TypeOK, NEW t \in Task, NEW new \in TaskStates, SetTask(t, new),
         authorized' \in Commit, UNCHANGED <<spawned, log>>
  PROVE  StateTypes'
  BY DEF TypeOK, StateTypes, SetTask, TaskStates, CommitOrNone, Commit

\* Writing the records of one attempt keeps the types of all records.
LEMMA RecordWriteTypes ==
  ASSUME TypeOK, NEW t \in Task, NEW a, NEW new \in EvidenceStates, Record(t, a, new),
         UNCHANGED <<packet, launch, completion, handoff, manifest, spawned, log>>
  PROVE  RecordTypes'
<1>1. evidence' \in [Task -> [Attempt -> EvidenceStates]]
  BY DEF TypeOK, RecordTypes, Record
<1> QED
  BY <1>1 DEF TypeOK, RecordTypes, LaunchRecords, CompletionRecords, EvidenceStates,
         CommitOrNone, Commit

\* A command in a known state moves to a known step.
LEMMA IdleTypes == Idle \in Commands /\ Idle.task \in Task
  BY PlanAssumption, WorkAssumption
     DEF Commands, Idle, CommitOrNone, Commit, Steps, Content, Task

\* The next step of a command is a command.
LEMMA GotoTypes ==
  ASSUME cmd \in Commands, NEW s \in Steps, Goto(s)
  PROVE  cmd' \in Commands
  BY DEF Commands, Goto

\* A command that does not move keeps its type.
LEMMA CommandFrame == cmd \in Commands /\ UNCHANGED log /\ UNCHANGED cmd => cmd' \in Commands'
  BY DEF Commands, CommitOrNone, Commit

\* A command that ends, moves to or begins at a plain step owes nothing there.
LEMMA IdleKeeps == cmd' = Idle => cmd' \in Commands /\ CommandInv'
  BY IdleTypes DEF CommandInv, Idle, Gate, Sealing

\* Moving to a step that rests on no guard, or only on there being an attempt.
LEMMA GotoKeeps ==
  ASSUME RuntimeInv, UNCHANGED completion,
         cmd.step \notin {"recover", "recoverCompletion", "recoverHandoff", "recoverManifest"},
         NEW s \in Plain \cup {"stage", "commit"}, Goto(s),
         s \in Plain \/ (UNCHANGED tasks /\ Att(cmd.task) > 0)
  PROVE  cmd' \in Commands /\ CommandInv'
<1>1. s \in Steps
  BY DEF Plain, Steps
<1>2. cmd' \in Commands /\ cmd'.step = s /\ cmd'.task = cmd.task /\ cmd'.promoted = cmd.promoted
  BY <1>1, GotoTypes DEF RuntimeInv, TypeOK, Goto, Commands
<1> QED
  BY <1>2 DEF RuntimeInv, CommandInv, Plain, Gate, Sealing, Att

\* Beginning at a step that rests on no guard, or only on there being an attempt.
LEMMA BeginKeeps ==
  ASSUME NEW s \in Plain \cup {"gate"}, NEW t \in Task,
         NEW p \in Content, NEW r \in BOOLEAN,
         s \in Plain \/ (UNCHANGED tasks /\ Att(t) > 0),
         \/ Begin(s, t)
         \/ cmd' = [Idle EXCEPT !.step = s, !.task = t, !.patch = p]
         \/ cmd' = [Idle EXCEPT !.step = s, !.task = t, !.reviewed = r]
         \/ cmd' = [Idle EXCEPT !.step = s, !.task = t, !.patch = p, !.reviewed = r]
  PROVE  cmd' \in Commands /\ CommandInv'
<1>1. s \in Steps /\ t \in 1..NumTasks + 1
  BY PlanAssumption DEF Plain, Steps, Task
<1>2. /\ DOMAIN Idle = {"step", "task", "patch", "candidate", "outcome", "reviewed", "promoted"}
      /\ Idle.promoted = {}
  BY DEF Idle
<1>3. cmd' \in Commands /\ cmd'.step = s /\ cmd'.task = t /\ cmd'.promoted = {}
  BY <1>1, <1>2, IdleTypes DEF Commands, Begin
<1> QED
  BY <1>3 DEF CommandInv, Plain, Gate, Sealing, Att

--------------------------------------------------------------------------------
(* Actions by what they write.                                             *)

\* Actions that move the command and touch at most the tree and the index.
LEMMA QuietKeeps ==
  ASSUME RuntimeInv, UNCHANGED <<stateVars, recordVars, workerVars, log, head, envVars>>,
         tree' \in Content, staged' \in Content, cmd' \in Commands, CommandInv'
  PROVE  RuntimeInv'
<1>1. StateTypes' /\ RecordTypes' /\ WorkerTypes' /\ EnvTypes'
  BY StateFrame, RecordFrame, WorkerFrame, EnvFrame DEF RuntimeInv, TypeOK, workerVars
<1>2. RepoTypes'
  BY DEF RuntimeInv, TypeOK, RepoTypes, Commit, Content, LogEntries
<1>3. cmd' \in Commands'
  BY DEF Commands, CommitOrNone, Commit
<1>4. RecordInv'
  BY DEF RuntimeInv, RecordInv, stateVars, recordVars, Status, Att
<1> QED
  BY <1>1, <1>2, <1>3, <1>4 DEF RuntimeInv, TypeOK

\* Actions that replace one task in state.json and go on or end.
LEMMA StateWriteKeeps ==
  ASSUME RuntimeInv, UNCHANGED <<recordVars, workerVars, repoVars, envVars>>,
         NEW t \in Task, NEW new \in TaskStates, SetTask(t, new),
         authorized' \in Commit, new.status = "PASS" => new.accepted # NoCommit,
         new.status = "RUNNING" => new.attempts > 0,
         cmd' \in Commands, CommandInv'
  PROVE  RuntimeInv'
<1>1. RecordTypes' /\ WorkerTypes' /\ RepoTypes' /\ EnvTypes'
  BY RecordFrame, WorkerFrame, RepoFrame, EnvFrame DEF RuntimeInv, TypeOK, workerVars,
     repoVars
<1>2. StateTypes'
  BY SetTaskTypes DEF RuntimeInv, workerVars, repoVars
<1>3. cmd' \in Commands'
  BY DEF Commands, CommitOrNone, Commit, repoVars
<1>4. RecordInv'
  BY DEF RuntimeInv, TypeOK, StateTypes, RecordInv, recordVars, Status, Att, SetTask
<1> QED
  BY <1>1, <1>2, <1>3, <1>4 DEF RuntimeInv, TypeOK

\* Actions that publish a record of an attempt.
LEMMA EvidenceWriteKeeps ==
  ASSUME RuntimeInv,
         UNCHANGED <<stateVars, packet, launch, completion, handoff, manifest,
                     workerVars, repoVars, envVars>>,
         NEW t \in Task, NEW a, NEW new \in EvidenceStates, Record(t, a, new),
         new.final # Baseline, cmd' \in Commands, CommandInv'
  PROVE  RuntimeInv'
<1>1. StateTypes' /\ WorkerTypes' /\ RepoTypes' /\ EnvTypes'
  BY StateFrame, WorkerFrame, RepoFrame, EnvFrame DEF RuntimeInv, TypeOK, workerVars,
     repoVars
<1>2. RecordTypes'
  BY RecordWriteTypes DEF RuntimeInv, workerVars, repoVars
<1>3. cmd' \in Commands'
  BY DEF Commands, CommitOrNone, Commit, repoVars
<1>4. RecordInv'
  BY DEF RuntimeInv, TypeOK, RecordTypes, RecordInv, stateVars, Status, Att, Record
<1> QED
  BY <1>1, <1>2, <1>3, <1>4 DEF RuntimeInv, TypeOK

\* Actions that write the current completion slot.
LEMMA CompletionWriteKeeps ==
  ASSUME RuntimeInv,
         UNCHANGED <<stateVars, packet, launch, handoff, manifest, evidence,
                     workerVars, repoVars, envVars>>,
         NEW t \in Task, NEW new \in CompletionRecords,
         completion' = [completion EXCEPT ![t] = new],
         new.verdict = "PASS" => new.commit # NoCommit,
         cmd' \in Commands, CommandInv'
  PROVE  RuntimeInv'
<1>1. StateTypes' /\ WorkerTypes' /\ RepoTypes' /\ EnvTypes'
  BY StateFrame, WorkerFrame, RepoFrame, EnvFrame DEF RuntimeInv, TypeOK, workerVars,
     repoVars
<1>2. RecordTypes'
  <2>1. completion' \in [Task -> CompletionRecords]
    BY DEF RuntimeInv, TypeOK, RecordTypes
  <2> QED
    BY <2>1 DEF RuntimeInv, TypeOK, RecordTypes, LaunchRecords, CompletionRecords,
           EvidenceStates, CommitOrNone, Commit, workerVars, repoVars
<1>3. cmd' \in Commands'
  BY DEF Commands, CommitOrNone, Commit, repoVars
<1>4. RecordInv'
  BY DEF RuntimeInv, TypeOK, RecordTypes, RecordInv, stateVars, Status, Att
<1> QED
  BY <1>1, <1>2, <1>3, <1>4 DEF RuntimeInv, TypeOK

\* Actions that write or remove a note in the inbox.
LEMMA NoteWriteKeeps ==
  ASSUME RuntimeInv,
         UNCHANGED <<stateVars, recordVars, spawned, live, repoVars, envVars>>,
         note' \in [Task -> Notes], cmd' \in Commands, CommandInv'
  PROVE  RuntimeInv'
<1>1. StateTypes' /\ RecordTypes' /\ RepoTypes' /\ EnvTypes'
  BY StateFrame, RecordFrame, RepoFrame, EnvFrame DEF RuntimeInv, TypeOK, repoVars
<1>2. WorkerTypes'
  BY DEF RuntimeInv, TypeOK, WorkerTypes, Notes, Pid
<1>3. cmd' \in Commands'
  BY DEF Commands, CommitOrNone, Commit, repoVars
<1>4. RecordInv'
  BY DEF RuntimeInv, RecordInv, stateVars, recordVars, Status, Att
<1> QED
  BY <1>1, <1>2, <1>3, <1>4 DEF RuntimeInv, TypeOK

--------------------------------------------------------------------------------
(* Actions that move the command, and the tree and the index at most.      *)

\* Starting a command that has nothing to write yet.
LEMMA QuietStart ==
  ASSUME RuntimeInv, NEW t \in Task, NEW reviewed \in {FALSE, Reviewing},
         ResumeAcceptance(t, reviewed) \/ CloseDeclaredFailure(t) \/ StartGate(t, reviewed)
           \/ ResumeArchival(t) \/ Recover
  PROVE  RuntimeInv'
<1> reviewed \in BOOLEAN
  BY WorkAssumption
<1>0. 0 \in Content /\ tree \in Content /\ staged \in Content
  BY WorkAssumption DEF RuntimeInv, TypeOK, RepoTypes, Content
<1>1. CASE ResumeAcceptance(t, reviewed)
  <2>1. t \in 1..NumTasks + 1 /\ "accept" \in Steps
    BY PlanAssumption DEF Task, Steps
  <2>2. cmd' \in Commands /\ cmd'.step = "accept" /\ cmd'.task = t /\ cmd'.promoted = {}
    BY <1>1, <2>1, IdleTypes DEF ResumeAcceptance, Commands, Idle
  <2>3. Att(t) > 0 /\ HasFinal(t)
    BY <1>1, EvTypes DEF ResumeAcceptance, RuntimeInv, HasFinal, Ev, NoEvidence
  <2>4. CommandInv'
    BY <1>1, <2>2, <2>3 DEF ResumeAcceptance, CommandInv, Gate, Sealing, Att, HasFinal, Ev,
       stateVars, recordVars
  <2> QED
    BY <1>0, <1>1, <2>2, <2>4, QuietKeeps DEF ResumeAcceptance, repoVars
<1>2. CASE CloseDeclaredFailure(t)
  <2>1. cmd' \in Commands /\ CommandInv'
    BY <1>0, <1>2, BeginKeeps DEF CloseDeclaredFailure, Plain, Steps, Gate, Sealing
  <2> QED
    BY <1>0, <1>2, <2>1, QuietKeeps DEF CloseDeclaredFailure, repoVars
<1>3. CASE StartGate(t, reviewed)
  <2>1. cmd' \in Commands /\ CommandInv'
    BY <1>0, <1>3, BeginKeeps DEF StartGate, Closable, Finalizing, RuntimeInv, RecordInv,
       stateVars
  <2> QED
    BY <1>0, <1>3, <2>1, QuietKeeps DEF StartGate, repoVars
<1>4. CASE ResumeArchival(t)
  <2>1. cmd' \in Commands /\ CommandInv'
    BY <1>0, <1>4, BeginKeeps DEF ResumeArchival, Plain, Steps, Gate, Sealing
  <2> QED
    BY <1>0, <1>4, <2>1, QuietKeeps DEF ResumeArchival, repoVars
<1>5. CASE Recover
  <2>0. 1 \in Task /\ FALSE \in BOOLEAN /\ "recover" \in Plain
    BY PlanAssumption DEF Task, Plain, Steps, Gate, Sealing
  <2>1. cmd' \in Commands /\ CommandInv'
    BY <1>0, <1>5, <2>0, BeginKeeps DEF Recover
  <2> QED
    BY <1>0, <1>5, <2>1, QuietKeeps DEF Recover, repoVars
<1> QED
  BY <1>1, <1>2, <1>3, <1>4, <1>5

\* The steps of the gate, the staging and the decision to seal.
LEMMA QuietGate ==
  ASSUME RuntimeInv,
         GateFails \/ GateDrifts \/ GatePasses \/ Stage \/ CachedCheckFails \/ CommitFails
           \/ AcceptancePends \/ BeginSeal
  PROVE  RuntimeInv'
<1>0. 0 \in Content /\ tree \in Content /\ staged \in Content /\ cmd.patch \in Content
  BY WorkAssumption DEF RuntimeInv, TypeOK, RepoTypes, Content, Commands
<1>1. CASE GateFails \/ GateDrifts \/ GatePasses
  <2>1. cmd' \in Commands /\ CommandInv'
    BY <1>1, GotoKeeps DEF GateFails, GateDrifts, GatePasses, At, Plain, Steps, Gate,
       Sealing,
       recordVars, stateVars, RuntimeInv, CommandInv
  <2> QED
    BY <1>0, <1>1, <2>1, QuietKeeps DEF GateFails, GateDrifts, GatePasses, repoVars
<1>2. CASE Stage
  <2>1. cmd' \in Commands /\ CommandInv'
    BY <1>2, GotoKeeps DEF Stage, At, Plain, Steps, Gate, Sealing, recordVars, stateVars,
       RuntimeInv, CommandInv
  <2> QED
    BY <1>0, <1>2, <2>1, QuietKeeps DEF Stage
<1>3. CASE CachedCheckFails
  <2>1. cmd' \in Commands /\ CommandInv'
    BY <1>3, GotoKeeps DEF CachedCheckFails, At, Plain, Steps, Gate, Sealing, recordVars
  <2> QED
    BY <1>0, <1>3, <2>1, QuietKeeps DEF CachedCheckFails
<1>4. CASE CommitFails
  BY <1>0, <1>4, IdleKeeps, QuietKeeps DEF CommitFails, Finish
<1>5. CASE AcceptancePends
  BY <1>0, <1>5, IdleKeeps, QuietKeeps DEF AcceptancePends, Finish, repoVars
<1>6. CASE BeginSeal
  <2>1. cmd' \in Commands /\ cmd'.step = "sealCompletion" /\ cmd'.task = cmd.task
        /\ cmd'.promoted = cmd.promoted /\ cmd.step = "accept"
    BY <1>6 DEF BeginSeal, RuntimeInv, TypeOK, Commands, Steps, Goto, At
  <2>2. CommandInv'
    BY <1>6, <2>1 DEF BeginSeal, RuntimeInv, CommandInv, Gate, Sealing, Att, HasFinal, Ev,
       stateVars, recordVars
  <2> QED
    BY <1>0, <1>6, <2>1, <2>2, QuietKeeps DEF BeginSeal, repoVars
<1> QED
  BY <1>1, <1>2, <1>3, <1>4, <1>5, <1>6

\* Taking a patch out of the tree, file by file.
LEMMA QuietReset ==
  ASSUME RuntimeInv, HalfReset \/ Reset \/ HalfRetire \/ Retire
  PROVE  RuntimeInv'
<1>0. 0 \in Content /\ tree \in Content /\ staged \in Content
      /\ cmd.patch \in Content /\ -cmd.patch \in Content
  BY WorkAssumption DEF RuntimeInv, TypeOK, RepoTypes, Content, Commands
<1>1. CASE HalfReset
  <2>1. cmd' \in Commands /\ CommandInv'
    BY <1>1, GotoKeeps DEF HalfReset, At, Plain, Steps, Gate, Sealing, recordVars
  <2> QED
    BY <1>0, <1>1, <2>1, QuietKeeps DEF HalfReset
<1>2. CASE Reset
  <2>1. cmd' \in Commands /\ CommandInv'
    BY <1>2, GotoKeeps, IdleKeeps DEF Reset, At, Plain, Steps, Gate, Sealing, recordVars,
       Finish
  <2>2. tree' \in Content
    BY <1>0, <1>2 DEF Reset
  <2> QED
    BY <1>0, <1>2, <2>1, <2>2, QuietKeeps DEF Reset
<1>3. CASE HalfRetire
  <2>1. cmd' \in Commands /\ CommandInv'
    BY <1>3, GotoKeeps DEF HalfRetire, At, Plain, Steps, Gate, Sealing, recordVars
  <2> QED
    BY <1>0, <1>3, <2>1, QuietKeeps DEF HalfRetire
<1>4. CASE Retire
  <2>1. cmd' \in Commands /\ CommandInv'
    BY <1>4, GotoKeeps, IdleKeeps DEF Retire, At, Plain, Steps, Gate, Sealing, recordVars,
       Finish
  <2>2. tree' \in Content /\ staged' \in Content
    BY <1>0, <1>4 DEF Retire
  <2> QED
    BY <1>0, <1>4, <2>1, <2>2, QuietKeeps DEF Retire
<1> QED
  BY <1>1, <1>2, <1>3, <1>4

\* RecoverSeal picks the first task that is left to be sealed.
LEMMA QuietRecover == ASSUME RuntimeInv, RecoverSeal PROVE RuntimeInv'
<1> DEFINE t == CHOOSE u \in NextToSeal : \A v \in NextToSeal : u <= v
<1>0. tree \in Content /\ staged \in Content
  BY DEF RuntimeInv, TypeOK, RepoTypes
<1>1. PICK u \in NextToSeal : \A v \in NextToSeal : u <= v
  BY FirstToSeal DEF RecoverSeal, RuntimeInv, TypeOK
<1>2. t \in Task /\ Sealable(t)
  BY <1>1 DEF NextToSeal
<1>3. t \in 1..NumTasks + 1 /\ "recoverCompletion" \in Steps
  BY <1>2, PlanAssumption DEF Task, Steps
<1>4. cmd' \in Commands /\ cmd'.step = "recoverCompletion" /\ cmd'.task = t
      /\ cmd'.promoted = cmd.promoted
  <2> HIDE DEF t
  <2> QED BY <1>3 DEF RecoverSeal, t, RuntimeInv, TypeOK, Commands
<1>5. Att(t) > 0 /\ HasFinal(t)
  BY <1>2, EvTypes DEF Sealable, RuntimeInv, HasFinal, Ev, NoEvidence
<1>6. CommandInv'
  <2> HIDE DEF t
  <2> QED BY <1>2, <1>4, <1>5 DEF RecoverSeal, RuntimeInv, CommandInv, Gate, Sealing, Att,
     HasFinal, Ev,
             stateVars, recordVars
<1> QED
  BY <1>0, <1>4, <1>6, QuietKeeps DEF RecoverSeal, repoVars

\* The death of a command, and an edit from outside.
LEMMA OutsideActions ==
  ASSUME RuntimeInv, Crash \/ OutsideEdit
  PROVE  RuntimeInv'
<1>1. CASE Crash
  <2>1. StateTypes' /\ RecordTypes' /\ WorkerTypes' /\ RepoTypes' /\ RecordInv'
    BY <1>1, StateFrame, RecordFrame, WorkerFrame, RepoFrame
       DEF Crash, RuntimeInv, TypeOK, RecordInv, workerVars, repoVars, stateVars,
           recordVars, Status, Att
  <2>2. EnvTypes'
    BY <1>1, BoundAssumption DEF Crash, RuntimeInv, TypeOK, EnvTypes
  <2>3. cmd' \in Commands' /\ CommandInv'
    BY <1>1, IdleKeeps DEF Crash, Finish, Commands, CommitOrNone, Commit, repoVars
  <2> QED
    BY <2>1, <2>2, <2>3 DEF RuntimeInv, TypeOK
<1>2. CASE OutsideEdit
  <2>1. StateTypes' /\ RecordTypes' /\ WorkerTypes' /\ RecordInv'
    BY <1>2, StateFrame, RecordFrame, WorkerFrame
       DEF OutsideEdit, RuntimeInv, TypeOK, RecordInv, workerVars, stateVars, recordVars,
           Status, Att
  <2>2. EnvTypes'
    BY <1>2, BoundAssumption DEF OutsideEdit, RuntimeInv, TypeOK, EnvTypes
  <2>3. cmd' \in Commands' /\ CommandInv'
    BY <1>2 DEF OutsideEdit, RuntimeInv, TypeOK, Commands, CommitOrNone, Commit,
       CommandInv, Att, HasFinal, Ev, stateVars, recordVars
  <2>4. RepoTypes'
    <3>1. tree' \in Content
      BY <1>2, WorkAssumption DEF OutsideEdit, Patch, Content
    <3> QED
      BY <1>2, <3>1 DEF OutsideEdit, RuntimeInv, TypeOK, RepoTypes, Commit, Content,
         LogEntries
  <2> QED
    BY <2>1, <2>2, <2>3, <2>4 DEF RuntimeInv, TypeOK
<1> QED
  BY <1>1, <1>2

--------------------------------------------------------------------------------
(* Launching.tla                                                           *)

\* Preparing a packet, and the guards of a launch.
LEMMA LaunchActions ==
  ASSUME RuntimeInv, NEW t \in Task, PrepareNextTask(t) \/ Launch(t)
  PROVE  RuntimeInv'
<1>1. CASE PrepareNextTask(t)
  <2>1. packet' \in [Task -> CommitOrNone]
    BY <1>1 DEF PrepareNextTask, RuntimeInv, TypeOK, RecordTypes, RepoTypes, CommitOrNone
  <2>2. RecordTypes'
    BY <1>1, <2>1 DEF PrepareNextTask, RuntimeInv, TypeOK, RecordTypes, LaunchRecords,
       CompletionRecords, EvidenceStates, CommitOrNone, Commit, workerVars, repoVars
  <2>3. StateTypes' /\ WorkerTypes' /\ RepoTypes' /\ EnvTypes'
    BY <1>1, StateFrame, WorkerFrame, RepoFrame, EnvFrame
       DEF PrepareNextTask, RuntimeInv, TypeOK, workerVars, repoVars
  <2>4. cmd' \in Commands' /\ CommandInv' /\ RecordInv'
    BY <1>1 DEF PrepareNextTask, RuntimeInv, TypeOK, Commands, CommitOrNone, Commit,
       CommandInv, RecordInv, Att, HasFinal, Ev, Status, stateVars, repoVars
  <2> QED
    BY <2>2, <2>3, <2>4 DEF RuntimeInv, TypeOK
<1>2. CASE Launch(t)
  <2>1. note' \in [Task -> Notes]
    BY <1>2 DEF Launch, RuntimeInv, TypeOK, WorkerTypes, Notes, NoNote
  <2>2. t \in 1..NumTasks + 1 /\ "spawn" \in Steps
    BY PlanAssumption DEF Task, Steps
  <2>3. cmd' \in Commands /\ cmd'.step = "spawn" /\ cmd'.task = t /\ cmd'.promoted = {}
    BY <1>2, <2>2, IdleTypes DEF Launch, Begin, Commands, Idle
  <2>4. CommandInv'
    BY <1>2, <2>3 DEF Launch, CommandInv, Gate, Sealing, Att, stateVars
  <2> QED
    BY <1>2, <2>1, <2>3, <2>4, NoteWriteKeeps DEF Launch
<1> QED
  BY <1>1, <1>2

\* From the spawn to the attempt that state.json counts.
LEMMA SpawnActions ==
  ASSUME RuntimeInv, LaunchRefused \/ SpawnFails \/ Spawn \/ OpenRecord \/ OnStarted
  PROVE  RuntimeInv'
<1>1. cmd.task \in Task /\ tasks[cmd.task] \in TaskStates /\ Len(spawned) \in Nat
  BY DEF RuntimeInv, TypeOK, StateTypes, WorkerTypes, CommandInv,
     LaunchRefused, SpawnFails, Spawn, OpenRecord, OnStarted, At
<1>6. CASE LaunchRefused
  BY <1>6, IdleKeeps, QuietKeeps
     DEF LaunchRefused, Finish, RuntimeInv, TypeOK, RepoTypes, repoVars
<1>2. CASE SpawnFails
  <2>1. [tasks[cmd.task] EXCEPT !.status = "INFRA_ERROR", !.phase = "NONE"] \in TaskStates
    BY <1>1 DEF TaskStates
  <2>2. authorized' \in Commit
    BY <1>2 DEF SpawnFails, RuntimeInv, TypeOK, StateTypes
  <2> QED
    BY <1>1, <1>2, <2>1, <2>2, IdleKeeps, StateWriteKeeps DEF SpawnFails, Finish, TaskStates
<1>3. CASE Spawn
  <2>1. cmd' \in Commands /\ cmd'.step = "openRecord" /\ cmd'.task = cmd.task
        /\ cmd'.promoted = cmd.promoted /\ cmd.step = "spawn"
    BY <1>3 DEF Spawn, RuntimeInv, TypeOK, Commands, Steps, Goto, At
  <2>2. CommandInv' /\ RecordInv'
    BY <1>3, <2>1 DEF Spawn, RuntimeInv, CommandInv, RecordInv, Gate, Sealing, Att, Status,
       stateVars, recordVars
  <2>3. StateTypes' /\ RecordTypes' /\ WorkerTypes'
    BY <1>1, <1>3, ProcessesGrow DEF Spawn, RuntimeInv, TypeOK, repoVars
  <2>4. RepoTypes' /\ EnvTypes' /\ cmd' \in Commands'
    BY <1>3, <2>1, RepoFrame, EnvFrame DEF Spawn, RuntimeInv, TypeOK, Commands,
       CommitOrNone,
       Commit, repoVars
  <2> QED
    BY <2>2, <2>3, <2>4 DEF RuntimeInv, TypeOK
<1>4. CASE OpenRecord
  <2>1. cmd' \in Commands /\ cmd'.step = "started" /\ cmd'.task = cmd.task
        /\ cmd'.promoted = cmd.promoted /\ cmd.step = "openRecord"
    BY <1>4 DEF OpenRecord, RuntimeInv, TypeOK, Commands, Steps, Goto, At
  <2>2. CommandInv' /\ RecordInv'
    BY <1>4, <2>1 DEF OpenRecord, RuntimeInv, CommandInv, RecordInv, Gate, Sealing, Att,
       Status, stateVars
  <2>3. launch' \in [Task -> LaunchRecords]
    BY <1>1, <1>4 DEF OpenRecord, RuntimeInv, TypeOK, RecordTypes, LaunchRecords
  <2>4. RecordTypes'
    BY <1>4, <2>3 DEF OpenRecord, RuntimeInv, TypeOK, RecordTypes, LaunchRecords,
       CompletionRecords, EvidenceStates, CommitOrNone, Commit, workerVars, repoVars
  <2>5. StateTypes' /\ WorkerTypes' /\ RepoTypes' /\ EnvTypes' /\ cmd' \in Commands'
    BY <1>4, <2>1, StateFrame, WorkerFrame, RepoFrame, EnvFrame
       DEF OpenRecord, RuntimeInv, TypeOK, Commands, CommitOrNone, Commit, workerVars,
           repoVars
  <2> QED
    BY <2>2, <2>4, <2>5 DEF RuntimeInv, TypeOK
<1>5. CASE OnStarted
  <2> DEFINE new == [status |-> "RUNNING", phase |-> "EXECUTING",
      attempts |-> Att(cmd.task) + 1,
                     process |-> Len(spawned), base |-> packet[cmd.task], accepted |-> NoCommit]
  <2>1. Att(cmd.task) + 1 \in 0..MaxAttempts
    BY <1>1, <1>5, EvTypes, BoundAssumption DEF OnStarted, RuntimeInv, CommandInv, At
  <2>2. packet[cmd.task] \in CommitOrNone
    BY <1>1 DEF RuntimeInv, TypeOK, RecordTypes
  <2>3. new \in TaskStates
    BY <1>1, <2>1, <2>2 DEF TaskStates, CommitOrNone
  <2>4. SetTask(cmd.task, new) /\ new.status # "PASS" /\ new.attempts > 0
    BY <1>1, <1>5, EvTypes DEF OnStarted, RuntimeInv
  <2>5. authorized' \in Commit
    BY <1>5 DEF OnStarted, RuntimeInv, TypeOK, StateTypes
  <2>6. cmd' \in Commands /\ CommandInv'
    BY <1>5, GotoKeeps DEF OnStarted, At, Plain, Steps, Gate, Sealing, recordVars
  <2> HIDE DEF new
  <2> QED
    BY <1>1, <1>5, <2>3, <2>4, <2>5, <2>6, StateWriteKeeps DEF OnStarted
<1> QED
  BY <1>2, <1>3, <1>4, <1>5, <1>6

\* The end of the worker and what state.json makes of it.
LEMMA AwaitActions ==
  ASSUME RuntimeInv,
         NEW outcome \in {"FINISHED", "INFRA_ERROR", "TIMED_OUT"}, Terminated(outcome) \/ Settle
  PROVE  RuntimeInv'
<1>1. cmd.task \in Task /\ tasks[cmd.task] \in TaskStates
  BY DEF RuntimeInv, TypeOK, StateTypes, CommandInv, Terminated, Settle, At
<1>2. CASE Terminated(outcome)
  <2>1. cmd' \in Commands /\ cmd'.step = "settle" /\ cmd'.task = cmd.task
        /\ cmd'.promoted = {} /\ cmd'.outcome = outcome
    BY <1>2 DEF Terminated, At, RuntimeInv, TypeOK, CommandInv, Commands, Steps
  <2>2. CommandInv' /\ RecordInv'
    BY <1>1, <1>2, <2>1 DEF Terminated, RuntimeInv, CommandInv, RecordInv, Gate, Sealing,
       Att, Status, stateVars
  <2>3. launch' \in [Task -> LaunchRecords]
    BY <1>2 DEF Terminated, RuntimeInv, TypeOK, RecordTypes, LaunchRecords
  <2>4. RecordTypes'
    BY <1>2, <2>3 DEF Terminated, RuntimeInv, TypeOK, RecordTypes, LaunchRecords,
       CompletionRecords, EvidenceStates, CommitOrNone, Commit, repoVars
  <2>5. StateTypes' /\ RepoTypes' /\ EnvTypes' /\ cmd' \in Commands'
    BY <1>2, <2>1, StateFrame, RepoFrame, EnvFrame
       DEF Terminated, RuntimeInv, TypeOK, Commands, CommitOrNone, Commit, repoVars
  <2>6. WorkerTypes'
    BY <1>2 DEF Terminated, RuntimeInv, TypeOK, WorkerTypes, Pid, Notes
  <2> QED
    BY <2>2, <2>4, <2>5, <2>6 DEF RuntimeInv, TypeOK
<1>3. CASE Settle
  <2>1. cmd.outcome \in {"FINISHED", "INFRA_ERROR", "TIMED_OUT"}
    BY <1>3 DEF Settle, At, RuntimeInv, TypeOK, Commands, CommandInv
  <2>2. PICK new \in TaskStates : SetTask(cmd.task, new)
                                    /\ (new.status = "PASS" => new.accepted # NoCommit)
                                    /\ (new.status = "RUNNING" => new.attempts > 0)
    <3>1. CASE cmd.outcome = "FINISHED"
      <4>1. [tasks[cmd.task] EXCEPT !.phase = "FINALIZING"] \in TaskStates
        BY <1>1 DEF TaskStates
      <4> QED
        BY <1>1, <1>3, <3>1, <4>1 DEF Settle, RuntimeInv, RecordInv, Status, Att, TaskStates
    <3>2. CASE cmd.outcome # "FINISHED"
      <4>1. [tasks[cmd.task] EXCEPT !.status = cmd.outcome, !.phase = "NONE"] \in TaskStates
        BY <1>1, <2>1, <3>2 DEF TaskStates
      <4> QED
        BY <1>1, <1>3, <2>1, <3>2, <4>1 DEF Settle, TaskStates
    <3> QED
      BY <3>1, <3>2
  <2>3. authorized' \in Commit
    BY <1>3 DEF Settle, RuntimeInv, TypeOK, StateTypes
  <2> QED
    BY <1>1, <1>3, <2>2, <2>3, IdleKeeps, StateWriteKeeps DEF Settle, Finish
<1> QED
  BY <1>2, <1>3

\* What a worker does to the checkout and to its inbox.
LEMMA WorkerActions ==
  ASSUME RuntimeInv, NEW p \in Pid, WorkerEdits(p) \/ WorkerReports(p) \/ WorkerExits(p)
  PROVE  RuntimeInv'
<1>1. spawned[p] \in Task /\ p \in 0..Len(spawned)
  BY DEF RuntimeInv, TypeOK, WorkerTypes, Pid
<1>2. cmd' = cmd
  BY DEF WorkerEdits, WorkerReports, WorkerExits
<1>3. CommandInv' /\ RecordInv'
  BY <1>2 DEF WorkerEdits, WorkerReports, WorkerExits, RuntimeInv, CommandInv, RecordInv,
     Att, HasFinal, Ev, Status, stateVars, recordVars, repoVars
<1>4. cmd' \in Commands
  BY <1>2 DEF RuntimeInv, TypeOK
<1>5. CASE WorkerEdits(p)
  <2>1. PatchesOf[spawned[p]] \subseteq Patch
    BY <1>1, WorkAssumption
  <2>2. tree' \in Content /\ staged' \in Content
    BY <1>5, <2>1, WorkAssumption DEF WorkerEdits, RuntimeInv, TypeOK, RepoTypes, Patch,
       Content
  <2> QED
    BY <1>3, <1>4, <1>5, <2>2, QuietKeeps DEF WorkerEdits
<1>6. CASE WorkerReports(p)
  <2>1. note' \in [Task -> Notes]
    BY <1>1, <1>6 DEF WorkerReports, RuntimeInv, TypeOK, WorkerTypes, Notes
  <2> QED
    BY <1>3, <1>4, <1>6, <2>1, NoteWriteKeeps DEF WorkerReports
<1>7. CASE WorkerExits(p)
  <2>1. WorkerTypes'
    BY <1>7 DEF WorkerExits, RuntimeInv, TypeOK, WorkerTypes, Pid, Notes
  <2>2. StateTypes' /\ RecordTypes' /\ RepoTypes' /\ EnvTypes' /\ cmd' \in Commands'
    BY <1>4, <1>7, StateFrame, RecordFrame, RepoFrame, EnvFrame
       DEF WorkerExits, RuntimeInv, TypeOK, Commands, CommitOrNone, Commit, repoVars
  <2> QED
    BY <1>3, <2>1, <2>2 DEF RuntimeInv, TypeOK
<1> QED
  BY <1>5, <1>6, <1>7

--------------------------------------------------------------------------------
(* Finalization.tla                                                        *)

\* A commit over the baseline is an entry of the log.
LEMMA LogTypes ==
  ASSUME TypeOK, NEW c \in Commit, c # Baseline
  PROVE  c \in 1..Len(log) /\ log[c] \in LogEntries
<1>1. c \in 1..Len(log)
  BY DEF TypeOK, RepoTypes, Commit, Baseline
<1> QED
  BY <1>1 DEF TypeOK, RepoTypes

\* What the records of the current attempt become when one is published.
LEMMA EvidenceStep ==
  ASSUME RuntimeInv, NEW t \in Task, Att(t) > 0
  PROVE  Att(t) \in Attempt /\ Ev(t) = evidence[t][Att(t)] /\ Ev(t).final # Baseline
<1>1. Att(t) \in Attempt
  BY EvTypes, BoundAssumption DEF RuntimeInv, Attempt
<1> QED
  BY <1>1 DEF Ev, RuntimeInv, RecordInv

\* No finalization record names the baseline, not even before the first attempt.
LEMMA NoFinalBaseline ==
  ASSUME RuntimeInv, NEW t \in Task
  PROVE  Ev(t) \in EvidenceStates /\ Ev(t).final # Baseline
<1>1. Att(t) \in 0..MaxAttempts /\ Ev(t) \in EvidenceStates
  BY EvTypes DEF RuntimeInv
<1>2. CASE Att(t) = 0
  BY <1>1, <1>2 DEF Ev, NoEvidence, NoCommit, Baseline
<1>3. CASE Att(t) > 0
  BY <1>1, <1>3, EvidenceStep
<1> QED
  BY <1>1, <1>2, <1>3

\* Capturing a HEAD that had already advanced.
LEMMA CaptureAction ==
  ASSUME RuntimeInv, NEW t \in Task, NEW reviewed \in {FALSE, Reviewing},
         CaptureCandidate(t, reviewed)
  PROVE  RuntimeInv'
<1> DEFINE new == [Ev(t) EXCEPT !.final = head, !.measured = log[head].content,
                                !.required = reviewed, !.worker = note[t].by]
<1>1. Ev(t) \in EvidenceStates /\ head \in Commit /\ head # Baseline
  BY EvTypes DEF CaptureCandidate, IsCandidate, RuntimeInv, TypeOK, RepoTypes
<1>2. log[head].content \in Content /\ note[t].by \in 0..Len(spawned) /\ reviewed \in BOOLEAN
  BY <1>1, LogTypes, WorkAssumption DEF RuntimeInv, TypeOK, WorkerTypes, LogEntries, Notes
<1>3. new \in EvidenceStates /\ new.final = head
  BY <1>1, <1>2 DEF EvidenceStates, CommitOrNone
<1>4. Att(t) > 0 /\ Att(t) \in Attempt
  BY EvidenceStep DEF CaptureCandidate, Closable, Finalizing, RuntimeInv, RecordInv
<1>5. Record(t, Att(t), new)
  BY DEF CaptureCandidate
<1>6. t \in 1..NumTasks + 1 /\ "accept" \in Steps
  BY PlanAssumption DEF Task, Steps
<1>7. cmd' \in Commands /\ cmd'.step = "accept" /\ cmd'.task = t /\ cmd'.promoted = {}
  BY <1>2, <1>6, IdleTypes DEF CaptureCandidate, Commands, Idle
<1> HIDE DEF new
<1>8. Att(t)' = Att(t) /\ evidence'[t][Att(t)] = new /\ head # NoCommit
  BY <1>1, <1>4, <1>5 DEF CaptureCandidate, Record, Att, stateVars, RuntimeInv, TypeOK,
     RecordTypes, Commit, NoCommit
<1>9. CommandInv'
  BY <1>3, <1>4, <1>7, <1>8 DEF CommandInv, Gate, Sealing, HasFinal, Ev
<1> QED
  BY <1>1, <1>3, <1>5, <1>7, <1>9, EvidenceWriteKeeps DEF CaptureCandidate

\* The commit of the candidate.
LEMMA CommitAction == ASSUME RuntimeInv, CommitStaged PROVE RuntimeInv'
<1> DEFINE e == [task |-> cmd.task, parent |-> head, content |-> staged]
<1>1. cmd.step = "commit" /\ cmd.task \in Task /\ Att(cmd.task) > 0
  BY DEF CommitStaged, At, RuntimeInv, CommandInv, Gate
<1>2. e \in LogEntries /\ Len(log) \in Nat
  BY <1>1 DEF RuntimeInv, TypeOK, RepoTypes, LogEntries, Commit, Task
<1>3. log' = Append(log, e)
  BY DEF CommitStaged
<1> HIDE DEF e
<1>4. StateTypes' /\ RecordTypes' /\ log' \in Seq(LogEntries)' /\ Len(log') = Len(log) + 1
      /\ CommitOrNone \subseteq CommitOrNone' /\ Commit \subseteq Commit'
  BY <1>2, <1>3, LogGrows DEF CommitStaged, RuntimeInv, TypeOK, workerVars
<1>5. RepoTypes'
  <2>1. head' \in Commit'
    BY <1>2, <1>4 DEF CommitStaged, Commit
  <2>2. tree' \in Content' /\ staged' \in Content'
    BY WorkAssumption DEF CommitStaged, RuntimeInv, TypeOK, RepoTypes, Content
  <2> QED
    BY <1>4, <2>1, <2>2 DEF RepoTypes
<1>6. /\ cmd' \in Commands' /\ cmd'.step = "record" /\ cmd'.task = cmd.task
      /\ cmd'.promoted = cmd.promoted /\ cmd'.candidate \in 1..Len(log')
  <2>1. Len(log) + 1 \in CommitOrNone'
    BY <1>2, <1>4 DEF CommitOrNone, Commit
  <2>2. cmd \in Commands
    BY DEF RuntimeInv, TypeOK
  <2> QED
    <3>1. cmd' = [cmd EXCEPT !.step = "record", !.candidate = Len(log) + 1]
      BY DEF CommitStaged
    <3>2. /\ cmd'.step = "record" /\ cmd'.task = cmd.task /\ cmd'.promoted = cmd.promoted
          /\ cmd'.candidate = Len(log) + 1
      BY <2>2, <3>1 DEF Commands
    <3>3. cmd' \in Commands'
      BY <1>4, <2>1, <2>2, <3>1 DEF Commands, Steps, Content
    <3> QED
      BY <1>2, <1>4, <3>2, <3>3
<1>7. WorkerTypes' /\ EnvTypes'
  BY WorkerFrame, EnvFrame DEF CommitStaged, RuntimeInv, TypeOK
<1>8. CommandInv' /\ RecordInv'
  BY <1>1, <1>6 DEF CommitStaged, RuntimeInv, CommandInv, RecordInv, Gate, Sealing, Att,
     Status,
     stateVars, recordVars
<1> QED
  BY <1>4, <1>5, <1>6, <1>7, <1>8 DEF RuntimeInv, TypeOK

\* The finalization record.
LEMMA FinalAction == ASSUME RuntimeInv, WriteFinal PROVE RuntimeInv'
<1> DEFINE t == cmd.task
           new == [Ev(t) EXCEPT !.final = cmd.candidate, !.measured = cmd.patch,
                                !.required = cmd.reviewed, !.worker = note[t].by]
<1>1. cmd.step = "record" /\ t \in Task /\ Att(t) > 0 /\ cmd.candidate \in 1..Len(log)
      /\ cmd \in Commands
  BY DEF WriteFinal, At, RuntimeInv, TypeOK, CommandInv, Gate
<1>2. Ev(t) \in EvidenceStates /\ Att(t) \in Attempt /\ note[t].by \in 0..Len(spawned)
  BY <1>1, EvTypes, EvidenceStep DEF RuntimeInv, TypeOK, WorkerTypes, Notes
<1>3. new \in EvidenceStates /\ new.final = cmd.candidate
  BY <1>1, <1>2 DEF EvidenceStates, Commands, CommitOrNone, Commit
<1>4. CASE cmd' = Idle /\ UNCHANGED evidence
  <2>1. RecordInv' /\ CommandInv' /\ cmd' \in Commands
    BY <1>4, IdleKeeps DEF WriteFinal, RuntimeInv, RecordInv, Status, Att, stateVars
  <2> QED
    BY <1>4, <2>1, QuietKeeps DEF WriteFinal, repoVars, recordVars, RuntimeInv, TypeOK,
       RepoTypes
<1>5. CASE Record(t, Att(t), new) /\ Goto("accept")
  <2>1. cmd' \in Commands /\ cmd'.step = "accept" /\ cmd'.task = t /\ cmd'.promoted = cmd.promoted
    BY <1>1, <1>5 DEF Goto, Commands, Steps
  <2> HIDE DEF new
  <2>2. Att(t)' = Att(t) /\ evidence'[t][Att(t)] = new
    BY <1>1, <1>2, <1>5, <2>1 DEF WriteFinal, Record, Att, stateVars, RuntimeInv, TypeOK,
       RecordTypes
  <2>4. cmd.candidate # NoCommit /\ cmd.candidate # Baseline
    BY <1>1 DEF NoCommit, Baseline, RuntimeInv, TypeOK, RepoTypes
  <2>3. CommandInv'
    BY <1>1, <1>3, <2>1, <2>2, <2>4
       DEF WriteFinal, RuntimeInv, CommandInv, Gate, Sealing, HasFinal, Ev
  <2> QED
    BY <1>1, <1>3, <1>5, <2>1, <2>2, <2>3, <2>4, EvidenceWriteKeeps DEF WriteFinal
<1> QED
  BY <1>4, <1>5 DEF WriteFinal, Finish

\* The four writes of finishFail.
LEMMA FailActions ==
  ASSUME RuntimeInv, ArchiveFail \/ BindFailSource \/ WriteFailCompletion \/ WriteFailState
  PROVE  RuntimeInv'
<1> DEFINE t == cmd.task
<1>1. t \in Task /\ cmd \in Commands /\ tree \in Content
  BY DEF ArchiveFail, BindFailSource, WriteFailCompletion, WriteFailState, At, RuntimeInv,
     TypeOK, RepoTypes, CommandInv
<1>2. Ev(t) \in EvidenceStates /\ Ev(t).final # Baseline /\ note[t].by \in 0..Len(spawned)
      /\ Att(t) \in 0..MaxAttempts
  BY <1>1, EvTypes, NoFinalBaseline DEF RuntimeInv, TypeOK, WorkerTypes, Notes
<1>3. CASE ArchiveFail
  <2>1. CASE UNCHANGED evidence /\ cmd' = Idle
    <3>1. CommandInv' /\ cmd' \in Commands
      BY <2>1, IdleKeeps
    <3> QED
      BY <1>1, <1>3, <2>1, <3>1, QuietKeeps
         DEF ArchiveFail, repoVars, recordVars, RuntimeInv, TypeOK, RepoTypes
  <2>2. CASE /\ Record(t, Att(t), [Ev(t) EXCEPT !.archive = TRUE])
             /\ cmd' = [cmd EXCEPT !.step = "failBind", !.patch = tree]
    <3>1. [Ev(t) EXCEPT !.archive = TRUE] \in EvidenceStates
          /\ [Ev(t) EXCEPT !.archive = TRUE].final # Baseline
      BY <1>2 DEF EvidenceStates
    <3>2. cmd' \in Commands /\ cmd'.step = "failBind" /\ cmd'.task = t
          /\ cmd'.promoted = {}
      BY <1>1, <1>3, <2>2 DEF ArchiveFail, At, RuntimeInv, CommandInv, Commands, Steps
    <3>3. CommandInv'
      BY <1>1, <3>2 DEF CommandInv, Gate, Sealing
    <3> QED
      BY <1>1, <1>3, <2>2, <3>1, <3>2, <3>3, EvidenceWriteKeeps DEF ArchiveFail
  <2> QED
    BY <1>3, <2>1, <2>2 DEF ArchiveFail, Finish
<1>4. CASE BindFailSource
  <2> DEFINE new == [Ev(t) EXCEPT !.source = cmd.patch, !.worker = note[t].by]
  <2>1. new \in EvidenceStates /\ new.final # Baseline
    BY <1>1, <1>2 DEF EvidenceStates, Commands
  <2>2. cmd' \in Commands /\ CommandInv'
    BY <1>4, GotoKeeps DEF BindFailSource, At, Plain, Steps, Gate, Sealing
  <2>3. Record(t, Att(t), new)
    BY <1>4 DEF BindFailSource
  <2> HIDE DEF new
  <2> QED
    BY <1>1, <1>4, <2>1, <2>2, <2>3, EvidenceWriteKeeps DEF BindFailSource
<1>5. CASE WriteFailCompletion
  <2> DEFINE new == [verdict |-> "FAIL", attempt |-> Att(t), commit |-> NoCommit,
                     gate |-> Ev(t).source # 0]
  <2>1. new \in CompletionRecords /\ new.verdict # "PASS"
    BY <1>2 DEF CompletionRecords, CommitOrNone
  <2>2. cmd.promoted = {} /\ completion' = [completion EXCEPT ![t] = new]
    BY <1>5 DEF WriteFailCompletion, At, RuntimeInv, CommandInv
  <2>3. cmd' \in Commands /\ cmd'.step = "failState" /\ cmd'.task = t /\ cmd'.promoted = {}
    BY <1>1, <1>5, <2>2 DEF WriteFailCompletion, Goto, Commands, Steps
  <2>4. CommandInv'
    BY <1>1, <2>3 DEF CommandInv, Gate, Sealing
  <2> HIDE DEF new
  <2> QED
    BY <1>1, <1>5, <2>1, <2>2, <2>3, <2>4, CompletionWriteKeeps DEF WriteFailCompletion
<1>6. CASE WriteFailState
  <2>1. [tasks[t] EXCEPT !.status = "FAIL", !.phase = "NONE", !.accepted = NoCommit] \in TaskStates
    BY <1>1 DEF RuntimeInv, TypeOK, StateTypes, TaskStates, CommitOrNone
  <2>2. authorized' \in Commit
    BY <1>6 DEF WriteFailState, RuntimeInv, TypeOK, StateTypes
  <2> QED
    BY <1>1, <1>6, <2>1, <2>2, IdleKeeps, StateWriteKeeps DEF WriteFailState, Finish,
       TaskStates
<1> QED
  BY <1>3, <1>4, <1>5, <1>6

--------------------------------------------------------------------------------
(* Acceptance: the review, the seal and the promotion.                     *)

\* Adopting a published FAIL.
LEMMA AdoptAction ==
  ASSUME RuntimeInv, NEW t \in Task, AdoptSealedFail(t)
  PROVE  RuntimeInv'
<1> DEFINE new == [verdict |-> "FAIL", attempt |-> Att(t), commit |-> NoCommit,
    gate |-> TRUE]
<1>1. new \in CompletionRecords /\ new.verdict # "PASS"
  BY EvTypes DEF RuntimeInv, CompletionRecords, CommitOrNone
<1>2. cmd' \in Commands /\ CommandInv'
  <2>1. 0 \in Content /\ FALSE \in BOOLEAN /\ "failState" \in Plain
    BY WorkAssumption DEF Content, Plain, Steps, Gate, Sealing
  <2> QED
    BY <2>1, BeginKeeps DEF AdoptSealedFail
<1>3. completion' = [completion EXCEPT ![t] = new]
  BY DEF AdoptSealedFail
<1> HIDE DEF new
<1> QED
  BY <1>1, <1>2, <1>3, CompletionWriteKeeps DEF AdoptSealedFail

\* A review leaves the final commit of the attempt as it is.
LEMMA ReviewAction ==
  ASSUME RuntimeInv, NEW verdict \in {"ACCEPT", "REJECT"}, Review(verdict)
  PROVE  RuntimeInv'
<1> DEFINE new == [Ev(cmd.task) EXCEPT !.review = verdict]
<1>1. cmd.step = "accept" /\ cmd.task \in Task /\ cmd.promoted = {} /\ Att(cmd.task) > 0
      /\ HasFinal(cmd.task) /\ cmd \in Commands
  BY DEF Review, At, RuntimeInv, TypeOK, CommandInv, Gate, Sealing
<1>2. new \in EvidenceStates /\ new.final # Baseline /\ new.final # NoCommit
  BY <1>1, NoFinalBaseline DEF EvidenceStates, HasFinal
<1>3. Att(cmd.task) \in Attempt
  BY <1>1, EvidenceStep
<1>4. Record(cmd.task, Att(cmd.task), new) /\ UNCHANGED cmd
  BY DEF Review
<1> HIDE DEF new
<1>5. Att(cmd.task)' = Att(cmd.task) /\ evidence'[cmd.task][Att(cmd.task)] = new
  BY <1>1, <1>3, <1>4 DEF Review, Record, Att, stateVars, RuntimeInv, TypeOK, RecordTypes
<1>6. cmd' \in Commands /\ CommandInv'
  BY <1>1, <1>2, <1>4, <1>5 DEF CommandInv, Gate, Sealing, HasFinal, Ev
<1> QED
  BY <1>1, <1>2, <1>4, <1>6, EvidenceWriteKeeps DEF Review

\* promoteState accepts a commit that exists.
LEMMA PromoteAction == ASSUME RuntimeInv, Promote PROVE RuntimeInv'
<1> DEFINE t == cmd.task
           new == [tasks[t] EXCEPT !.status = "PASS", !.phase = "NONE", !.accepted = Ev(t).final]
<1>1. t \in Task /\ HasFinal(t) /\ tasks[t] \in TaskStates
  BY DEF Promote, At, RuntimeInv, TypeOK, StateTypes, CommandInv, Sealing
<1>2. Ev(t).final \in Commit /\ Ev(t).final # NoCommit
  BY <1>1, NoFinalBaseline DEF HasFinal, EvidenceStates, CommitOrNone
<1>3. new \in TaskStates /\ new.status = "PASS" /\ new.accepted # NoCommit
  BY <1>1, <1>2 DEF TaskStates, CommitOrNone
<1>4. cmd' \in Commands /\ CommandInv'
  BY IdleKeeps DEF Promote, Finish
<1>5. CASE SetTask(t, new) /\ authorized' = Ev(t).final
  <2> HIDE DEF new, t
  <2> QED
    BY <1>1, <1>2, <1>3, <1>4, <1>5, StateWriteKeeps DEF Promote
<1>6. CASE UNCHANGED stateVars
  BY <1>4, <1>6, QuietKeeps DEF Promote, RuntimeInv, TypeOK, RepoTypes, repoVars
<1> QED
  BY <1>5, <1>6 DEF Promote

\* The PASS completion of an attempt with a final commit.
LEMMA PassTypes ==
  ASSUME RuntimeInv, NEW t \in Task, Att(t) > 0, HasFinal(t)
  PROVE  /\ PassCompletion(t, Att(t)) \in CompletionRecords
         /\ PassCompletion(t, Att(t)).verdict = "PASS"
         /\ PassCompletion(t, Att(t)).commit # NoCommit
<1>1. Ev(t) \in EvidenceStates /\ Att(t) \in 0..MaxAttempts
  BY EvTypes DEF RuntimeInv
<1>2. Ev(t) = evidence[t][Att(t)]
  BY EvidenceStep
<1> QED
  BY <1>1, <1>2 DEF PassCompletion, CompletionRecords, EvidenceStates, HasFinal

\* Sealing a completion: a PASS in the slot, or the slot as it was.
LEMMA SealsCompletion ==
  ASSUME RuntimeInv, cmd.task \in Task, Att(cmd.task) > 0, HasFinal(cmd.task),
         UNCHANGED <<stateVars, packet, launch, handoff, manifest, evidence,
                     workerVars, repoVars, envVars>>,
         \/ completion' = [completion EXCEPT ![cmd.task] = PassCompletion(cmd.task, Att(cmd.task))]
         \/ UNCHANGED completion,
         cmd' \in Commands, CommandInv'
  PROVE  RuntimeInv'
<1>1. CASE UNCHANGED completion
  BY <1>1, QuietKeeps DEF RuntimeInv, TypeOK, RepoTypes, repoVars, recordVars
<1>2. CASE completion' = [completion EXCEPT ![cmd.task] = PassCompletion(cmd.task, Att(cmd.task))]
  BY <1>2, PassTypes, CompletionWriteKeeps
<1> QED
  BY <1>1, <1>2

\* Sealing a handoff or a manifest keeps the types of all records.
LEMMA SealsRecord ==
  ASSUME RuntimeInv, cmd.task \in Task,
         UNCHANGED <<stateVars, packet, launch, completion, evidence,
                     workerVars, repoVars, envVars>>,
         \/ handoff' = [handoff EXCEPT ![cmd.task] = Ev(cmd.task).final] /\ UNCHANGED manifest
         \/ manifest' = [manifest EXCEPT ![cmd.task] = Ev(cmd.task).final] /\ UNCHANGED handoff
         \/ UNCHANGED <<handoff, manifest>>,
         cmd' \in Commands, CommandInv'
  PROVE  RuntimeInv'
<1>1. Ev(cmd.task).final \in CommitOrNone
  BY EvTypes DEF RuntimeInv, EvidenceStates
<1>2. handoff' \in [Task -> CommitOrNone] /\ manifest' \in [Task -> CommitOrNone]
  BY <1>1 DEF RuntimeInv, TypeOK, RecordTypes
<1>3. RecordTypes'
  BY <1>2 DEF RuntimeInv, TypeOK, RecordTypes, LaunchRecords, CompletionRecords,
     EvidenceStates,
     CommitOrNone, Commit, workerVars, repoVars
<1>4. StateTypes' /\ WorkerTypes' /\ RepoTypes' /\ EnvTypes'
  BY StateFrame, WorkerFrame, RepoFrame, EnvFrame DEF RuntimeInv, TypeOK, workerVars,
     repoVars
<1>5. cmd' \in Commands' /\ RecordInv'
  BY DEF RuntimeInv, RecordInv, Commands, CommitOrNone, Commit, repoVars, stateVars,
     Status, Att
<1> QED
  BY <1>3, <1>4, <1>5 DEF RuntimeInv, TypeOK

\* A close that seals goes on behind what it has sealed.
LEMMA SealAction == ASSUME RuntimeInv, SealStep PROVE RuntimeInv'
<1>1. cmd.task \in Task /\ cmd.promoted = {} /\ cmd \in Commands
      /\ Att(cmd.task) > 0 /\ HasFinal(cmd.task)
  BY DEF SealStep, At, RuntimeInv, TypeOK, CommandInv, Gate, Sealing
<1>2. UNCHANGED <<tasks, evidence>>
  BY DEF SealStep, SealCompletion, SealHandoff, SealManifest, stateVars
<1>3. ASSUME NEW s \in {"sealHandoff", "sealManifest", "promote"}, Goto(s)
      PROVE  cmd' \in Commands /\ CommandInv'
  <2>1. cmd' \in Commands /\ cmd'.step = s /\ cmd'.task = cmd.task /\ cmd'.promoted = {}
    BY <1>1, <1>3 DEF Goto, Commands, Steps
  <2> QED
    BY <1>1, <1>2, <2>1 DEF CommandInv, Gate, Sealing, HasFinal, Ev, Att
<1>4. cmd' \in Commands /\ CommandInv'
  BY <1>3, IdleKeeps DEF SealStep, SealCompletion, SealHandoff, SealManifest, Finish
<1>5. CASE At("sealCompletion") /\ SealCompletion(Goto("sealHandoff"), Finish)
  BY <1>1, <1>4, <1>5, SealsCompletion DEF SealCompletion
<1>6. CASE \/ At("sealHandoff") /\ SealHandoff(Goto("sealManifest"), Finish)
           \/ At("sealManifest") /\ SealManifest(Goto("promote"), Finish)
  BY <1>1, <1>4, <1>6, SealsRecord DEF SealHandoff, SealManifest
<1> QED
  BY <1>5, <1>6 DEF SealStep

--------------------------------------------------------------------------------
(* Retrying.tla                                                            *)

\* The three ways to put a task back to READY.
LEMMA ReopenActions ==
  ASSUME RuntimeInv, ReopenAbandoned \/ ReopenFailed \/ ReopenRejected
  PROVE  RuntimeInv'
<1> DEFINE t == cmd.task
           new == Reopened(t)
<1>1. t \in Task
  BY DEF ReopenAbandoned, ReopenFailed, ReopenRejected, At, RuntimeInv, CommandInv
<1>2. new \in TaskStates /\ new.status = "READY"
  <2>1. tasks[t] \in TaskStates /\ 0 \in 0..Len(spawned)
    BY <1>1 DEF RuntimeInv, TypeOK, StateTypes, WorkerTypes
  <2> QED
    BY <2>1 DEF Reopened, TaskStates, CommitOrNone
<1>3. cmd' \in Commands /\ CommandInv'
  BY IdleKeeps DEF ReopenAbandoned, ReopenFailed, ReopenRejected, Finish
<1>4. authorized' \in Commit /\ SetTask(t, new)
  BY DEF ReopenAbandoned, ReopenFailed, ReopenRejected, RuntimeInv, TypeOK, StateTypes
<1> HIDE DEF t, new
<1> QED
  BY <1>1, <1>2, <1>3, <1>4, StateWriteKeeps DEF ReopenAbandoned, ReopenFailed,
     ReopenRejected

\* A record that closes an attempt changes nothing else of it.
LEMMA CloseAttemptTypes ==
  ASSUME RuntimeInv, NEW t \in Task,
         NEW how \in {"ABANDONED", "VALIDATION_FAILED", "REVIEW_REJECTED"}
  PROVE  LET new == [Ev(t) EXCEPT !.closed = @ \cup {how}]
         IN new \in EvidenceStates /\ new.final # Baseline
<1>1. Ev(t) \in EvidenceStates /\ Ev(t).final # Baseline
  BY NoFinalBaseline
<1> QED
  BY <1>1 DEF EvidenceStates

\* The abandonment record.
LEMMA AbandonAction ==
  ASSUME RuntimeInv, NEW t \in Task, RecordAbandonment(t)
  PROVE  RuntimeInv'
<1> DEFINE new == [Ev(t) EXCEPT !.closed = @ \cup {"ABANDONED"}]
<1>1. new \in EvidenceStates /\ new.final # Baseline
  BY CloseAttemptTypes
<1>2. cmd' \in Commands /\ CommandInv'
  <2>1. 0 \in Content /\ FALSE \in BOOLEAN /\ "reopenAbandoned" \in Plain
    BY WorkAssumption DEF Content, Plain, Steps, Gate, Sealing
  <2> QED
    BY <2>1, BeginKeeps DEF RecordAbandonment
<1>3. Record(t, Att(t), new)
  BY DEF RecordAbandonment, CloseAttempt
<1> HIDE DEF new
<1> QED
  BY <1>1, <1>2, <1>3, EvidenceWriteKeeps DEF RecordAbandonment

\* The record of an attempt the gate rejected.
LEMMA ArchiveAction ==
  ASSUME RuntimeInv, NEW t \in Task, ArchiveFailedAttempt(t)
  PROVE  RuntimeInv'
<1> DEFINE new == [Ev(t) EXCEPT !.closed = @ \cup {"VALIDATION_FAILED"}]
<1>1. new \in EvidenceStates /\ new.final # Baseline
  BY CloseAttemptTypes
<1>2. cmd' \in Commands /\ CommandInv'
  <2>1. tree \in Content /\ FALSE \in BOOLEAN /\ "copyFail" \in Plain
    BY DEF RuntimeInv, TypeOK, RepoTypes, Plain, Steps, Gate, Sealing
  <2> QED
    BY <2>1, BeginKeeps DEF ArchiveFailedAttempt
<1>3. Record(t, Att(t), new)
  BY DEF ArchiveFailedAttempt, CloseAttempt
<1> HIDE DEF new
<1> QED
  BY <1>1, <1>2, <1>3, EvidenceWriteKeeps DEF ArchiveFailedAttempt

\* Preserving the verdict and the note of the attempt.
LEMMA CopyActions ==
  ASSUME RuntimeInv, CopyFailCompletion \/ CopyNote
  PROVE  RuntimeInv'
<1>1. cmd.task \in Task
  BY DEF CopyFailCompletion, CopyNote, At, RuntimeInv, CommandInv
<1>2. Ev(cmd.task) \in EvidenceStates /\ Ev(cmd.task).final # Baseline
  BY <1>1, NoFinalBaseline
<1>3. cmd' \in Commands /\ CommandInv'
  BY GotoKeeps DEF CopyFailCompletion, CopyNote, At, Plain, Steps, Gate, Sealing
<1>4. ASSUME NEW new \in EvidenceStates, new.final # Baseline,
             Record(cmd.task, Att(cmd.task), new)
      PROVE  RuntimeInv'
  BY <1>1, <1>3, <1>4, EvidenceWriteKeeps DEF CopyFailCompletion, CopyNote
<1>5. CASE CopyFailCompletion
  <2>1. [Ev(cmd.task) EXCEPT !.failCopy = TRUE] \in EvidenceStates
        /\ [Ev(cmd.task) EXCEPT !.failCopy = TRUE].final # Baseline
    BY <1>2 DEF EvidenceStates
  <2> QED
    BY <1>4, <1>5, <2>1 DEF CopyFailCompletion
<1>6. CASE CopyNote
  <2> DEFINE new == [Ev(cmd.task) EXCEPT !.noteCopy = @ \/ Ev(cmd.task).worker # 0]
  <2>1. new \in EvidenceStates /\ new.final # Baseline
    BY <1>2 DEF EvidenceStates
  <2> QED
    BY <1>4, <1>6, <2>1 DEF CopyNote
<1> QED
  BY <1>5, <1>6

\* Freeing the slot and the inbox for the next attempt.
LEMMA ReleaseActions ==
  ASSUME RuntimeInv, ReleaseSlot \/ ReleaseNote
  PROVE  RuntimeInv'
<1>1. cmd.task \in Task /\ cmd \in Commands /\ cmd.promoted = {}
  BY DEF ReleaseSlot, ReleaseNote, At, RuntimeInv, TypeOK, CommandInv
<1>2. CASE ReleaseSlot
  <2>1. NoCompletion \in CompletionRecords /\ NoCompletion.verdict # "PASS"
    BY BoundAssumption DEF NoCompletion, CompletionRecords, CommitOrNone
  <2>2. cmd' \in Commands /\ cmd'.step = "releaseNote" /\ cmd'.task = cmd.task
        /\ cmd'.promoted = {}
    BY <1>1, <1>2 DEF ReleaseSlot, Goto, Commands, Steps
  <2>3. CommandInv'
    BY <1>1, <2>2 DEF CommandInv, Gate, Sealing
  <2> QED
    BY <1>1, <1>2, <2>1, <2>2, <2>3, CompletionWriteKeeps DEF ReleaseSlot
<1>3. CASE ReleaseNote
  <2>1. cmd' \in Commands /\ CommandInv'
    BY <1>3, GotoKeeps DEF ReleaseNote, At, Plain, Steps, Gate, Sealing, recordVars
  <2>2. note' \in [Task -> Notes]
    BY <1>3 DEF ReleaseNote, RuntimeInv, TypeOK, WorkerTypes, Notes, NoNote
  <2> QED
    BY <1>3, <2>1, <2>2, NoteWriteKeeps DEF ReleaseNote
<1> QED
  BY <1>2, <1>3

--------------------------------------------------------------------------------
(* The repair of a rejected candidate.                                     *)

\* The record of an attempt the review rejected.
LEMMA ArchiveRejectedAction ==
  ASSUME RuntimeInv, NEW t \in Task, ArchiveRejectedCandidate(t)
  PROVE  RuntimeInv'
<1> DEFINE new == [Ev(t) EXCEPT !.closed = @ \cup {"REVIEW_REJECTED"}]
           p == log[Ev(t).final].content
<1>1. new \in EvidenceStates /\ new.final # Baseline
  BY CloseAttemptTypes
<1>2. Ev(t).final \in Commit /\ Ev(t).final # Baseline
  BY NoFinalBaseline DEF ArchiveRejectedCandidate, RejectedCandidate, HasFinal,
     EvidenceStates,
     CommitOrNone
<1>3. p \in Content
  BY <1>2, LogTypes DEF RuntimeInv, LogEntries
<1>4. cmd' = [Idle EXCEPT !.step = "copyRejectedNote", !.task = t, !.patch = p]
  BY DEF ArchiveRejectedCandidate
<1>5. t \in 1..NumTasks + 1 /\ "copyRejectedNote" \in Steps
  BY PlanAssumption DEF Task, Steps
<1> HIDE DEF p
<1>6. /\ cmd' \in Commands /\ cmd'.step = "copyRejectedNote" /\ cmd'.task = t
      /\ cmd'.promoted = {}
  <2>1. /\ DOMAIN Idle = {"step", "task", "patch", "candidate", "outcome", "reviewed", "promoted"}
        /\ Idle.promoted = {}
    BY DEF Idle
  <2> QED
    BY <1>3, <1>4, <1>5, <2>1, IdleTypes DEF Commands
<1>7. tasks[t].base # NoCommit /\ tasks' = tasks
  BY DEF ArchiveRejectedCandidate, RejectedCandidate, stateVars, RuntimeInv, TypeOK,
     StateTypes,
     Commit, NoCommit
<1>8. CommandInv'
  BY <1>6, <1>7 DEF CommandInv, Gate, Sealing
<1>9. Record(t, Att(t), new)
  BY DEF ArchiveRejectedCandidate, CloseAttempt
<1> HIDE DEF new
<1> QED
  BY <1>1, <1>6, <1>8, <1>9, EvidenceWriteKeeps DEF ArchiveRejectedCandidate

\* Preserving and removing the note of a rejected attempt.
LEMMA RejectedNoteActions ==
  ASSUME RuntimeInv, CopyRejectedNote \/ ReleaseRejectedNote
  PROVE  RuntimeInv'
<1>1. cmd.task \in Task /\ cmd \in Commands /\ cmd.promoted = {}
      /\ tasks[cmd.task].base # NoCommit /\ tasks' = tasks
  BY DEF CopyRejectedNote, ReleaseRejectedNote, At, RuntimeInv, TypeOK, CommandInv,
     stateVars
<1>2. ASSUME NEW s \in {"releaseRejectedNote", "moveRef"}, Goto(s)
      PROVE  cmd' \in Commands /\ CommandInv'
  <2>1. cmd' \in Commands /\ cmd'.step = s /\ cmd'.task = cmd.task /\ cmd'.promoted = {}
    BY <1>1, <1>2 DEF Goto, Commands, Steps
  <2> QED
    BY <1>1, <2>1 DEF CommandInv, Gate, Sealing
<1>3. cmd' \in Commands /\ CommandInv'
  BY <1>2 DEF CopyRejectedNote, ReleaseRejectedNote
<1>4. CASE CopyRejectedNote
  <2> DEFINE new == [Ev(cmd.task) EXCEPT !.noteCopy = TRUE]
  <2>0. Ev(cmd.task) \in EvidenceStates /\ Ev(cmd.task).final # Baseline
    BY <1>1, NoFinalBaseline
  <2>1. new \in EvidenceStates /\ new.final # Baseline
    BY <2>0 DEF EvidenceStates
  <2>2. Record(cmd.task, Att(cmd.task), new)
    BY <1>4 DEF CopyRejectedNote
  <2> HIDE DEF new
  <2> QED
    BY <1>1, <1>3, <1>4, <2>1, <2>2, EvidenceWriteKeeps DEF CopyRejectedNote
<1>5. CASE ReleaseRejectedNote
  <2>1. note' \in [Task -> Notes]
    BY <1>5 DEF ReleaseRejectedNote, RuntimeInv, TypeOK, WorkerTypes, Notes, NoNote
  <2> QED
    BY <1>3, <1>5, <2>1, NoteWriteKeeps DEF ReleaseRejectedNote
<1> QED
  BY <1>4, <1>5

\* The ref goes back to the recorded base, which exists.
LEMMA MoveRefAction == ASSUME RuntimeInv, MoveRef PROVE RuntimeInv'
<1>1. cmd.task \in Task /\ cmd \in Commands /\ tasks[cmd.task].base \in Commit
  <2>1. cmd.task \in Task /\ tasks[cmd.task].base # NoCommit
    BY DEF MoveRef, At, RuntimeInv, CommandInv
  <2>2. tasks[cmd.task] \in TaskStates /\ cmd \in Commands
    BY <2>1 DEF RuntimeInv, TypeOK, StateTypes
  <2> QED
    BY <2>1, <2>2 DEF TaskStates, CommitOrNone
<1>2. cmd' \in Commands /\ CommandInv'
  BY GotoKeeps, IdleKeeps DEF MoveRef, At, Plain, Steps, Gate, Sealing, recordVars, Finish
<1>3. head' \in Commit /\ tree' \in Content /\ staged' \in Content
  BY <1>1 DEF MoveRef, RuntimeInv, TypeOK, RepoTypes, Commands
<1>4. RepoTypes'
  BY <1>3 DEF MoveRef, RuntimeInv, TypeOK, RepoTypes, Commit, Content, LogEntries
<1>5. StateTypes' /\ RecordTypes' /\ WorkerTypes' /\ EnvTypes'
  BY StateFrame, RecordFrame, WorkerFrame, EnvFrame DEF MoveRef, RuntimeInv, TypeOK,
     workerVars
<1>6. RecordInv' /\ cmd' \in Commands'
  BY <1>2 DEF MoveRef, RuntimeInv, RecordInv, stateVars, recordVars, Status, Att, Commands,
     CommitOrNone, Commit
<1> QED
  BY <1>2, <1>4, <1>5, <1>6 DEF RuntimeInv, TypeOK

--------------------------------------------------------------------------------
(* Recovery.tla and the rest of TaskRuntime.tla                            *)

\* A recovery that seals promotes only what its bundle proves.
LEMMA RecoverSealAction == ASSUME RuntimeInv, RecoverSealStep PROVE RuntimeInv'
<1>1. cmd.task \in Task /\ cmd \in Commands /\ Att(cmd.task) > 0 /\ HasFinal(cmd.task)
      /\ cmd.task \in 1..NumTasks /\ NumTasks \in Nat
  BY PlanAssumption DEF RecoverSealStep, At, RuntimeInv, TypeOK, CommandInv, Gate, Sealing,
     Task
<1>2. UNCHANGED <<tasks, evidence>>
  BY DEF RecoverSealStep, SealCompletion, SealHandoff, SealManifest, stateVars
<1>3. \A u \in Task : completion[u].verdict = "PASS" => completion'[u].verdict = "PASS"
  BY <1>1, PassTypes DEF RecoverSealStep, SealCompletion, SealHandoff, SealManifest,
     RuntimeInv, TypeOK, RecordTypes
<1>4. cmd.promoted \in SUBSET Task /\ \A u \in cmd.promoted : completion'[u].verdict = "PASS"
  BY <1>1, <1>3 DEF Commands, RuntimeInv, CommandInv
<1>11. cmd.task + 1 \in 1..NumTasks + 1 /\ "recover" \in Steps
  BY <1>1 DEF Steps
<1>5. ASSUME Refused
      PROVE  cmd' \in Commands /\ CommandInv'
  <2>1. cmd' \in Commands /\ cmd'.step = "recover" /\ cmd'.promoted = cmd.promoted
    BY <1>1, <1>5, <1>11 DEF Refused, Commands
  <2> QED
    BY <1>4, <2>1 DEF CommandInv, Gate, Sealing
<1>6. ASSUME Promoted, completion'[cmd.task].verdict = "PASS"
      PROVE  cmd' \in Commands /\ CommandInv'
  <2> DEFINE more == {u \in {cmd.task} : FinalVerifies(u, Att(u))}
  <2>1. more \subseteq {cmd.task}
    OBVIOUS
  <2>2. cmd' = [cmd EXCEPT !.step = "recover", !.task = @ + 1, !.promoted = @ \cup more]
    BY <1>6 DEF Promoted
  <2> HIDE DEF more
  <2>3. cmd' \in Commands /\ cmd'.step = "recover" /\ cmd'.promoted = cmd.promoted \cup more
    <3>1. cmd.promoted \cup more \in SUBSET Task
      BY <1>1, <1>4, <2>1
    <3> QED
      BY <1>1, <1>11, <2>2, <3>1 DEF Commands
  <2> QED
    BY <1>4, <1>6, <2>1, <2>3 DEF CommandInv, Gate, Sealing
<1>7. ASSUME NEW s \in {"recoverHandoff", "recoverManifest"}, Goto(s),
             completion'[cmd.task].verdict = "PASS"
      PROVE  cmd' \in Commands /\ CommandInv'
  <2>1. cmd' \in Commands /\ cmd'.step = s /\ cmd'.task = cmd.task
        /\ cmd'.promoted = cmd.promoted
    BY <1>1, <1>7 DEF Goto, Commands, Steps
  <2> QED
    BY <1>1, <1>2, <1>4, <1>7, <2>1 DEF CommandInv, Gate, Sealing, HasFinal, Ev, Att
<1>8. CASE At("recoverCompletion") /\ SealCompletion(Goto("recoverHandoff"), Refused)
  <2>1. CASE completion' = [completion EXCEPT ![cmd.task] = PassCompletion(cmd.task, Att(cmd.task))]
             /\ Goto("recoverHandoff")
    <3>1. completion'[cmd.task].verdict = "PASS"
      BY <1>1, <2>1, PassTypes DEF RuntimeInv, TypeOK, RecordTypes
    <3> QED
      BY <1>1, <1>7, <1>8, <2>1, <3>1, SealsCompletion DEF SealCompletion
  <2>2. CASE UNCHANGED completion /\ Refused
    BY <1>1, <1>5, <1>8, <2>2, SealsCompletion DEF SealCompletion
  <2> QED
    BY <1>8, <2>1, <2>2 DEF SealCompletion
<1>9. CASE At("recoverHandoff") /\ SealHandoff(Goto("recoverManifest"), Refused)
  <2>1. completion'[cmd.task].verdict = "PASS"
    BY <1>9 DEF At, SealHandoff, RuntimeInv, CommandInv
  <2>2. cmd' \in Commands /\ CommandInv'
    BY <1>5, <1>7, <1>9, <2>1 DEF SealHandoff
  <2> QED
    BY <1>1, <1>9, <2>2, SealsRecord DEF SealHandoff
<1>10. CASE At("recoverManifest") /\ SealManifest(Promoted, Refused)
  <2>1. completion'[cmd.task].verdict = "PASS"
    BY <1>10 DEF At, SealManifest, RuntimeInv, CommandInv
  <2>2. cmd' \in Commands /\ CommandInv'
    BY <1>5, <1>6, <1>10, <2>1 DEF SealManifest
  <2> QED
    BY <1>1, <1>10, <2>2, SealsRecord DEF SealManifest
<1> QED
  BY <1>8, <1>9, <1>10 DEF RecoverSealStep

\* The youngest accepted commit exists.
LEMMA DerivedHeadTypes ==
  ASSUME Len(log) \in Nat, NEW ts \in [Task -> TaskStates],
         \A t \in Task : ts[t].status = "PASS" => ts[t].accepted # NoCommit
  PROVE  DerivedHead(ts) \in Commit
<1> DEFINE A == {ts[t].accepted : t \in {u \in Task : ts[u].status = "PASS"}}
<1>1. A \subseteq 0..Len(log)
  BY DEF TaskStates, CommitOrNone, Commit
<1>2. CASE A = {}
  BY <1>2 DEF DerivedHead, Baseline, Commit
<1>3. CASE A # {}
  <2>1. \E c \in A : \A d \in A : d <= c
    <3> HIDE DEF A
    <3> QED
      BY <1>1, <1>3, Largest
  <2>2. DerivedHead(ts) = CHOOSE c \in A : \A d \in A : d <= c
    BY <1>3 DEF DerivedHead
  <2> HIDE DEF A
  <2> QED
    BY <1>1, <2>1, <2>2 DEF Commit
<1> QED
  BY <1>2, <1>3

\* What a recovery makes of a task is a task state.
LEMMA ReconciledTypes ==
  ASSUME RuntimeInv, NEW t \in Task
  PROVE  /\ Reconciled(t) \in TaskStates
         /\ Reconciled(t).status = "PASS" => Reconciled(t).accepted # NoCommit
         /\ Reconciled(t).status = "RUNNING" => Reconciled(t).attempts > 0
<1>1. tasks[t] \in TaskStates /\ completion[t] \in CompletionRecords
  BY DEF RuntimeInv, TypeOK, StateTypes, RecordTypes
<1>2. CASE Proved(t)
  <2>1. completion[t].verdict = "PASS"
    BY <1>2 DEF Proved, BundleValid, RuntimeInv, CommandInv
  <2>2. completion[t].commit \in CommitOrNone /\ completion[t].commit # NoCommit
    BY <1>1, <2>1 DEF RuntimeInv, RecordInv, CompletionRecords
  <2> QED
    BY <1>1, <1>2, <2>2 DEF Reconciled, TaskStates
<1>3. CASE ~Proved(t)
  BY <1>1, <1>3 DEF Reconciled, TaskStates, RuntimeInv, RecordInv, Status, Att
<1> QED
  BY <1>2, <1>3

\* The single write of a recovery.
LEMMA RecoverWriteAction == ASSUME RuntimeInv, RecoverWrite PROVE RuntimeInv'
<1> DEFINE ts == [t \in Task |-> Reconciled(t)]
<1>1. /\ ts \in [Task -> TaskStates]
      /\ \A t \in Task : ts[t].status = "PASS" => ts[t].accepted # NoCommit
      /\ \A t \in Task : ts[t].status = "RUNNING" => ts[t].attempts > 0
  BY ReconciledTypes
<1>2. tasks' = ts /\ authorized' = ReconciledHead(ts)
  BY DEF RecoverWrite
<1> HIDE DEF ts
<1>3. authorized' \in Commit
  <2>1. DerivedHead(ts) \in Commit
    BY <1>1, DerivedHeadTypes DEF RuntimeInv, TypeOK, RepoTypes
  <2> QED
    BY <1>2, <2>1 DEF ReconciledHead, RuntimeInv, TypeOK, StateTypes
<1>4. StateTypes'
  BY <1>1, <1>2, <1>3 DEF RecoverWrite, StateTypes, TaskStates, CommitOrNone, Commit,
     workerVars, repoVars
<1>5. RecordTypes' /\ WorkerTypes' /\ RepoTypes' /\ EnvTypes'
  BY RecordFrame, WorkerFrame, RepoFrame, EnvFrame
     DEF RecoverWrite, RuntimeInv, TypeOK, workerVars, repoVars
<1>6. cmd' \in Commands' /\ CommandInv'
  BY IdleKeeps DEF RecoverWrite, Finish, Commands, CommitOrNone, Commit, repoVars
<1>7. RecordInv'
  BY <1>1, <1>2 DEF RecoverWrite, RuntimeInv, RecordInv, recordVars, Status, Att
<1> QED
  BY <1>4, <1>5, <1>6, <1>7 DEF RuntimeInv, TypeOK

\* A commit from outside.
LEMMA OutsideCommitAction == ASSUME RuntimeInv, OutsideCommit PROVE RuntimeInv'
<1> DEFINE e == [task |-> 0, parent |-> head, content |-> tree]
<1>1. e \in LogEntries /\ Len(log) \in Nat
  BY PlanAssumption DEF RuntimeInv, TypeOK, RepoTypes, LogEntries, Commit
<1>2. log' = Append(log, e)
  BY DEF OutsideCommit
<1> HIDE DEF e
<1>3. StateTypes' /\ RecordTypes' /\ log' \in Seq(LogEntries)' /\ Len(log') = Len(log) + 1
      /\ CommitOrNone \subseteq CommitOrNone' /\ Commit \subseteq Commit'
  BY <1>1, <1>2, LogGrows DEF OutsideCommit, RuntimeInv, TypeOK, workerVars
<1>4. RepoTypes'
  <2>1. head' \in Commit'
    BY <1>1, <1>3 DEF OutsideCommit, Commit
  <2>2. tree' \in Content' /\ staged' \in Content'
    BY WorkAssumption DEF OutsideCommit, RuntimeInv, TypeOK, RepoTypes, Content
  <2> QED
    BY <1>3, <2>1, <2>2 DEF RepoTypes
<1>5. WorkerTypes' /\ EnvTypes'
  BY WorkerFrame, BoundAssumption DEF OutsideCommit, RuntimeInv, TypeOK, EnvTypes
<1>6. cmd' \in Commands' /\ CommandInv' /\ RecordInv'
  <2>1. cmd' \in Commands'
    BY <1>3 DEF OutsideCommit, RuntimeInv, TypeOK, Commands, Content
  <2>2. cmd.step = "record" => cmd.candidate \in 1..Len(log')
    BY <1>1, <1>3 DEF RuntimeInv, CommandInv
  <2>3. CommandInv'
    BY <2>2 DEF OutsideCommit, RuntimeInv, CommandInv, Att, HasFinal, Ev, stateVars,
       recordVars
  <2> QED
    BY <2>1, <2>3 DEF OutsideCommit, RuntimeInv, RecordInv, stateVars, recordVars, Status,
       Att
<1> QED
  BY <1>3, <1>4, <1>5, <1>6 DEF RuntimeInv, TypeOK

--------------------------------------------------------------------------------
(* The theorem.                                                            *)

\* The invariant holds of a new runtime.
LEMMA InitRuntime == Init => RuntimeInv
<1> SUFFICES ASSUME Init PROVE RuntimeInv
  OBVIOUS
<1>1. Len(log) = 0 /\ Len(spawned) = 0 /\ Commit = {0} /\ NoCommit \in CommitOrNone
      /\ Baseline \in CommitOrNone /\ 0 \in Content
  BY WorkAssumption DEF Init, Commit, CommitOrNone, Baseline, Content
<1>2. StateTypes
  <2>1. InitialTask \in TaskStates
    BY <1>1, BoundAssumption DEF InitialTask, TaskStates
  <2> QED
    BY <1>1, <2>1 DEF Init, StateTypes, Baseline
<1>3. RecordTypes
  <2>1. NoLaunch \in LaunchRecords
    BY <1>1 DEF NoLaunch, LaunchRecords
  <2>2. NoCompletion \in CompletionRecords
    BY <1>1, BoundAssumption DEF NoCompletion, CompletionRecords
  <2>3. NoEvidence \in EvidenceStates
    BY <1>1 DEF NoEvidence, EvidenceStates
  <2> QED
    BY <1>1, <2>1, <2>2, <2>3 DEF Init, RecordTypes
<1>4. WorkerTypes
  BY <1>1 DEF Init, WorkerTypes, Notes, NoNote, Pid
<1>5. RepoTypes
  BY <1>1 DEF Init, RepoTypes, Baseline
<1>6. EnvTypes /\ cmd \in Commands
  BY IdleTypes, BoundAssumption DEF Init, EnvTypes
<1>7. CommandInv
  BY IdleTypes DEF Init, CommandInv, Idle, Gate, Sealing
<1>8. RecordInv
  BY DEF Init, RecordInv, NoEvidence, NoCompletion, InitialTask, Status, Att, NoCommit,
     Baseline
<1> QED
  BY <1>2, <1>3, <1>4, <1>5, <1>6, <1>7, <1>8 DEF RuntimeInv, TypeOK

\* One step per action, by the groups above.
LEMMA StepRuntime == RuntimeInv /\ [Next]_vars => RuntimeInv'
<1> SUFFICES ASSUME RuntimeInv, [Next]_vars PROVE RuntimeInv'
  OBVIOUS
<1>1. CASE UNCHANGED vars
  BY <1>1, StateFrame, RecordFrame, WorkerFrame, RepoFrame, EnvFrame, CommandFrame
     DEF vars, RuntimeInv, TypeOK, CommandInv, RecordInv, workerVars, repoVars, stateVars,
         recordVars, Att, Status, HasFinal, Ev
<1>2. CASE StartCommand
  <2>1. CASE Recover
    BY <2>1, PlanAssumption, QuietStart DEF Task
  <2>2. ASSUME NEW t \in Task, PrepareNextTask(t) \/ Launch(t) \/ Close(t) \/ Retry(t)
        PROVE  RuntimeInv'
    <3>1. CASE PrepareNextTask(t) \/ Launch(t)
      BY <3>1, LaunchActions
    <3>2. CASE Close(t)
      BY <3>2, QuietStart, CaptureAction, AdoptAction DEF Close
    <3>3. CASE Retry(t)
      BY <3>3, QuietStart, AbandonAction, ArchiveAction, ArchiveRejectedAction DEF Retry
    <3> QED
      BY <2>2, <3>1, <3>2, <3>3
  <2> QED
    BY <1>2, <2>1, <2>2 DEF StartCommand
<1>3. CASE LaunchStep
  BY <1>3, SpawnActions, AwaitActions DEF LaunchStep
<1>4. CASE CloseStep
  BY <1>4, QuietGate, CommitAction, FinalAction, FailActions, ReviewAction, SealAction,
     PromoteAction DEF CloseStep
<1>5. CASE RetryStep
  BY <1>5, QuietReset, ReopenActions, CopyActions, ReleaseActions, RejectedNoteActions,
     MoveRefAction DEF RetryStep
<1>6. CASE RecoverStep
  BY <1>6, QuietRecover, RecoverSealAction, RecoverWriteAction DEF RecoverStep
<1>7. CASE WorkerStep
  BY <1>7, WorkerActions DEF WorkerStep
<1>8. CASE Crash \/ OutsideEdit
  BY <1>8, OutsideActions
<1>9. CASE OutsideCommit
  BY <1>9, OutsideCommitAction
<1> QED
  BY <1>1, <1>2, <1>3, <1>4, <1>5, <1>6, <1>7, <1>8, <1>9 DEF Next, CommandStep

\* Every part of the shared state and of the running command stays in its type,
\* through every crash, edit and outside commit, for any plan and any bounds.
THEOREM TypesHold == Spec => []TypeOK
<1>1. RuntimeInv => TypeOK
  BY DEF RuntimeInv
<1> QED
  BY InitRuntime, StepRuntime, <1>1, PTL DEF Spec

--------------------------------------------------------------------------------
(* The records of the attempts behind.                                     *)


\* Steps between the guards of a launch and the attempt it starts, and steps
\* between the record that closes an attempt and the state that lets go of it.
Starting == {"spawn", "openRecord", "started"}
Reopening == {"reopenAbandoned", "copyFail", "copyNote", "releaseSlot", "releaseNote",
              "halfReset", "reset", "reopenFailed", "copyRejectedNote", "releaseRejectedNote",
              "moveRef", "halfRetire", "retire", "reopenRejected"}

\* While a command is between them, what it has found or written stays true.
StartsReady == cmd.step \in Starting => Status(cmd.task) = "READY"
ReopensClosed == cmd.step \in Reopening => Ev(cmd.task).closed # {}

HistoryInv == RuntimeInv /\ SupersededAttemptsClosed /\ StartsReady /\ ReopensClosed

\* Nothing that was closed is opened, and attempts and READY tasks stay as they are.
RecordsKept ==
  \A t \in Task : \A a \in Attempt : evidence[t][a].closed \subseteq evidence'[t][a].closed
AttemptsKept ==
  \A t \in Task : Att(t)' = Att(t) /\ (Status(t)' = "READY" => Status(t) = "READY")

--------------------------------------------------------------------------------

\* The records of an attempt, where there is one.
LEMMA EvWhere ==
  ASSUME RuntimeInv, NEW t \in Task
  PROVE  /\ Att(t) \in 0..MaxAttempts
         /\ Att(t) = 0 => Ev(t) = NoEvidence
         /\ Att(t) > 0 => Att(t) \in Attempt /\ Ev(t) = evidence[t][Att(t)]
<1>1. Att(t) \in 0..MaxAttempts
  BY EvTypes DEF RuntimeInv
<1> QED
  BY <1>1, EvidenceStep DEF Ev

\* Where nothing is started and nothing reopened, history stays closed.
LEMMA HistoryKept ==
  ASSUME HistoryInv, RuntimeInv', RecordsKept, AttemptsKept
  PROVE  /\ SupersededAttemptsClosed'
         /\ \A t \in Task : Ev(t).closed # {} => Ev(t)'.closed # {}
<1>1. SupersededAttemptsClosed'
  BY DEF HistoryInv, SupersededAttemptsClosed, RecordsKept, AttemptsKept
<1>2. ASSUME NEW t \in Task, Ev(t).closed # {} PROVE Ev(t)'.closed # {}
  <2>1. Att(t) > 0 /\ Att(t) \in Attempt /\ Ev(t) = evidence[t][Att(t)]
    BY <1>2, EvWhere DEF HistoryInv, NoEvidence
  <2>2. Att(t)' = Att(t)
    BY DEF AttemptsKept
  <2>3. Ev(t)' = evidence'[t][Att(t)]
    BY <2>1, <2>2 DEF Ev
  <2> QED
    BY <1>2, <2>1, <2>3 DEF RecordsKept
<1> QED
  BY <1>1, <1>2

\* Publishing a record of the current attempt keeps what closed it.
LEMMA RecordKeeps ==
  ASSUME HistoryInv, NEW t \in Task, NEW new, Record(t, Att(t), new),
         Ev(t).closed \subseteq new.closed
  PROVE  RecordsKept
<1>1. Att(t) \in 0..MaxAttempts /\ (Att(t) > 0 => Ev(t) = evidence[t][Att(t)])
  BY EvWhere DEF HistoryInv
<1>2. evidence \in [Task -> [Attempt -> EvidenceStates]]
  BY DEF HistoryInv, RuntimeInv, TypeOK, RecordTypes
<1> QED
  BY <1>1, <1>2 DEF RecordsKept, Record, Attempt

\* Every record that is published only adds to its attempt.
LEMMA RecordsGrow == HistoryInv /\ Next => RecordsKept
<1> SUFFICES ASSUME HistoryInv, Next PROVE RecordsKept
  OBVIOUS
<1>1. ASSUME UNCHANGED evidence PROVE RecordsKept
  BY <1>1 DEF RecordsKept
<1>2. ASSUME NEW t \in Task PROVE Ev(t) \in EvidenceStates
  BY EvTypes DEF HistoryInv, RuntimeInv
<1>3. CASE StartCommand
  <2>1. CASE Recover
    BY <1>1, <2>1 DEF Recover, recordVars
  <2>2. ASSUME NEW t \in Task, PrepareNextTask(t) \/ Launch(t) PROVE RecordsKept
    BY <1>1, <2>2 DEF PrepareNextTask, Launch, recordVars
  <2>3. ASSUME NEW t \in Task, Close(t) PROVE RecordsKept
    <3>1. ASSUME NEW reviewed, CaptureCandidate(t, reviewed) PROVE RecordsKept
      <4> DEFINE new == [Ev(t) EXCEPT !.final = head, !.measured = log[head].content,
                                      !.required = reviewed, !.worker = note[t].by]
      <4>1. Ev(t).closed \subseteq new.closed
        BY <1>2 DEF EvidenceStates
      <4>2. Record(t, Att(t), new)
        BY <3>1 DEF CaptureCandidate
      <4> HIDE DEF new
      <4> QED
        BY <4>1, <4>2, RecordKeeps
    <3> QED
      BY <1>1, <2>3, <3>1 DEF Close, ResumeAcceptance, StartGate, AdoptSealedFail,
         CloseDeclaredFailure, recordVars
  <2>4. ASSUME NEW t \in Task, Retry(t) PROVE RecordsKept
    <3>1. ASSUME NEW how, CloseAttempt(t, how) PROVE RecordsKept
      <4> DEFINE new == [Ev(t) EXCEPT !.closed = @ \cup {how}]
      <4>1. Ev(t).closed \subseteq new.closed
        BY <1>2 DEF EvidenceStates
      <4>2. Record(t, Att(t), new)
        BY <3>1 DEF CloseAttempt
      <4> HIDE DEF new
      <4> QED
        BY <4>1, <4>2, RecordKeeps
    <3> QED
      BY <1>1, <2>4, <3>1 DEF Retry, RecordAbandonment, ArchiveFailedAttempt, ResumeArchival,
         ArchiveRejectedCandidate, recordVars
  <2> QED
    BY <1>3, <2>1, <2>2, <2>3, <2>4 DEF StartCommand
<1>4. CASE LaunchStep
  BY <1>1, <1>4 DEF LaunchStep, LaunchRefused, SpawnFails, Spawn, OpenRecord, OnStarted,
     Settle, Terminated, recordVars
<1>5. ASSUME ~At("idle"), ~At("recover") PROVE cmd.task \in Task
  BY <1>5 DEF At, HistoryInv, RuntimeInv, CommandInv
<1>6. CASE CloseStep
  <2>1. CASE WriteFinal
    <3> DEFINE new == [Ev(cmd.task) EXCEPT !.final = cmd.candidate, !.measured = cmd.patch,
                          !.required = cmd.reviewed, !.worker = note[cmd.task].by]
    <3>1. cmd.task \in Task
      BY <1>5, <2>1 DEF WriteFinal, At
    <3>2. Ev(cmd.task).closed \subseteq new.closed
      BY <1>2, <3>1 DEF EvidenceStates
    <3>3. Record(cmd.task, Att(cmd.task), new) \/ UNCHANGED evidence
      BY <2>1 DEF WriteFinal
    <3> HIDE DEF new
    <3> QED
      BY <1>1, <3>1, <3>2, <3>3, RecordKeeps
  <2>2. CASE ArchiveFail
    <3> DEFINE new == [Ev(cmd.task) EXCEPT !.archive = TRUE]
    <3>1. cmd.task \in Task
      BY <1>5, <2>2 DEF ArchiveFail, At
    <3>2. Ev(cmd.task).closed \subseteq new.closed
      BY <1>2, <3>1 DEF EvidenceStates
    <3>3. Record(cmd.task, Att(cmd.task), new) \/ UNCHANGED evidence
      BY <2>2 DEF ArchiveFail
    <3> HIDE DEF new
    <3> QED
      BY <1>1, <3>1, <3>2, <3>3, RecordKeeps
  <2>3. CASE BindFailSource
    <3> DEFINE new == [Ev(cmd.task) EXCEPT !.source = cmd.patch, !.worker = note[cmd.task].by]
    <3>1. cmd.task \in Task
      BY <1>5, <2>3 DEF BindFailSource, At
    <3>2. Ev(cmd.task).closed \subseteq new.closed
      BY <1>2, <3>1 DEF EvidenceStates
    <3>3. Record(cmd.task, Att(cmd.task), new)
      BY <2>3 DEF BindFailSource
    <3> HIDE DEF new
    <3> QED
      BY <3>1, <3>2, <3>3, RecordKeeps
  <2>4. ASSUME NEW verdict, Review(verdict) PROVE RecordsKept
    <3> DEFINE new == [Ev(cmd.task) EXCEPT !.review = verdict]
    <3>1. cmd.task \in Task
      BY <1>5, <2>4 DEF Review, At
    <3>2. Ev(cmd.task).closed \subseteq new.closed
      BY <1>2, <3>1 DEF EvidenceStates
    <3>3. Record(cmd.task, Att(cmd.task), new)
      BY <2>4 DEF Review
    <3> HIDE DEF new
    <3> QED
      BY <3>1, <3>2, <3>3, RecordKeeps
  <2> QED
    BY <1>1, <1>6, <2>1, <2>2, <2>3, <2>4 DEF CloseStep, GateFails, GateDrifts, GatePasses,
       Stage, CachedCheckFails, CommitFails, CommitStaged, WriteFailCompletion, WriteFailState,
       AcceptancePends, BeginSeal, SealStep, SealCompletion, SealHandoff, SealManifest, Promote,
       recordVars
<1>7. CASE RetryStep
  <2>1. CASE CopyFailCompletion
    <3> DEFINE new == [Ev(cmd.task) EXCEPT !.failCopy = TRUE]
    <3>1. cmd.task \in Task
      BY <1>5, <2>1 DEF CopyFailCompletion, At
    <3>2. Ev(cmd.task).closed \subseteq new.closed
      BY <1>2, <3>1 DEF EvidenceStates
    <3>3. Record(cmd.task, Att(cmd.task), new)
      BY <2>1 DEF CopyFailCompletion
    <3> HIDE DEF new
    <3> QED
      BY <3>1, <3>2, <3>3, RecordKeeps
  <2>2. CASE CopyNote
    <3> DEFINE new == [Ev(cmd.task) EXCEPT !.noteCopy = @ \/ Ev(cmd.task).worker # 0]
    <3>1. cmd.task \in Task
      BY <1>5, <2>2 DEF CopyNote, At
    <3>2. Ev(cmd.task).closed \subseteq new.closed
      BY <1>2, <3>1 DEF EvidenceStates
    <3>3. Record(cmd.task, Att(cmd.task), new)
      BY <2>2 DEF CopyNote
    <3> HIDE DEF new
    <3> QED
      BY <3>1, <3>2, <3>3, RecordKeeps
  <2>3. CASE CopyRejectedNote
    <3> DEFINE new == [Ev(cmd.task) EXCEPT !.noteCopy = TRUE]
    <3>1. cmd.task \in Task
      BY <1>5, <2>3 DEF CopyRejectedNote, At
    <3>2. Ev(cmd.task).closed \subseteq new.closed
      BY <1>2, <3>1 DEF EvidenceStates
    <3>3. Record(cmd.task, Att(cmd.task), new)
      BY <2>3 DEF CopyRejectedNote
    <3> HIDE DEF new
    <3> QED
      BY <3>1, <3>2, <3>3, RecordKeeps
  <2> QED
    BY <1>1, <1>7, <2>1, <2>2, <2>3 DEF RetryStep, ReopenAbandoned, ReleaseSlot, ReleaseNote,
       HalfReset, Reset, ReopenFailed, ReleaseRejectedNote, MoveRef, HalfRetire, Retire,
       ReopenRejected, recordVars
<1>8. CASE RecoverStep
  BY <1>1, <1>8 DEF RecoverStep, RecoverSeal, RecoverSealStep, SealCompletion, SealHandoff,
     SealManifest, RecoverWrite, recordVars
<1>9. CASE WorkerStep \/ Crash \/ OutsideEdit \/ OutsideCommit
  BY <1>1, <1>9 DEF WorkerStep, WorkerEdits, WorkerReports, WorkerExits, Crash, OutsideEdit,
     OutsideCommit, recordVars
<1> QED
  BY <1>3, <1>4, <1>6, <1>7, <1>8, <1>9 DEF Next, CommandStep

\* A task that is rewritten with as many attempts and without becoming READY.
LEMMA RewriteKeeps ==
  ASSUME HistoryInv, NEW t \in Task, NEW new, SetTask(t, new),
         new.attempts = Att(t), new.status # "READY"
  PROVE  AttemptsKept
  BY DEF HistoryInv, RuntimeInv, TypeOK, StateTypes, AttemptsKept, SetTask, Att, Status

\* Only an attempt that starts is counted, and only a reopening makes a task READY.
LEMMA AttemptsStay ==
  HistoryInv /\ Next => AttemptsKept \/ OnStarted
                          \/ ReopenAbandoned \/ ReopenFailed \/ ReopenRejected
<1> SUFFICES ASSUME HistoryInv, Next,
                    ~OnStarted, ~ReopenAbandoned, ~ReopenFailed, ~ReopenRejected
             PROVE  AttemptsKept
  OBVIOUS
<1>1. ASSUME UNCHANGED tasks PROVE AttemptsKept
  BY <1>1 DEF AttemptsKept, Att, Status
<1>2. ASSUME NEW t \in Task PROVE tasks[t] \in TaskStates
  BY DEF HistoryInv, RuntimeInv, TypeOK, StateTypes
<1>3. CASE StartCommand
  BY <1>1, <1>3 DEF StartCommand, Recover, PrepareNextTask, Launch, Close, ResumeAcceptance,
     CaptureCandidate, StartGate, AdoptSealedFail, CloseDeclaredFailure, Retry,
     RecordAbandonment, ArchiveFailedAttempt, ResumeArchival, ArchiveRejectedCandidate, stateVars
<1>4. ASSUME ~At("idle"), ~At("recover") PROVE cmd.task \in Task
  BY <1>4 DEF At, HistoryInv, RuntimeInv, CommandInv
<1>5. CASE SpawnFails
  <2> DEFINE new == [tasks[cmd.task] EXCEPT !.status = "INFRA_ERROR", !.phase = "NONE"]
  <2>1. cmd.task \in Task /\ SetTask(cmd.task, new)
    BY <1>4, <1>5 DEF SpawnFails, At
  <2>2. new.attempts = Att(cmd.task) /\ new.status # "READY"
    BY <1>2, <2>1 DEF TaskStates, Att
  <2> HIDE DEF new
  <2> QED
    BY <2>1, <2>2, RewriteKeeps
<1>6. CASE Settle
  <2> DEFINE new == IF cmd.outcome = "FINISHED"
                      THEN [tasks[cmd.task] EXCEPT !.phase = "FINALIZING"]
                      ELSE [tasks[cmd.task] EXCEPT !.status = cmd.outcome, !.phase = "NONE"]
  <2>1. cmd.task \in Task /\ SetTask(cmd.task, new)
    BY <1>4, <1>6 DEF Settle, At
  <2>2. cmd.outcome \in {"FINISHED", "INFRA_ERROR", "TIMED_OUT"}
    BY <1>6 DEF Settle, At, HistoryInv, RuntimeInv, TypeOK, CommandInv, Commands
  <2>3. new.attempts = Att(cmd.task) /\ (new.status = "READY" => Status(cmd.task) = "READY")
    BY <1>2, <2>1, <2>2 DEF TaskStates, Att, Status
  <2> HIDE DEF new
  <2> QED
    BY <2>1, <2>3 DEF HistoryInv, RuntimeInv, TypeOK, StateTypes, AttemptsKept, SetTask, Att, Status
<1>7. CASE LaunchStep
  BY <1>1, <1>5, <1>6, <1>7 DEF LaunchStep, LaunchRefused, Spawn, OpenRecord, Terminated, stateVars
<1>8. CASE CloseStep
  <2>1. CASE WriteFailState
    <3> DEFINE new == [tasks[cmd.task] EXCEPT !.status = "FAIL", !.phase = "NONE",
                                              !.accepted = NoCommit]
    <3>1. cmd.task \in Task /\ SetTask(cmd.task, new)
      BY <1>4, <2>1 DEF WriteFailState, At
    <3>2. new.attempts = Att(cmd.task) /\ new.status # "READY"
      BY <1>2, <3>1 DEF TaskStates, Att
    <3> HIDE DEF new
    <3> QED
      BY <3>1, <3>2, RewriteKeeps
  <2>2. CASE Promote
    <3> DEFINE new == [tasks[cmd.task] EXCEPT !.status = "PASS", !.phase = "NONE",
                                              !.accepted = Ev(cmd.task).final]
    <3>1. cmd.task \in Task /\ (SetTask(cmd.task, new) \/ UNCHANGED tasks)
      BY <1>4, <2>2 DEF Promote, At, stateVars
    <3>2. new.attempts = Att(cmd.task) /\ new.status # "READY"
      BY <1>2, <3>1 DEF TaskStates, Att
    <3> HIDE DEF new
    <3> QED
      BY <1>1, <3>1, <3>2, RewriteKeeps
  <2> QED
    BY <1>1, <1>8, <2>1, <2>2 DEF CloseStep, GateFails, GateDrifts, GatePasses, Stage,
       CachedCheckFails, CommitFails, CommitStaged, WriteFinal, ArchiveFail, BindFailSource,
       WriteFailCompletion, Review, AcceptancePends, BeginSeal, SealStep, SealCompletion,
       SealHandoff, SealManifest, stateVars
<1>9. CASE RetryStep
  BY <1>1, <1>9 DEF RetryStep, CopyFailCompletion, CopyNote, ReleaseSlot, ReleaseNote,
     HalfReset, Reset, CopyRejectedNote, ReleaseRejectedNote, MoveRef, HalfRetire, Retire,
     stateVars
<1>10. CASE RecoverStep
  <2>1. CASE RecoverWrite
    <3>1. ASSUME NEW t \in Task
          PROVE  Reconciled(t).attempts = Att(t)
                 /\ (Reconciled(t).status = "READY" => Status(t) = "READY")
      BY <1>2 DEF Reconciled, TaskStates, Att, Status
    <3> QED
      BY <2>1, <3>1 DEF RecoverWrite, AttemptsKept, Att, Status
  <2> QED
    BY <1>1, <1>10, <2>1 DEF RecoverStep, RecoverSeal, RecoverSealStep, SealCompletion,
       SealHandoff, SealManifest, stateVars
<1>11. CASE WorkerStep \/ Crash \/ OutsideEdit \/ OutsideCommit
  BY <1>1, <1>11 DEF WorkerStep, WorkerEdits, WorkerReports, WorkerExits, Crash, OutsideEdit,
     OutsideCommit, stateVars
<1> QED
  BY <1>3, <1>7, <1>8, <1>9, <1>10, <1>11 DEF Next, CommandStep

--------------------------------------------------------------------------------
(* The running command.                                                    *)

\* A step leaves the command where it is, begins a launch, goes on with one,
\* begins a retry, goes on with one, or has nothing to do with either.
Elsewhere == cmd'.step \notin Starting \cup Reopening
BeginsRetry(t) ==
  \/ RecordAbandonment(t) \/ ArchiveFailedAttempt(t) \/ ResumeArchival(t)
  \/ ArchiveRejectedCandidate(t)
GoesOn(steps) ==
  cmd.step \in steps /\ cmd'.step \in steps /\ cmd'.task = cmd.task /\ UNCHANGED tasks

LEMMA Moves ==
  ASSUME HistoryInv, Next
  PROVE  \/ UNCHANGED <<tasks, cmd>>
         \/ Elsewhere
         \/ \E t \in Task : Launch(t) /\ cmd'.step = "spawn" /\ cmd'.task = t
         \/ \E t \in Task : BeginsRetry(t) /\ cmd'.step \in Reopening /\ cmd'.task = t
         \/ GoesOn(Starting)
         \/ GoesOn(Reopening)
<1> DEFINE Goal == \/ UNCHANGED <<tasks, cmd>>
                   \/ Elsewhere
                   \/ \E t \in Task : Launch(t) /\ cmd'.step = "spawn" /\ cmd'.task = t
                   \/ \E t \in Task : BeginsRetry(t) /\ cmd'.step \in Reopening /\ cmd'.task = t
                   \/ GoesOn(Starting)
                   \/ GoesOn(Reopening)
<1>0. cmd \in Commands
  BY DEF HistoryInv, RuntimeInv, TypeOK
<1>1. ASSUME NEW s, Goto(s) PROVE cmd'.step = s /\ cmd'.task = cmd.task
  BY <1>0, <1>1 DEF Goto, Commands
<1>2. ASSUME Finish PROVE Elsewhere
  BY <1>2 DEF Finish, Idle, Elsewhere, Starting, Reopening
<1>3. ASSUME NEW s, NEW t, Begin(s, t) PROVE cmd'.step = s /\ cmd'.task = t
  BY <1>3 DEF Begin, Idle
<1>4. ASSUME NEW t \in Task, PrepareNextTask(t) \/ Launch(t) \/ Close(t) \/ Retry(t) PROVE Goal
  <2>1. CASE PrepareNextTask(t)
    BY <2>1 DEF PrepareNextTask, stateVars
  <2>2. CASE Launch(t)
    BY <1>3, <2>2 DEF Launch
  <2>3. CASE Close(t)
    <3>1. ASSUME NEW r, ResumeAcceptance(t, r) \/ CaptureCandidate(t, r) \/ StartGate(t, r)
          PROVE  cmd'.step \in {"accept", "gate"}
      BY <3>1 DEF ResumeAcceptance, CaptureCandidate, StartGate, Idle
    <3>2. ASSUME AdoptSealedFail(t) \/ CloseDeclaredFailure(t)
          PROVE  cmd'.step \in {"failState", "failSlot"}
      BY <1>3, <3>2 DEF AdoptSealedFail, CloseDeclaredFailure
    <3>3. cmd'.step \in {"accept", "gate", "failState", "failSlot"}
      BY <2>3, <3>1, <3>2 DEF Close
    <3> QED
      BY <3>3 DEF Elsewhere, Starting, Reopening
  <2>4. CASE Retry(t)
    <3>1. CASE RecordAbandonment(t) \/ ResumeArchival(t)
      BY <1>3, <3>1 DEF RecordAbandonment, ResumeArchival, BeginsRetry, Reopening
    <3>2. CASE ArchiveFailedAttempt(t)
      <4>1. cmd'.step = "copyFail" /\ cmd'.task = t
        BY <3>2 DEF ArchiveFailedAttempt, Idle
      <4> QED
        BY <3>2, <4>1 DEF BeginsRetry, Reopening
    <3>3. CASE ArchiveRejectedCandidate(t)
      <4>1. cmd'.step = "copyRejectedNote" /\ cmd'.task = t
        BY <3>3 DEF ArchiveRejectedCandidate, Idle
      <4> QED
        BY <3>3, <4>1 DEF BeginsRetry, Reopening
    <3> QED
      BY <2>4, <3>1, <3>2, <3>3 DEF Retry
  <2> QED
    BY <1>4, <2>1, <2>2, <2>3, <2>4
<1>5. CASE Recover
  BY <1>3, <1>5 DEF Recover, Elsewhere, Starting, Reopening
<1>6. CASE LaunchStep
  <2>1. ASSUME NEW outcome, Terminated(outcome) PROVE cmd'.step = "settle"
    BY <1>0, <2>1 DEF Terminated, Commands
  <2>2. CASE Spawn \/ OpenRecord
    BY <1>1, <2>2 DEF Spawn, OpenRecord, At, GoesOn, Starting, stateVars
  <2>3. CASE LaunchRefused \/ SpawnFails \/ OnStarted \/ Settle
    BY <1>1, <1>2, <2>3 DEF LaunchRefused, SpawnFails, OnStarted, Settle, Elsewhere, Starting,
       Reopening
  <2> QED
    BY <1>6, <2>1, <2>2, <2>3 DEF LaunchStep, Elsewhere, Starting, Reopening
<1>7. CASE CloseStep
  <2>1. CASE CommitStaged
    <3>1. cmd'.step = "record"
      BY <1>0, <2>1 DEF CommitStaged, Commands
    <3> QED
      BY <3>1 DEF Elsewhere, Starting, Reopening
  <2>2. CASE ArchiveFail
    <3>1. Finish \/ cmd'.step = "failBind"
      BY <1>0, <2>2 DEF ArchiveFail, Commands
    <3> QED
      BY <1>2, <3>1 DEF Elsewhere, Starting, Reopening
  <2>3. ASSUME NEW verdict, Review(verdict) PROVE UNCHANGED <<tasks, cmd>>
    BY <2>3 DEF Review, stateVars
  <2>4. CASE GateFails \/ GateDrifts \/ GatePasses \/ Stage \/ CachedCheckFails \/ CommitFails
    BY <1>1, <1>2, <2>4 DEF GateFails, GateDrifts, GatePasses, Stage, CachedCheckFails,
       CommitFails, Elsewhere, Starting, Reopening
  <2>5. CASE WriteFinal \/ BindFailSource \/ WriteFailCompletion \/ WriteFailState
    BY <1>1, <1>2, <2>5 DEF WriteFinal, BindFailSource, WriteFailCompletion, WriteFailState,
       Elsewhere, Starting, Reopening
  <2>6. CASE AcceptancePends \/ BeginSeal \/ SealStep \/ Promote
    BY <1>1, <1>2, <2>6 DEF AcceptancePends, BeginSeal, SealStep, SealCompletion, SealHandoff,
       SealManifest, Promote, Elsewhere, Starting, Reopening
  <2> QED
    BY <1>7, <2>1, <2>2, <2>3, <2>4, <2>5, <2>6 DEF CloseStep
<1>8. CASE RetryStep
  <2>1. CASE ReopenAbandoned \/ ReopenFailed \/ ReopenRejected
    BY <1>2, <2>1 DEF ReopenAbandoned, ReopenFailed, ReopenRejected
  <2>2. CASE CopyFailCompletion \/ CopyNote \/ ReleaseSlot \/ ReleaseNote
    BY <1>1, <2>2 DEF CopyFailCompletion, CopyNote, ReleaseSlot, ReleaseNote, At, GoesOn,
       Reopening, stateVars
  <2>3. CASE HalfReset \/ Reset \/ HalfRetire \/ Retire
    BY <1>1, <1>2, <2>3 DEF HalfReset, Reset, HalfRetire, Retire, At, GoesOn, Reopening, stateVars
  <2>4. CASE CopyRejectedNote \/ ReleaseRejectedNote \/ MoveRef
    BY <1>1, <1>2, <2>4 DEF CopyRejectedNote, ReleaseRejectedNote, MoveRef, At, GoesOn,
       Reopening, stateVars
  <2> QED
    BY <1>8, <2>1, <2>2, <2>3, <2>4 DEF RetryStep
<1>9. CASE RecoverStep
  <2>1. ASSUME Refused \/ Promoted \/ RecoverSeal
        PROVE  cmd'.step \in {"recover", "recoverCompletion"}
    BY <1>0, <2>1 DEF Refused, Promoted, RecoverSeal, Commands
  <2> QED
    BY <1>1, <1>2, <1>9, <2>1 DEF RecoverStep, RecoverSealStep, SealCompletion, SealHandoff,
       SealManifest, RecoverWrite, Elsewhere, Starting, Reopening
<1>10. CASE WorkerStep \/ Crash \/ OutsideEdit \/ OutsideCommit
  BY <1>2, <1>10 DEF WorkerStep, WorkerEdits, WorkerReports, WorkerExits, Crash, OutsideEdit,
     OutsideCommit, stateVars
<1> HIDE DEF Goal
<1>11. Goal
  BY <1>4, <1>5, <1>6, <1>7, <1>8, <1>9, <1>10 DEF Next, StartCommand, CommandStep, Goal
<1> QED
  BY <1>11 DEF Goal

\* A launch goes from its guards to its attempt while its task stays READY.
LEMMA StartsStayReady == HistoryInv /\ Next => StartsReady'
<1> SUFFICES ASSUME HistoryInv, Next PROVE StartsReady'
  OBVIOUS
<1>1. CASE Elsewhere
  BY <1>1 DEF Elsewhere, StartsReady
<1>2. CASE UNCHANGED <<tasks, cmd>> \/ GoesOn(Starting)
  BY <1>2 DEF HistoryInv, StartsReady, Status, GoesOn
<1>3. ASSUME NEW t \in Task, Launch(t), cmd'.task = t PROVE StartsReady'
  BY <1>3 DEF Launch, StartsReady, Status, stateVars
<1>4. ASSUME cmd'.step \in Reopening PROVE StartsReady'
  BY <1>4 DEF Reopening, Starting, StartsReady
<1> QED
  BY <1>1, <1>2, <1>3, <1>4, Moves DEF GoesOn

\* A retry closes the attempt in its first step, and nothing opens it again.
LEMMA ReopensStayClosed == HistoryInv /\ RuntimeInv' /\ Next => ReopensClosed'
<1> SUFFICES ASSUME HistoryInv, RuntimeInv', Next PROVE ReopensClosed'
  OBVIOUS
<1>1. CASE Elsewhere
  BY <1>1 DEF Elsewhere, ReopensClosed
<1>2. ASSUME cmd.step \in Reopening, UNCHANGED tasks, cmd'.task = cmd.task
      PROVE  ReopensClosed'
  <2>1. cmd.task \in Task /\ Ev(cmd.task).closed # {}
    BY <1>2 DEF HistoryInv, RuntimeInv, CommandInv, ReopensClosed, Reopening
  <2>2. AttemptsKept
    BY <1>2 DEF AttemptsKept, Att, Status
  <2>3. \A t \in Task : Ev(t).closed # {} => Ev(t)'.closed # {}
    BY <2>2, HistoryKept, RecordsGrow
  <2>4. Ev(cmd.task)' = (IF tasks'[cmd'.task].attempts = 0 THEN NoEvidence
                         ELSE evidence'[cmd'.task][tasks'[cmd'.task].attempts])
    BY DEF Ev, Att
  <2> QED
    BY <1>2, <2>1, <2>3, <2>4 DEF ReopensClosed, Ev, Att
<1>3. ASSUME cmd'.step \notin Reopening PROVE ReopensClosed'
  BY <1>3 DEF ReopensClosed
<1>4. ASSUME NEW t \in Task, BeginsRetry(t), cmd'.task = t PROVE ReopensClosed'
  <2>1. UNCHANGED tasks /\ Att(t) > 0
    BY <1>4, EvWhere DEF BeginsRetry, RecordAbandonment, ArchiveFailedAttempt, ResumeArchival,
       ArchiveRejectedCandidate, Abandonable, FailedSourceLoads, RejectedCandidate, Finalizing,
       HistoryInv, RuntimeInv, RecordInv, stateVars
  <2>2. Att(t) \in Attempt /\ Ev(t) = evidence[t][Att(t)] /\ Ev(t) \in EvidenceStates
    BY <2>1, EvWhere, EvTypes DEF HistoryInv, RuntimeInv
  <2>3. evidence'[t][Att(t)].closed # {}
    <3>1. CASE ResumeArchival(t)
      BY <2>2, <3>1 DEF ResumeArchival, Archived, recordVars
    <3>2. ASSUME NEW how, CloseAttempt(t, how) PROVE evidence'[t][Att(t)].closed # {}
      <4> DEFINE new == [Ev(t) EXCEPT !.closed = @ \cup {how}]
      <4>1. new.closed # {}
        BY <2>2 DEF EvidenceStates
      <4>2. Record(t, Att(t), new)
        BY <3>2 DEF CloseAttempt
      <4> HIDE DEF new
      <4> QED
        BY <2>2, <4>1, <4>2 DEF Record, HistoryInv, RuntimeInv, TypeOK, RecordTypes
    <3> QED
      BY <1>4, <3>1, <3>2 DEF BeginsRetry, RecordAbandonment, ArchiveFailedAttempt,
         ArchiveRejectedCandidate
  <2> QED
    BY <1>4, <2>1, <2>3 DEF ReopensClosed, Ev, Att
<1>5. CASE UNCHANGED <<tasks, cmd>>
  BY <1>2, <1>3, <1>5
<1> QED
  BY <1>1, <1>2, <1>3, <1>4, <1>5, Moves DEF GoesOn, Reopening, Starting

--------------------------------------------------------------------------------
(* The theorem.                                                            *)

\* A task whose attempt starts was READY, hence closed; one that is reopened
\* has just been closed; for every other step history is kept.
LEMMA StepHistory == HistoryInv /\ [Next]_vars => HistoryInv'
<1> SUFFICES ASSUME HistoryInv, [Next]_vars PROVE HistoryInv'
  OBVIOUS
<1>1. RuntimeInv'
  BY StepRuntime DEF HistoryInv
<1>2. CASE UNCHANGED vars
  BY <1>1, <1>2 DEF vars, stateVars, recordVars, HistoryInv, SupersededAttemptsClosed,
     StartsReady, ReopensClosed, Att, Status, Ev
<1>3. CASE Next
  <2>1. StartsReady' /\ ReopensClosed' /\ RecordsKept
    BY <1>1, <1>3, StartsStayReady, ReopensStayClosed, RecordsGrow
  <2>2. CASE AttemptsKept
    BY <1>1, <2>1, <2>2, HistoryKept DEF HistoryInv
  <2>3. CASE OnStarted
    <3>1. cmd.task \in Task /\ Status(cmd.task) = "READY"
      BY <2>3 DEF OnStarted, At, HistoryInv, RuntimeInv, CommandInv, StartsReady, Starting
    <3>2. /\ Att(cmd.task) \in Nat
          /\ tasks'[cmd.task].attempts = Att(cmd.task) + 1
          /\ tasks'[cmd.task].status = "RUNNING"
          /\ \A t \in Task \ {cmd.task} : tasks'[t] = tasks[t]
      BY <2>3, <3>1, EvWhere DEF OnStarted, SetTask, HistoryInv, RuntimeInv, TypeOK, StateTypes
    <3>3. SupersededAttemptsClosed'
      BY <2>1, <3>1, <3>2 DEF SupersededAttemptsClosed, HistoryInv, RecordsKept, Att, Status,
         Attempt
    <3> QED
      BY <1>1, <2>1, <3>3 DEF HistoryInv
  <2>4. CASE ReopenAbandoned \/ ReopenFailed \/ ReopenRejected
    <3>1. cmd.task \in Task /\ Ev(cmd.task).closed # {} /\ UNCHANGED evidence
          /\ SetTask(cmd.task, Reopened(cmd.task))
      BY <2>4 DEF ReopenAbandoned, ReopenFailed, ReopenRejected, At, HistoryInv, RuntimeInv,
         CommandInv, ReopensClosed, Reopening, recordVars
    <3>2. Att(cmd.task) \in Attempt /\ Ev(cmd.task) = evidence[cmd.task][Att(cmd.task)]
      BY <3>1, EvWhere DEF HistoryInv, NoEvidence
    <3>3. /\ tasks'[cmd.task].attempts = Att(cmd.task)
          /\ \A t \in Task \ {cmd.task} : tasks'[t] = tasks[t]
      BY <3>1 DEF SetTask, Reopened, HistoryInv, RuntimeInv, TypeOK, StateTypes, TaskStates, Att
    <3>4. SupersededAttemptsClosed'
      BY <3>1, <3>2, <3>3 DEF SupersededAttemptsClosed, HistoryInv, Att, Status
    <3> QED
      BY <1>1, <2>1, <3>4 DEF HistoryInv
  <2> QED
    BY <1>3, <2>2, <2>3, <2>4, AttemptsStay
<1> QED
  BY <1>2, <1>3

\* In every reachable state, whatever crashes and edits happen, each attempt
\* before the current one, and the current one of a READY task, has a record of
\* how it ended.
THEOREM HistoryClosed == Spec => []SupersededAttemptsClosed
<1>1. Init => HistoryInv
  <2> SUFFICES ASSUME Init PROVE HistoryInv
    OBVIOUS
  <2>1. SupersededAttemptsClosed
    BY BoundAssumption DEF Init, SupersededAttemptsClosed, Att, Status, InitialTask, Attempt
  <2>2. StartsReady /\ ReopensClosed
    BY DEF Init, StartsReady, ReopensClosed, Idle, Starting, Reopening
  <2> QED
    BY <2>1, <2>2, InitRuntime DEF HistoryInv
<1>2. HistoryInv => SupersededAttemptsClosed
  BY DEF HistoryInv
<1> QED
  BY <1>1, <1>2, StepHistory, PTL DEF Spec
================================================================================
