------------------------------ MODULE RuntimeState ------------------------------
(***************************************************************************)
(* What the harness commands of src/dev share: state.json, the records of  *)
(* each task, the inbox, the git repository they accept commits into, the  *)
(* worker processes, and the one command that is running (commands are     *)
(* serialised; HarnessLock is about that).  Every durable write is a step  *)
(* of its own, so that a command can die between any two of them.          *)
(***************************************************************************)
EXTENDS Integers, Sequences, FiniteSets

CONSTANTS
  NumTasks,     \* tasks of the plan, in plan order
  Deps,         \* blocked_by: the tasks each task depends on
  NumPatches,   \* contents the working tree can be given
  Touches,      \* the set of files each patch changes, numbered
  PatchesOf,    \* the patches the workers of each task may write
  Reviewing,    \* whether some runs demand an independent review
  MaxAttempts, MaxCrashes, MaxEdits, MaxOutsideCommits   \* bounds of the model

Task    == 1..NumTasks
Attempt == 1..MaxAttempts
Patch   == 1..NumPatches

\* PlanFile: dependencies exist and form no cycle; they may come later in the plan.
ASSUME PlanAssumption ==
  /\ NumTasks \in Nat \ {0}
  /\ Deps \in [Task -> SUBSET Task]
  /\ \E rank \in [Task -> Task] : \A t \in Task : \A d \in Deps[t] : rank[d] < rank[t]

ASSUME WorkAssumption ==
  /\ NumPatches \in Nat \ {0}
  /\ Touches \in [Patch -> Nat \ {0}]
  /\ PatchesOf \in [Task -> (SUBSET Patch) \ {{}}]
  /\ Reviewing \in BOOLEAN

ASSUME BoundAssumption ==
  /\ MaxAttempts \in Nat \ {0}
  /\ MaxCrashes \in Nat
  /\ MaxEdits \in Nat
  /\ MaxOutsideCommits \in Nat

VARIABLES
  tasks,       \* state.json: the TaskState of each task
  authorized,  \* state.json: authorized_head_sha
  packet,      \* base_sha of the persisted TaskPacket of each task
  launch,      \* LaunchRecord of each task (one slot per task)
  completion,  \* CompletionRecord of each task (one slot per task)
  handoff,     \* accepted_commit of each sealed HandoffRecord
  manifest,    \* accepted_commit of each CloseManifest
  evidence,    \* the append-only records of each attempt of each task
  note,        \* the report and handoff draft in the inbox of each task
  spawned,     \* the task of every worker process born; a pid is an index
  live,        \* the pids that are alive
  log,         \* every commit made over the baseline; a commit is an index
  head,        \* HEAD
  tree,        \* working tree against HEAD: 0 clean, p a patch, -p half of p
  staged,      \* index against HEAD: 0 empty, otherwise a content
  cmd,         \* the running command: its step and what it holds in memory
  crashes, edits, foreign   \* how often the environment has interfered

stateVars  == <<tasks, authorized>>
recordVars == <<packet, launch, completion, handoff, manifest, evidence>>
workerVars == <<note, spawned, live>>
repoVars   == <<log, head, tree, staged>>
envVars    == <<crashes, edits, foreign>>
vars == <<stateVars, recordVars, workerVars, repoVars, cmd, envVars>>

NoCommit == -1
Baseline == 0
Commit   == 0..Len(log)
Content  == -NumPatches..NumPatches
Pid      == 1..Len(spawned)

InitialTask == [status |-> "READY", phase |-> "NONE", attempts |-> 0,
                process |-> 0, base |-> NoCommit, accepted |-> NoCommit]
NoLaunch     == [process |-> 0, finished |-> FALSE]
NoCompletion == [verdict |-> "NONE", attempt |-> 0, commit |-> NoCommit, gate |-> FALSE]
NoNote       == [by |-> 0, says |-> "NOTHING"]
NoEvidence   == [archive |-> FALSE, source |-> 0, final |-> NoCommit, measured |-> 0,
                 required |-> FALSE, review |-> "NONE", worker |-> 0,
                 closed |-> {}, failCopy |-> FALSE, noteCopy |-> FALSE]
Idle         == [step |-> "idle", task |-> 1, patch |-> 0, candidate |-> NoCommit,
                 outcome |-> "NONE", reviewed |-> FALSE, promoted |-> {}]

Init ==
  /\ tasks = [t \in Task |-> InitialTask]
  /\ authorized = Baseline
  /\ packet = [t \in Task |-> NoCommit]
  /\ launch = [t \in Task |-> NoLaunch]
  /\ completion = [t \in Task |-> NoCompletion]
  /\ handoff = [t \in Task |-> NoCommit]
  /\ manifest = [t \in Task |-> NoCommit]
  /\ evidence = [t \in Task |-> [a \in Attempt |-> NoEvidence]]
  /\ note = [t \in Task |-> NoNote]
  /\ spawned = <<>>
  /\ live = {}
  /\ log = <<>>
  /\ head = Baseline
  /\ tree = 0
  /\ staged = 0
  /\ cmd = Idle
  /\ crashes = 0
  /\ edits = 0
  /\ foreign = 0

--------------------------------------------------------------------------------
(* Reading the shared state.                                               *)

Status(t) == tasks[t].status
Att(t)    == tasks[t].attempts
Finalizing(t) == Status(t) = "RUNNING" /\ tasks[t].phase = "FINALIZING"
OtherRunning(t) == \E u \in Task \ {t} : Status(u) = "RUNNING"

\* The records of the attempt state.json is at; none before the first one.
Ev(t) == IF Att(t) = 0 THEN NoEvidence ELSE evidence[t][Att(t)]
HasFinal(t) == Ev(t).final # NoCommit

Parent(c) == log[c].parent
FilesIn(content) == IF content \in Patch THEN {Touches[content]} ELSE {content}
FilesOfCommit(c) == IF c = Baseline THEN {} ELSE FilesIn(log[c].content)

\* isWorkingTreeClean: git status --porcelain shows the tree and the index.
TreeClean == tree = 0 /\ staged = 0

\* inspectProgressionBase: what a selection and a launch demand.
BaseOk == TreeClean /\ head = authorized

\* deriveAuthorizedHead: the accepted commit of the last PASS to finish.
\* Commits of tasks are made and finalized one after another, so the last to
\* finish is the youngest.
DerivedHead(ts) ==
  LET accepted == {ts[t].accepted : t \in {u \in Task : ts[u].status = "PASS"}}
  IN IF accepted = {} THEN Baseline ELSE CHOOSE c \in accepted : \A d \in accepted : d <= c

\* selectNextTask: halt on a blocked task, wait for a running one, otherwise
\* the first READY task in plan order whose dependencies all passed.
Blocking == {"FAIL", "INFRA_ERROR", "TIMED_OUT"}
EligibleAtOnce(t) == Status(t) = "READY"
Eligible(t) == Status(t) = "READY" /\ \A d \in Deps[t] : Status(d) = "PASS"
Selected(t) ==
  /\ \A u \in Task : Status(u) \notin Blocking \cup {"RUNNING"}
  /\ Eligible(t)
  /\ \A u \in Task : u < t => ~Eligible(u)

--------------------------------------------------------------------------------
(* Moving a command from step to step and writing the shared state.        *)

At(s) == cmd.step = s
Goto(s) == cmd' = [cmd EXCEPT !.step = s]
Begin(s, t) == At("idle") /\ cmd' = [Idle EXCEPT !.step = s, !.task = t]
Finish == cmd' = Idle

\* withTaskState and writeState: one atomic replacement of state.json.
SetTask(t, new) == tasks' = [tasks EXCEPT ![t] = new]

\* The append-only records of attempt a of task t.
Record(t, a, new) == evidence' = [evidence EXCEPT ![t][a] = new]
================================================================================
