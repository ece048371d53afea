---------------------------- MODULE TaskRuntimeBoard ----------------------------
(***************************************************************************)
(* The harness implements the board of TaskBoard, and hands the youngest   *)
(* accepted commit to the next task, for any plan, any patches and any     *)
(* bounds: each of its steps is a step of the board or leaves the board    *)
(* alone, and at most one candidate of a task still to be accepted lies    *)
(* above the accepted work.                                                *)
(***************************************************************************)
EXTENDS TaskRuntimeLine

\* The youngest accepted commit.
Tip == DerivedHead(tasks)

\* A task that keeps the others from starting.
Engaged(t) == Status(t) \in Blocking \cup {"RUNNING"}

\* The selection of a task holds, whatever has become of it since.
Chosen(t) ==
  /\ \A u \in Task \ {t} : ~Engaged(u)
  /\ \A d \in Deps[t] : Status(d) = "PASS"
  /\ \A u \in Task : u < t => ~Eligible(u)

\* A packet was prepared at an anchor, and for the task to work on as long as
\* its base is the tip, which is where every engaged task has started.
PacketHolds(t) ==
  /\ packet[t] \in Anchors \cup {NoCommit}
  /\ packet[t] = Tip /\ Status(t) # "PASS" => Chosen(t)
  /\ Engaged(t) => packet[t] = Tip
  /\ Status(t) = "RUNNING" => tasks[t].base = packet[t]

BoardInv ==
  /\ LineInv
  /\ \A t \in Task : PacketHolds(t)
  /\ cmd.step \in Starting => packet[cmd.task] = Tip

--------------------------------------------------------------------------------
(* The tip.                                                                *)

\* The derived head is the greatest accepted commit of the states it is given.
LEMMA HeadOf ==
  ASSUME NEW n \in Nat, NEW ts, NEW A \in SUBSET (0..n),
         A = {ts[t].accepted : t \in {u \in Task : ts[u].status = "PASS"}}
  PROVE  /\ DerivedHead(ts) \in A \cup {Baseline}
         /\ \A c \in A \cup {Baseline} : c <= DerivedHead(ts)
<1>1. CASE A = {}
  BY <1>1 DEF DerivedHead, Baseline
<1>2. CASE A # {}
  <2>1. DerivedHead(ts) = CHOOSE c \in A : \A d \in A : d <= c
    BY <1>2 DEF DerivedHead
  <2>2. \E c \in A : \A d \in A : d <= c
    BY <1>2, Largest
  <2>3. DerivedHead(ts) \in A /\ \A c \in A : c <= DerivedHead(ts)
    BY <2>1, <2>2
  <2> QED
    BY <2>3 DEF Baseline
<1> QED
  BY <1>1, <1>2

LEMMA AnchorsPlace == ASSUME SealedInv PROVE Anchors \subseteq Commit /\ Len(log) \in Nat
<1>1. \A t \in Accepted : HasFinal(t) /\ tasks[t].accepted = Ev(t).final
  BY DEF Accepted, SealedInv, TaskInv
<1> QED
  BY <1>1, FinalPlace DEF Anchors, AcceptedCommits, Accepted, Commit, Baseline, SealedInv,
     HistoryInv, RuntimeInv, TypeOK, RepoTypes

LEMMA TipTops ==
  ASSUME SealedInv
  PROVE  Tip \in Anchors /\ Tip \in Nat /\ \A c \in Anchors : c \in Nat /\ c <= Tip
<1>1. AcceptedCommits \subseteq 0..Len(log) /\ Len(log) \in Nat
  BY AnchorsPlace DEF Anchors, Commit
<1>2. AcceptedCommits = {tasks[t].accepted : t \in {u \in Task : tasks[u].status = "PASS"}}
  BY DEF AcceptedCommits, Accepted, Status
<1>3. PICK A : A = AcceptedCommits
  OBVIOUS
<1>4. PICK d : d = DerivedHead(tasks)
  OBVIOUS
<1>5. d \in A \cup {Baseline} /\ \A c \in A \cup {Baseline} : c <= d
  BY <1>1, <1>2, <1>3, <1>4, HeadOf
<1>6. Tip = d
  BY <1>4 DEF Tip
<1> QED
  BY <1>1, <1>3, <1>5, <1>6 DEF Anchors, Baseline

\* The same of the next state.
LEMMA NextTip ==
  ASSUME SealedInv'
  PROVE  Tip' \in Anchors' /\ Tip' \in Nat /\ \A c \in Anchors' : c \in Nat /\ c <= Tip'
<1>1. AcceptedCommits' \subseteq 0..Len(log') /\ Len(log') \in Nat
  <2>1. \A t \in Accepted' : HasFinal(t)' /\ tasks'[t].accepted = Ev(t)'.final
    BY DEF Accepted, SealedInv, TaskInv
  <2>2. Len(log') \in Nat /\ \A t \in Accepted' : tasks'[t].accepted \in CommitOrNone'
    BY DEF SealedInv, HistoryInv, RuntimeInv, TypeOK, RepoTypes, StateTypes, TaskStates, Accepted
  <2> QED
    BY <2>1, <2>2 DEF AcceptedCommits, HasFinal, CommitOrNone, Commit
<1>2. AcceptedCommits' = {tasks'[t].accepted : t \in {u \in Task : tasks'[u].status = "PASS"}}
  BY DEF AcceptedCommits, Accepted, Status
<1>3. Tip' = DerivedHead(tasks')
  BY DEF Tip, DerivedHead
<1>4. PICK A : A = AcceptedCommits'
  OBVIOUS
<1>5. Tip' \in A \cup {Baseline} /\ \A c \in A \cup {Baseline} : c <= Tip'
  BY <1>1, <1>2, <1>3, <1>4, HeadOf
<1> QED
  BY <1>1, <1>4, <1>5 DEF Anchors, Baseline

\* Anchors are on the line that ends at HEAD.
LEMMA AnchorsOnLine ==
  ASSUME LineInv, NEW L, LineOf(L), HoldsStanding(L)
  PROVE  Anchors \subseteq L
<1>1. \A t \in Accepted : t \in Task /\ Standing(t) /\ tasks[t].accepted = Ev(t).final
  BY DEF Accepted, LineInv, SealedInv, TaskInv, Standing, HasFinal, Rejected, ReviewGrants
<1> QED
  BY <1>1 DEF Anchors, AcceptedCommits, LineOf, HoldsStanding

\* A clean checkout whose HEAD is the authorized base is at the tip.
LEMMA BaseAtTip == ASSUME LineInv, head = authorized PROVE head = Tip
<1>1. PICK L \in SUBSET Commit : LineOf(L) /\ HoldsStanding(L)
  BY DEF LineInv
<1>2. Tip \in Anchors /\ Tip \in Nat /\ \A c \in Anchors : c \in Nat /\ c <= Tip
  BY TipTops DEF LineInv
<1>3. Tip <= head /\ head <= Tip /\ head \in Nat
  BY <1>1, <1>2, AnchorsOnLine DEF LineOf, LineInv
<1> QED
  BY <1>2, <1>3

\* On the line there is nothing below the tip but anchors.
LEMMA BelowTip ==
  ASSUME LineInv, NEW L, LineOf(L), HoldsStanding(L), NEW k \in L, k <= Tip
  PROVE  k \in Anchors
<1>1. Anchors \subseteq L /\ L \subseteq 0..Len(log) /\ Len(log) \in Nat
  BY AnchorsOnLine, AnchorsPlace DEF LineInv, LineOf, Commit
<1>2. Tip \in Anchors /\ Tip \in Nat
  BY TipTops DEF LineInv
<1> DEFINE S == {a \in Anchors : k <= a}
<1>3. PICK a \in S : \A b \in S : a <= b
  <2>1. Anchors \subseteq Nat
    BY <1>1
  <2>2. S \in SUBSET Nat /\ Tip \in S
    BY <1>2, <2>1
  <2> HIDE DEF S
  <2> QED
    BY <2>2, Smallest
<1>4. CASE a = k
  BY <1>4
<1>5. CASE a # k
  <2>1. a \in L \ {Baseline} /\ k < a /\ a \in Nat /\ k \in Nat
    BY <1>1, <1>5 DEF Baseline
  <2>2. Parent(a) \in L /\ Parent(a) < a /\ k <= Parent(a)
    BY <2>1 DEF LineOf
  <2>3. Parent(a) \in Anchors
    <3>1. PICK t \in Accepted : a = tasks[t].accepted
      BY <2>1 DEF Anchors, AcceptedCommits
    <3>2. t \in Task /\ HasFinal(t) /\ a = Ev(t).final
      BY <3>1 DEF Accepted, LineInv, SealedInv, TaskInv
    <3> QED
      BY <3>2 DEF LineInv, FinalsAnchored
  <2>4. Anchors \subseteq Nat
    BY <1>1
  <2>5. Parent(a) \in S /\ Parent(a) \in Nat
    BY <2>2, <2>3, <2>4
  <2> QED
    BY <1>3, <2>1, <2>2, <2>5
<1> QED
  BY <1>4, <1>5

\* What is still to be accepted is above the tip.
LEMMA AboveTip ==
  ASSUME LineInv, NEW t \in Task, Standing(t), Status(t) # "PASS"
  PROVE  Ev(t).final \in Nat /\ Tip < Ev(t).final
<1>1. PICK L \in SUBSET Commit : LineOf(L) /\ HoldsStanding(L)
  BY DEF LineInv
<1>2. HasFinal(t) /\ Ev(t).final \in L /\ Ev(t).final \in Nat /\ Ev(t).final # Baseline
  BY <1>1, FinalPlace DEF Standing, HoldsStanding, LineInv, Baseline
<1>3. Ev(t).final \notin Anchors
  <2>1. ASSUME NEW u \in Accepted, Ev(t).final = tasks[u].accepted PROVE FALSE
    <3>1. u \in Task /\ HasFinal(u) /\ Ev(u).final = Ev(t).final /\ u # t
      BY <2>1 DEF Accepted, LineInv, SealedInv, TaskInv
    <3> QED
      BY <1>2, <3>1 DEF LineInv, FinalsAnchored
  <2> QED
    BY <1>2, <2>1 DEF Anchors, AcceptedCommits
<1>4. Tip \in Nat
  BY TipTops DEF LineInv
<1> QED
  BY <1>1, <1>2, <1>3, <1>4, BelowTip

--------------------------------------------------------------------------------
(* What a step does to the state of a task.                                *)

ToStart(t) == cmd.step \in Starting /\ cmd.task = t
SameBase(t) == tasks'[t].base = tasks[t].base

Starts(t) == ToStart(t) /\ Status(t)' = "RUNNING" /\ tasks'[t].base = packet[t]
Settles(t) == /\ Status(t) = "RUNNING" /\ Status(t)' = "RUNNING" /\ SameBase(t)
              /\ tasks'[t].phase \in {tasks[t].phase, "FINALIZING"}
Blocks(t) == /\ \/ ToStart(t)
                \/ Status(t) = "RUNNING" /\ (tasks[t].phase = "EXECUTING" \/ At("failState"))
             /\ Status(t)' \in Blocking /\ SameBase(t)
Reopens(t) == /\ \/ Status(t) \in {"FAIL", "READY"}
                 \/ Status(t) = "RUNNING" /\ (At("reopenAbandoned") \/ At("reopenRejected"))
              /\ Status(t)' = "READY" /\ SameBase(t)
Accepts(t) == /\ (Promote /\ cmd.task = t) \/ RecoverWrite
              /\ Status(t) = "RUNNING" /\ Standing(t)
              /\ Status(t)' = "PASS" /\ tasks'[t].accepted = Ev(t).final /\ SameBase(t)
Keeps(t) == /\ Status(t) = "PASS" /\ Status(t)' = "PASS"
            /\ tasks'[t].accepted = tasks[t].accepted /\ SameBase(t)

Changes(t) ==
  /\ \A u \in Task \ {t} : tasks'[u] = tasks[u]
  /\ UNCHANGED packet
  /\ Starts(t) \/ Settles(t) \/ Blocks(t) \/ Reopens(t) \/ Accepts(t) \/ Keeps(t)

\* Only one task is engaged.
LEMMA OneEngaged ==
  ASSUME BoardInv, NEW t \in Task, Engaged(t), NEW u \in Task, Engaged(u)
  PROVE  t = u
  BY DEF BoardInv, PacketHolds, Chosen, Engaged, Blocking

LEMMA Rewritten ==
  ASSUME BoardInv, NEW t \in Task, NEW new, SetTask(t, new)
  PROVE  tasks'[t] = new /\ \A u \in Task \ {t} : tasks'[u] = tasks[u]
  BY DEF SetTask, BoardInv, LineInv, SealedInv, HistoryInv, RuntimeInv, TypeOK, StateTypes

\* An acceptance finds a finalization that stands.
LEMMA CompletedStands ==
  ASSUME SealedInv, NEW t \in Task, completion[t].verdict = "PASS"
  PROVE  Standing(t) /\ Status(t) \in {"RUNNING", "PASS"} /\ completion[t].commit = Ev(t).final
<1>1. HasFinal(t) /\ ReviewGrants(Ev(t)) /\ completion[t] = PassCompletion(t, Att(t))
  BY DEF SealedInv, TaskInv
<1>2. ~Rejected(Ev(t))
  BY <1>1 DEF ReviewGrants, Rejected
<1>3. completion[t].commit = Ev(t).final
  BY <1>1, EvWhole DEF PassCompletion, HasFinal, NoEvidence
<1> QED
  BY <1>1, <1>2, <1>3 DEF Standing, SealedInv, TaskInv

LEMMA RecoveryChanges ==
  ASSUME BoardInv, RecoverWrite
  PROVE  UNCHANGED tasks \/ \E t \in Task : Changes(t)
<1>1. tasks' = [u \in Task |-> Reconciled(u)] /\ UNCHANGED packet
  BY DEF RecoverWrite, recordVars
<1>2. ASSUME NEW u \in Task, Status(u) # "RUNNING" PROVE Reconciled(u) = tasks[u]
  <2>1. ~Orphaned(u)
    BY <1>2 DEF Orphaned
  <2>2. ~Proved(u)
    <3>1. Proved(u) => completion[u].verdict = "PASS" /\ Status(u) # "PASS"
      BY DEF Proved, BundleValid, BoardInv, LineInv, SealedInv, HistoryInv, RuntimeInv, CommandInv
    <3> QED
      BY <1>2, <3>1, CompletedStands DEF BoardInv, LineInv
  <2> QED
    BY <2>1, <2>2 DEF Reconciled
<1>3. CASE \A u \in Task : Status(u) # "RUNNING"
  <2>1. \A u \in Task : tasks'[u] = tasks[u]
    BY <1>1, <1>2, <1>3
  <2> QED
    BY <1>1, <2>1 DEF BoardInv, LineInv, SealedInv, HistoryInv, RuntimeInv, TypeOK, StateTypes
<1>4. ASSUME NEW t \in Task, Status(t) = "RUNNING" PROVE UNCHANGED tasks \/ Changes(t)
  <2>1. \A u \in Task \ {t} : tasks'[u] = tasks[u]
    BY <1>1, <1>2, <1>4, OneEngaged DEF Engaged
  <2>2. tasks'[t] = Reconciled(t) /\ tasks[t] \in TaskStates
    BY <1>1, EvWhole DEF BoardInv, LineInv
  <2>3. CASE Proved(t)
    <3>1. completion[t].verdict = "PASS"
      BY <2>3 DEF Proved, BundleValid, BoardInv, LineInv, SealedInv, HistoryInv, RuntimeInv,
         CommandInv
    <3>2. Standing(t) /\ completion[t].commit = Ev(t).final
      BY <3>1, CompletedStands DEF BoardInv, LineInv
    <3>3. Status(t)' = "PASS" /\ tasks'[t].accepted = Ev(t).final /\ SameBase(t)
      BY <2>2, <2>3, <3>2 DEF Reconciled, TaskStates, Status, SameBase
    <3> QED
      BY <1>1, <1>4, <2>1, <3>2, <3>3 DEF Changes, Accepts
  <2>4. CASE ~Proved(t) /\ Orphaned(t)
    <3>1. Status(t)' = "INFRA_ERROR" /\ SameBase(t)
      BY <2>2, <2>4 DEF Reconciled, TaskStates, Status, SameBase
    <3> QED
      BY <1>1, <1>4, <2>1, <2>4, <3>1 DEF Changes, Blocks, Blocking, Orphaned
  <2>5. CASE ~Proved(t) /\ ~Orphaned(t)
    <3>1. Status(t)' = Status(t) /\ SameBase(t) /\ tasks'[t].phase = tasks[t].phase
      BY <2>2, <2>5 DEF Reconciled, Status, SameBase
    <3> QED
      BY <1>1, <1>4, <2>1, <3>1 DEF Changes, Settles
  <2> QED
    BY <2>3, <2>4, <2>5
<1> QED
  BY <1>3, <1>4

LEMMA LaunchChanges ==
  ASSUME BoardInv, LaunchStep
  PROVE  UNCHANGED tasks \/ \E t \in Task : Changes(t)
<1>1. CASE SpawnFails \/ OnStarted \/ Settle
  <2>1. PICK t \in Task : t = cmd.task
    BY <1>1, CommandFacts DEF SpawnFails, OnStarted, Settle, At, BoardInv, LineInv
  <2>2. tasks[t] \in TaskStates
    BY EvWhole DEF BoardInv, LineInv
  <2>3. CASE SpawnFails
    <3>1. Status(t)' = "INFRA_ERROR" /\ SameBase(t)
          /\ \A u \in Task \ {t} : tasks'[u] = tasks[u]
      <4> DEFINE new == [tasks[t] EXCEPT !.status = "INFRA_ERROR", !.phase = "NONE"]
      <4>1. SetTask(t, new)
        BY <2>1, <2>3 DEF SpawnFails
      <4>2. new.status = "INFRA_ERROR" /\ new.base = tasks[t].base
        BY <2>2 DEF TaskStates
      <4> HIDE DEF new
      <4> QED
        BY <4>1, <4>2, Rewritten DEF Status, SameBase
    <3>2. ToStart(t) /\ UNCHANGED packet
      BY <2>1, <2>3 DEF SpawnFails, At, ToStart, Starting, recordVars
    <3> QED
      BY <3>1, <3>2 DEF Changes, Blocks, Blocking
  <2>4. CASE OnStarted
    <3>1. Status(t)' = "RUNNING" /\ tasks'[t].base = packet[t]
          /\ \A u \in Task \ {t} : tasks'[u] = tasks[u]
      BY <2>1, <2>4, Rewritten DEF OnStarted, Status
    <3>2. ToStart(t) /\ UNCHANGED packet
      BY <2>1, <2>4 DEF OnStarted, At, ToStart, Starting, recordVars
    <3> QED
      BY <3>1, <3>2 DEF Changes, Starts
  <2>5. CASE Settle
    <3> DEFINE new == IF cmd.outcome = "FINISHED"
                        THEN [tasks[t] EXCEPT !.phase = "FINALIZING"]
                        ELSE [tasks[t] EXCEPT !.status = cmd.outcome, !.phase = "NONE"]
    <3>1. SetTask(t, new) /\ UNCHANGED packet
      BY <2>1, <2>5 DEF Settle, recordVars
    <3>2. /\ new.base = tasks[t].base
          /\ \/ new.status = tasks[t].status /\ new.phase = "FINALIZING"
             \/ new.status \in Blocking
      <4>1. cmd.outcome \in {"FINISHED", "INFRA_ERROR", "TIMED_OUT"}
        BY <2>5, CommandFacts DEF Settle, At, BoardInv, LineInv, SealedInv, HistoryInv,
           RuntimeInv, CommandInv, Commands
      <4> QED
        BY <2>2, <4>1 DEF TaskStates, Blocking
    <3>3. Status(t) = "RUNNING" /\ tasks[t].phase = "EXECUTING"
      BY <2>1, <2>5 DEF Settle, At, BoardInv, LineInv, SealedInv, Relies, Awaiting
    <3> HIDE DEF new
    <3>4. tasks'[t] = new /\ \A u \in Task \ {t} : tasks'[u] = tasks[u]
      BY <3>1, Rewritten
    <3> QED
      BY <3>1, <3>2, <3>3, <3>4 DEF Changes, Settles, Blocks, SameBase, Status
  <2> QED
    BY <1>1, <2>3, <2>4, <2>5
<1> QED
  BY <1>1 DEF LaunchStep, LaunchRefused, Spawn, OpenRecord, Terminated, stateVars

LEMMA CloseChanges ==
  ASSUME BoardInv, CloseStep
  PROVE  UNCHANGED tasks \/ \E t \in Task : Changes(t)
<1>1. CASE WriteFailState \/ Promote
  <2>1. PICK t \in Task : t = cmd.task
    BY <1>1, CommandFacts DEF WriteFailState, Promote, At, BoardInv, LineInv
  <2>2. tasks[t] \in TaskStates
    BY EvWhole DEF BoardInv, LineInv
  <2>3. CASE WriteFailState
    <3>1. Status(t)' = "FAIL" /\ SameBase(t) /\ UNCHANGED packet
          /\ \A u \in Task \ {t} : tasks'[u] = tasks[u]
      <4> DEFINE new == [tasks[t] EXCEPT !.status = "FAIL", !.phase = "NONE",
                                         !.accepted = NoCommit]
      <4>1. SetTask(t, new) /\ UNCHANGED packet
        BY <2>1, <2>3 DEF WriteFailState, recordVars
      <4>2. new.status = "FAIL" /\ new.base = tasks[t].base
        BY <2>2 DEF TaskStates
      <4> HIDE DEF new
      <4> QED
        BY <4>1, <4>2, Rewritten DEF Status, SameBase
    <3>2. Status(t) = "RUNNING"
      BY <2>1, <2>3 DEF WriteFailState, At, BoardInv, LineInv, SealedInv, Relies, Closing,
         Finalizing
    <3> QED
      BY <2>3, <3>1, <3>2 DEF Changes, Blocks, Blocking, WriteFailState
  <2>4. CASE Promote
    <3> DEFINE new == [tasks[t] EXCEPT !.status = "PASS", !.phase = "NONE",
                                       !.accepted = Ev(t).final]
    <3>1. UNCHANGED packet /\ (UNCHANGED tasks \/ SetTask(t, new))
      BY <2>1, <2>4 DEF Promote, stateVars, recordVars
    <3>2. new.base = tasks[t].base /\ new.status = "PASS" /\ new.accepted = Ev(t).final
      BY <2>2 DEF TaskStates
    <3>3. Standing(t) /\ Status(t) \in {"RUNNING", "PASS"}
      BY <2>1, <2>4, CompletedStands DEF Promote, At, BoardInv, LineInv, SealedInv, Relies, Sealed
    <3>4. Status(t) = "PASS" => tasks[t].accepted = Ev(t).final
      BY DEF BoardInv, LineInv, SealedInv, TaskInv
    <3> HIDE DEF new
    <3>5. ASSUME SetTask(t, new) PROVE Changes(t)
      <4>1. tasks'[t] = new /\ \A u \in Task \ {t} : tasks'[u] = tasks[u]
        BY <3>5, Rewritten
      <4> QED
        BY <2>1, <2>4, <3>1, <3>2, <3>3, <3>4, <4>1 DEF Changes, Accepts, Keeps, SameBase, Status
    <3> QED
      BY <3>1, <3>5
  <2> QED
    BY <1>1, <2>3, <2>4
<1> QED
  BY <1>1 DEF CloseStep, GateFails, GateDrifts, GatePasses, Stage,
     CachedCheckFails, CommitFails, CommitStaged, WriteFinal, ArchiveFail, BindFailSource,
     WriteFailCompletion, Review, AcceptancePends, BeginSeal, SealStep, SealCompletion,
     SealHandoff, SealManifest, stateVars

LEMMA RetryChanges ==
  ASSUME BoardInv, RetryStep
  PROVE  UNCHANGED tasks \/ \E t \in Task : Changes(t)
<1>1. CASE ReopenAbandoned \/ ReopenFailed \/ ReopenRejected
  <2>1. PICK t \in Task : t = cmd.task
    BY <1>1, CommandFacts DEF ReopenAbandoned, ReopenFailed, ReopenRejected, At, BoardInv, LineInv
  <2>2. tasks[t] \in TaskStates
    BY EvWhole DEF BoardInv, LineInv
  <2> DEFINE new == Reopened(t)
  <2>3. SetTask(t, new) /\ UNCHANGED packet
    BY <1>1, <2>1 DEF ReopenAbandoned, ReopenFailed, ReopenRejected, recordVars
  <2>4. new.base = tasks[t].base /\ new.status = "READY"
    BY <2>2 DEF TaskStates, Reopened
  <2>5. \/ Status(t) \in {"FAIL", "READY"}
        \/ Status(t) = "RUNNING" /\ (At("reopenAbandoned") \/ At("reopenRejected"))
    BY <1>1, <2>1 DEF ReopenAbandoned, ReopenFailed, ReopenRejected, At, BoardInv, LineInv,
       SealedInv, Relies, Refailing, Rejecting, Finalizing
  <2> HIDE DEF new
  <2>6. tasks'[t] = new /\ \A u \in Task \ {t} : tasks'[u] = tasks[u]
    BY <2>3, Rewritten
  <2> QED
    BY <2>3, <2>4, <2>5, <2>6 DEF Changes, Reopens, SameBase, Status
<1> QED
  BY <1>1 DEF RetryStep, CopyFailCompletion, CopyNote, ReleaseSlot, ReleaseNote, HalfReset,
     Reset, CopyRejectedNote, ReleaseRejectedNote, MoveRef, HalfRetire, Retire, stateVars

LEMMA StepChanges ==
  ASSUME BoardInv, Next
  PROVE  UNCHANGED tasks \/ \E t \in Task : Changes(t)
<1>1. CASE StartCommand
  BY <1>1 DEF StartCommand, Recover, PrepareNextTask, Launch, Close, ResumeAcceptance,
     CaptureCandidate, StartGate, AdoptSealedFail, CloseDeclaredFailure, Retry,
     RecordAbandonment, ArchiveFailedAttempt, ResumeArchival, ArchiveRejectedCandidate, stateVars
<1>2. CASE RecoverStep
  BY <1>2, RecoveryChanges DEF RecoverStep, RecoverSeal, RecoverSealStep, SealCompletion,
     SealHandoff, SealManifest, stateVars
<1>3. CASE WorkerStep \/ Crash \/ OutsideEdit \/ OutsideCommit
  BY <1>3 DEF WorkerStep, WorkerEdits, WorkerReports, WorkerExits, Crash, OutsideEdit,
     OutsideCommit, stateVars
<1> QED
  BY <1>1, <1>2, <1>3, LaunchChanges, CloseChanges, RetryChanges DEF Next, CommandStep

\* Packets are prepared while no command runs, and nothing else writes one.
LEMMA PacketsStay == Next => UNCHANGED packet \/ \E t \in Task : PrepareNextTask(t)
  BY DEF Next, StartCommand, CommandStep, Recover, Launch, Close,
     ResumeAcceptance, CaptureCandidate, StartGate, AdoptSealedFail, CloseDeclaredFailure,
     Retry, RecordAbandonment, ArchiveFailedAttempt, ResumeArchival, ArchiveRejectedCandidate,
     LaunchStep, LaunchRefused, SpawnFails, Spawn, OpenRecord, OnStarted, Settle, Terminated,
     CloseStep, GateFails, GateDrifts, GatePasses, Stage, CachedCheckFails, CommitFails,
     CommitStaged, WriteFinal, ArchiveFail, BindFailSource, WriteFailCompletion,
     WriteFailState, Review, AcceptancePends, BeginSeal, SealStep, SealCompletion, SealHandoff,
     SealManifest, Promote, RetryStep, ReopenAbandoned, CopyFailCompletion, CopyNote,
     ReleaseSlot, ReleaseNote, HalfReset, Reset, ReopenFailed, CopyRejectedNote,
     ReleaseRejectedNote, MoveRef, HalfRetire, Retire, ReopenRejected, RecoverStep, RecoverSeal,
     RecoverSealStep, RecoverWrite, WorkerStep, WorkerEdits, WorkerReports, WorkerExits, Crash,
     OutsideEdit, OutsideCommit, recordVars

--------------------------------------------------------------------------------
(* What is prepared stays right.                                           *)

\* Where nothing is accepted the tip stays.
LEMMA TipStays ==
  ASSUME SealedInv, SealedInv',
         \A u \in Task : /\ Status(u)' = "PASS" <=> Status(u) = "PASS"
                         /\ Status(u) = "PASS" => tasks'[u].accepted = tasks[u].accepted
  PROVE  Tip' = Tip /\ Anchors' = Anchors
<1>1. Accepted' = Accepted
  BY DEF Accepted
<1>2. \A u \in Accepted : tasks'[u].accepted = tasks[u].accepted
  BY DEF Accepted
<1>3. Anchors' = Anchors
  BY <1>1, <1>2 DEF Anchors, AcceptedCommits
<1>4. Tip \in Anchors /\ Tip \in Nat /\ \A c \in Anchors : c \in Nat /\ c <= Tip
  BY TipTops
<1>5. Tip' \in Anchors /\ Tip' \in Nat /\ \A c \in Anchors : c \in Nat /\ c <= Tip'
  BY <1>3, NextTip
<1> QED
  BY <1>3, <1>4, <1>5

\* Accepted work is the new tip, and no packet was prepared for it before.
LEMMA TipMoves ==
  ASSUME LineInv, SealedInv', NEW t \in Task, Accepts(t),
         \A u \in Task \ {t} : tasks'[u] = tasks[u]
  PROVE  Tip' = Ev(t).final /\ Anchors \subseteq Anchors' /\ Tip' \notin Anchors \cup {NoCommit}
<1>1. Ev(t).final \in Nat /\ Tip < Ev(t).final
  BY AboveTip DEF Accepts
<1>2. Accepted' = Accepted \cup {t} /\ t \notin Accepted
  BY DEF Accepted, Accepts, Status
<1>3. \A u \in Accepted : tasks'[u].accepted = tasks[u].accepted
  BY <1>2 DEF Accepted
<1>4. AcceptedCommits' = AcceptedCommits \cup {Ev(t).final}
  BY <1>2, <1>3 DEF AcceptedCommits, Accepts
<1>5. Tip \in Anchors /\ Tip \in Nat /\ \A c \in Anchors : c \in Nat /\ c <= Tip
  BY TipTops DEF LineInv
<1>6. Tip' \in Anchors' /\ Tip' \in Nat /\ \A c \in Anchors' : c \in Nat /\ c <= Tip'
  BY NextTip
<1>7. Anchors' = Anchors \cup {Ev(t).final}
  BY <1>4 DEF Anchors
<1>8. Tip' = Ev(t).final
  BY <1>1, <1>5, <1>6, <1>7
<1> QED
  BY <1>1, <1>5, <1>7, <1>8 DEF NoCommit

\* Two tasks are not prepared at the tip, unless one has passed.
LEMMA OneChosen ==
  ASSUME BoardInv, NEW t \in Task, NEW u \in Task, packet[t] = Tip, packet[u] = Tip,
         Status(t) # "PASS", Status(u) # "PASS"
  PROVE  t = u
<1>1. Chosen(t) /\ Chosen(u)
  BY DEF BoardInv, PacketHolds
<1>2. tasks[t] \in TaskStates /\ tasks[u] \in TaskStates
  BY EvWhole DEF BoardInv, LineInv
<1>3. SUFFICES ASSUME t # u PROVE FALSE
  OBVIOUS
<1>4. ~Engaged(t) /\ ~Engaged(u)
  BY <1>1, <1>3 DEF Chosen
<1>5. Status(t) = "READY" /\ Status(u) = "READY"
  BY <1>2, <1>4 DEF TaskStates, Engaged, Blocking, Status
<1>6. Eligible(t) /\ Eligible(u)
  BY <1>1, <1>5 DEF Eligible, Chosen
<1>7. t < u \/ u < t
  BY <1>3 DEF Task
<1> QED
  BY <1>1, <1>6, <1>7 DEF Chosen

\* Nothing changes its column, and nothing is prepared.
LEMMA StillHolds ==
  ASSUME BoardInv, SealedInv', UNCHANGED packet,
         \A u \in Task : /\ Status(u)' = Status(u) /\ SameBase(u)
                         /\ Status(u) = "PASS" => tasks'[u].accepted = tasks[u].accepted
  PROVE  Tip' = Tip /\ \A u \in Task : PacketHolds(u)'
<1>1. Tip' = Tip /\ Anchors' = Anchors
  BY TipStays DEF BoardInv, LineInv
<1>2. ASSUME NEW u \in Task PROVE Engaged(u)' = Engaged(u)
  BY DEF Engaged
<1>3. ASSUME NEW u \in Task PROVE Eligible(u)' = Eligible(u)
  BY PlanAssumption DEF Eligible
<1>4. ASSUME NEW u \in Task PROVE Chosen(u)' = Chosen(u)
  BY <1>2, <1>3, PlanAssumption DEF Chosen
<1>5. ASSUME NEW u \in Task PROVE PacketHolds(u)'
  <2>1. PacketHolds(u)
    BY DEF BoardInv
  <2> QED
    BY <1>1, <1>2, <1>4, <2>1 DEF PacketHolds, SameBase
<1> QED
  BY <1>1, <1>5

\* The task at the tip moves between columns before it is accepted.
LEMMA EngagedHolds ==
  ASSUME BoardInv, SealedInv', UNCHANGED packet, NEW t \in Task,
         \A u \in Task \ {t} : tasks'[u] = tasks[u],
         packet[t] = Tip, Status(t) # "PASS", Status(t)' # "PASS",
         Status(t)' = "RUNNING" => tasks'[t].base = packet[t]
  PROVE  Tip' = Tip /\ \A u \in Task : PacketHolds(u)'
<1>1. \A u \in Task \ {t} : Status(u)' = Status(u)
  BY DEF Status
<1>2. Tip' = Tip /\ Anchors' = Anchors
  BY <1>1, TipStays DEF BoardInv, LineInv
<1>3. Chosen(t)
  BY DEF BoardInv, PacketHolds
<1>4. \A d \in Task : Status(d)' = "PASS" <=> Status(d) = "PASS"
  BY <1>1
<1>5. Chosen(t)'
  <2>1. \A u \in Task \ {t} : ~Engaged(u)'
    BY <1>1, <1>3 DEF Chosen, Engaged
  <2>2. \A d \in Deps[t] : Status(d)' = "PASS"
    BY <1>3, <1>4, PlanAssumption DEF Chosen
  <2>3. ASSUME NEW u \in Task, u < t PROVE ~Eligible(u)'
    <3>1. u # t
      BY <2>3 DEF Task
    <3>2. ~Eligible(u)
      BY <1>3, <2>3 DEF Chosen
    <3> QED
      BY <1>1, <1>4, <3>1, <3>2, PlanAssumption DEF Eligible
  <2> QED
    BY <2>1, <2>2, <2>3 DEF Chosen
<1>6. PacketHolds(t)'
  BY <1>2, <1>5 DEF BoardInv, PacketHolds
<1>7. ASSUME NEW u \in Task \ {t} PROVE PacketHolds(u)'
  <2>1. PacketHolds(u) /\ (packet[u] = Tip => Status(u) = "PASS")
    BY OneChosen DEF BoardInv
  <2> QED
    BY <1>1, <1>2, <2>1 DEF PacketHolds, Engaged
<1> QED
  BY <1>2, <1>6, <1>7

\* Accepted work leaves no packet at the tip.
LEMMA AcceptedHolds ==
  ASSUME BoardInv, SealedInv', UNCHANGED packet, NEW t \in Task, Accepts(t),
         \A u \in Task \ {t} : tasks'[u] = tasks[u]
  PROVE  \A u \in Task : PacketHolds(u)'
<1>1. Anchors \subseteq Anchors' /\ Tip' \notin Anchors \cup {NoCommit}
  BY TipMoves DEF BoardInv
<1>2. ASSUME NEW u \in Task PROVE ~Engaged(u)'
  <2>1. CASE u = t
    BY <2>1 DEF Accepts, Engaged, Blocking
  <2>2. CASE u # t
    <3>1. Engaged(t)
      BY DEF Accepts, Engaged
    <3>2. ~Engaged(u)
      BY <2>2, <3>1, OneEngaged
    <3> QED
      BY <2>2, <3>2 DEF Engaged, Status
  <2> QED
    BY <2>1, <2>2
<1>3. ASSUME NEW u \in Task PROVE PacketHolds(u)'
  <2>1. packet[u] \in Anchors \cup {NoCommit}
    BY DEF BoardInv, PacketHolds
  <2> QED
    BY <1>1, <1>2, <2>1 DEF PacketHolds, Engaged
<1> QED
  BY <1>3

LEMMA ChangeHolds ==
  ASSUME BoardInv, SealedInv', NEW t \in Task, Changes(t)
  PROVE  \A u \in Task : PacketHolds(u)'
<1>1. PacketHolds(t) /\ UNCHANGED packet /\ \A u \in Task \ {t} : tasks'[u] = tasks[u]
  BY DEF BoardInv, Changes
<1>2. CASE Keeps(t) \/ Settles(t) \/ (Reopens(t) /\ Status(t) = "READY")
  <2>1. \A u \in Task : /\ Status(u)' = Status(u) /\ SameBase(u)
                        /\ Status(u) = "PASS" => tasks'[u].accepted = tasks[u].accepted
    BY <1>1, <1>2 DEF Keeps, Settles, Reopens, Status, SameBase
  <2> QED
    BY <1>1, <2>1, StillHolds
<1>3. CASE Starts(t) \/ Blocks(t) \/ (Reopens(t) /\ Status(t) # "READY")
  <2>1. ToStart(t) => packet[t] = Tip /\ Status(t) = "READY"
    BY DEF ToStart, BoardInv, LineInv, SealedInv, HistoryInv, StartsReady
  <2>2. tasks[t] \in TaskStates
    BY EvWhole DEF BoardInv, LineInv
  <2>3. packet[t] = Tip /\ Status(t) # "PASS"
    BY <1>1, <1>3, <2>1, <2>2 DEF Starts, Blocks, Reopens, PacketHolds, Engaged, TaskStates,
       Status, Blocking
  <2>4. Status(t)' # "PASS" /\ (Status(t)' = "RUNNING" => tasks'[t].base = packet[t])
    BY <1>3 DEF Starts, Blocks, Reopens, Blocking
  <2> QED
    BY <1>1, <2>3, <2>4, EngagedHolds
<1>4. CASE Accepts(t)
  BY <1>1, <1>4, AcceptedHolds
<1> QED
  BY <1>2, <1>3, <1>4 DEF Changes

\* The packet of a selected task is prepared at the tip.
LEMMA PreparedHolds ==
  ASSUME BoardInv, SealedInv', NEW t \in Task, PrepareNextTask(t)
  PROVE  \A u \in Task : PacketHolds(u)'
<1>1. /\ UNCHANGED tasks /\ Selected(t) /\ head = Tip /\ head \in Anchors
      /\ packet' = [packet EXCEPT ![t] = head]
  BY BaseAtTip DEF PrepareNextTask, BaseOk, stateVars, BoardInv, LineInv
<1>2. packet'[t] = head /\ \A u \in Task \ {t} : packet'[u] = packet[u]
  BY <1>1 DEF BoardInv, LineInv, SealedInv, HistoryInv, RuntimeInv, TypeOK, RecordTypes
<1>3. Tip' = Tip /\ Anchors' = Anchors
  BY <1>1, TipStays DEF BoardInv, LineInv, Status
<1>4. Chosen(t) /\ \A u \in Task : ~Engaged(u)
  BY <1>1 DEF Selected, Chosen, Eligible, Engaged
<1>5. \A u \in Task : Engaged(u)' = Engaged(u) /\ Chosen(u)' = Chosen(u)
  BY <1>1 DEF Engaged, Chosen, Eligible, Status
<1>6. ASSUME NEW u \in Task PROVE PacketHolds(u)'
  <2>1. PacketHolds(u)
    BY DEF BoardInv
  <2>2. Status(u)' = Status(u) /\ Status(u) # "RUNNING"
    BY <1>1, <1>4 DEF Status, Engaged
  <2> QED
    BY <1>1, <1>2, <1>3, <1>4, <1>5, <2>1, <2>2 DEF PacketHolds
<1> QED
  BY <1>6

\* A launch goes from its guards to its attempt at the tip.
LEMMA StartsAtTip ==
  ASSUME BoardInv, SealedInv', Next
  PROVE  cmd'.step \in Starting => packet'[cmd'.task] = Tip'
<1>1. ASSUME UNCHANGED <<tasks, packet>>, cmd'.step \in Starting, packet[cmd'.task] = Tip
      PROVE  packet'[cmd'.task] = Tip'
  BY <1>1, TipStays DEF BoardInv, LineInv, Status
<1>2. ASSUME cmd.step \in Starting PROVE UNCHANGED packet
  <2>1. ~At("idle")
    BY <1>2 DEF At, Starting
  <2> QED
    BY <2>1, PacketsStay DEF PrepareNextTask
<1>3. CASE UNCHANGED <<tasks, cmd>> \/ GoesOn(Starting)
  BY <1>1, <1>2, <1>3 DEF BoardInv, GoesOn
<1>4. ASSUME NEW t \in Task, Launch(t), cmd'.task = t, cmd'.step \in Starting
      PROVE  packet'[cmd'.task] = Tip'
  BY <1>1, <1>4, BaseAtTip DEF Launch, BaseOk, stateVars, recordVars, BoardInv
<1>5. CASE Elsewhere \/ cmd'.step \in Reopening
  BY <1>5 DEF Elsewhere, Reopening, Starting
<1> QED
  BY <1>3, <1>4, <1>5, Moves DEF GoesOn, Starting, BoardInv, LineInv, SealedInv

LEMMA StepBoard == BoardInv /\ [Next]_vars => BoardInv'
<1> SUFFICES ASSUME BoardInv, [Next]_vars PROVE BoardInv'
  OBVIOUS
<1>1. LineInv' /\ SealedInv'
  BY StepLine DEF BoardInv, LineInv
<1>2. CASE Next
  <2>1. ASSUME UNCHANGED <<tasks, packet>> PROVE \A u \in Task : PacketHolds(u)'
    BY <1>1, <2>1, StillHolds DEF Status, SameBase
  <2>2. \A u \in Task : PacketHolds(u)'
    BY <1>1, <1>2, <2>1, StepChanges, PacketsStay, ChangeHolds, PreparedHolds
  <2> QED
    BY <1>1, <1>2, <2>2, StartsAtTip DEF BoardInv
<1>3. CASE UNCHANGED vars
  <2>1. UNCHANGED <<tasks, packet, cmd>>
    BY <1>3 DEF vars, stateVars, recordVars
  <2>2. Tip' = Tip /\ \A u \in Task : PacketHolds(u)'
    BY <1>1, <2>1, StillHolds DEF Status, SameBase
  <2> QED
    BY <1>1, <2>1, <2>2 DEF BoardInv
<1> QED
  BY <1>2, <1>3

--------------------------------------------------------------------------------
(* Steps of the harness are steps of the board.                            *)

Cells == {"todo", "working", "accepted", "blocked"}

\* What the board shows of a status.
LEMMA Shown ==
  ASSUME NEW s
  PROVE  /\ s = "READY" => Column[s] = "todo"
         /\ s = "RUNNING" => Column[s] = "working"
         /\ s = "PASS" => Column[s] = "accepted"
         /\ s \in Blocking => Column[s] = "blocked"
  BY DEF Column, Blocking

\* A commit that was made keeps its task.
LEMMA TaskOfStays ==
  ASSUME SealedInv, LogKept, NEW c \in CommitOrNone, NEW d, d = c
  PROVE  TaskOf(d)' = TaskOf(c)
  BY DEF TaskOf, LogKept, CommitOrNone, Commit, SealedInv, HistoryInv, RuntimeInv, TypeOK,
     RepoTypes, Baseline, NoCommit

LEMMA InitBoard ==
  ASSUME Init PROVE Board!BoardInit
<1>1. \A t \in Task : Status(t) = "READY" /\ tasks[t].base = NoCommit
  BY DEF Init, InitialTask, Status
<1>2. DerivedHead(tasks) = Baseline
  BY <1>1 DEF DerivedHead, Status
<1> QED
  BY <1>1, <1>2, Shown DEF Board!BoardInit, TaskOf

\* What the board shows of tasks, bases and the tip.
Shows(t) == Column[Status(t)]
From(t) == TaskOf(tasks[t].base)

\* The board does not lose the task a tip belongs to.
LEMMA TipShown == ASSUME BoardInv, LogKept, Tip' = Tip PROVE TaskOf(Tip)' = TaskOf(Tip)
<1>1. Tip \in CommitOrNone
  BY TipTops, AnchorsPlace DEF BoardInv, LineInv, CommitOrNone
<1>2. PICK c \in CommitOrNone : c = Tip /\ c = Tip'
  BY <1>1
<1> QED
  BY <1>2, TaskOfStays DEF BoardInv, LineInv, TaskOf

LEMMA BaseShown ==
  ASSUME BoardInv, LogKept, NEW u \in Task, SameBase(u)
  PROVE  From(u)' = From(u)
<1>1. tasks[u].base \in CommitOrNone /\ tasks'[u].base = tasks[u].base
  BY EvWhole DEF BoardInv, LineInv, TaskStates, SameBase
<1>2. PICK b \in CommitOrNone : b = tasks[u].base
  BY <1>1
<1> QED
  BY <1>1, <1>2, TaskOfStays DEF From, BoardInv, LineInv, TaskOf

\* A step that changes no column and no base, and leaves the tip, is not seen.
LEMMA Unseen ==
  ASSUME BoardInv, LogKept, Tip' = Tip,
         \A u \in Task : Status(u)' = Status(u) /\ SameBase(u)
  PROVE  UNCHANGED Board!boardVars
<1>1. \A u \in Task : Shows(u)' = Shows(u)
  BY DEF Shows, Column
<1>2. \A u \in Task : From(u)' = From(u)
  BY BaseShown
<1> QED
  BY <1>1, <1>2, TipShown DEF Board!boardVars, Shows, From, Tip

\* A task moves to another column and the others stay.
LEMMA Redrawn ==
  ASSUME NEW t \in Task, NEW column, Shows(t)' = column,
         \A u \in Task \ {t} : tasks'[u] = tasks[u]
  PROVE  Board!Move(t, column)
<1>1. \A u \in Task \ {t} : Shows(u)' = Shows(u)
  BY DEF Shows, Column, Status
<1> QED
  BY <1>1 DEF Board!Move, Shows

LEMMA OtherBases ==
  ASSUME BoardInv, LogKept, NEW t \in Task, \A u \in Task \ {t} : tasks'[u] = tasks[u]
  PROVE  \A u \in Task \ {t} : From(u)' = From(u)
  BY BaseShown DEF SameBase

LEMMA StartShown ==
  ASSUME BoardInv, LogKept, Tip' = Tip, NEW t \in Task, Changes(t), Starts(t)
  PROVE  Board!Start(t)
<1>1. /\ packet[t] = Tip /\ Status(t) = "READY"
      /\ \A u \in Task \ {t} : tasks'[u] = tasks[u]
  BY DEF Starts, ToStart, BoardInv, LineInv, SealedInv, HistoryInv, StartsReady, Changes
<1>2. Chosen(t)
  BY <1>1 DEF BoardInv, PacketHolds
<1>3. Shows(t) = "todo" /\ Shows(t)' = "working"
  BY <1>1, Shown DEF Starts, Shows
<1>4. ASSUME NEW u \in Task PROVE Shows(u) \notin {"working", "blocked"}
  <2>1. Status(u) \in {"READY", "PASS"}
    <3>1. tasks[u] \in TaskStates
      BY EvWhole DEF BoardInv, LineInv
    <3> QED
      BY <1>1, <1>2, <3>1 DEF Chosen, Engaged, Blocking, TaskStates, Status
  <2> QED
    BY <2>1, Shown DEF Shows
<1>5. \A d \in Deps[t] : d \in Task /\ Shows(d) = "accepted"
  BY <1>2, Shown, PlanAssumption DEF Chosen, Shows
<1>6. Board!Move(t, "working")
  BY <1>1, <1>3, Redrawn
<1>7. TaskOf(Tip)' = TaskOf(Tip)
  BY TipShown
<1>8. From(t)' = TaskOf(Tip)
  <2>1. tasks'[t].base = Tip'
    BY <1>1 DEF Starts
  <2> QED
    BY <1>7, <2>1 DEF From, TaskOf
<1>9. \A u \in Task \ {t} : From(u)' = From(u)
  BY <1>1, OtherBases
<1> QED
  BY <1>3, <1>4, <1>5, <1>6, <1>7, <1>8, <1>9 DEF Board!Start, Shows, From, Tip

LEMMA BlockShown ==
  ASSUME BoardInv, LogKept, Tip' = Tip, NEW t \in Task, Changes(t), Blocks(t)
  PROVE  Board!Block(t)
<1>1. /\ Status(t) \in {"READY", "RUNNING"}
      /\ \A u \in Task \ {t} : tasks'[u] = tasks[u]
  BY DEF Blocks, ToStart, BoardInv, LineInv, SealedInv, HistoryInv, StartsReady, Changes
<1>2. Shows(t) \in {"todo", "working"} /\ Shows(t)' = "blocked"
  BY <1>1, Shown DEF Blocks, Shows
<1>3. Board!Move(t, "blocked")
  BY <1>1, <1>2, Redrawn
<1>4. TaskOf(Tip)' = TaskOf(Tip)
  BY TipShown
<1>5. \A u \in Task : From(u)' = From(u)
  BY <1>1, OtherBases, BaseShown DEF Blocks
<1> QED
  BY <1>2, <1>3, <1>4, <1>5 DEF Board!Block, Shows, From, Tip

LEMMA ReopenShown ==
  ASSUME BoardInv, LogKept, Tip' = Tip, NEW t \in Task, Changes(t), Reopens(t),
         Status(t) # "READY"
  PROVE  Board!Reopen(t)
<1>1. /\ Status(t) \in Blocking \cup {"RUNNING"}
      /\ \A u \in Task \ {t} : tasks'[u] = tasks[u]
  BY EvWhole DEF Reopens, Changes, TaskStates, Blocking, Status, BoardInv, LineInv
<1>2. Shows(t) \in {"working", "blocked"} /\ Shows(t)' = "todo"
  BY <1>1, Shown DEF Reopens, Shows
<1>3. Board!Move(t, "todo")
  BY <1>1, <1>2, Redrawn
<1>4. TaskOf(Tip)' = TaskOf(Tip)
  BY TipShown
<1>5. \A u \in Task : From(u)' = From(u)
  BY <1>1, OtherBases, BaseShown DEF Reopens
<1> QED
  BY <1>2, <1>3, <1>4, <1>5 DEF Board!Reopen, Shows, From, Tip

LEMMA AcceptShown ==
  ASSUME BoardInv, SealedInv', LogKept, NEW t \in Task, Changes(t), Accepts(t)
  PROVE  Board!Accept(t)
<1>1. Status(t) = "RUNNING" /\ \A u \in Task \ {t} : tasks'[u] = tasks[u]
  BY DEF Accepts, Changes
<1>2. Shows(t) = "working" /\ Shows(t)' = "accepted"
  BY <1>1, Shown DEF Accepts, Shows
<1>3. From(t) = TaskOf(Tip)
  <2>1. tasks[t].base = Tip
    BY <1>1 DEF BoardInv, PacketHolds, Engaged
  <2> QED
    BY <2>1 DEF From
<1>4. Board!Move(t, "accepted")
  BY <1>1, <1>2, Redrawn
<1>5. \A u \in Task : From(u)' = From(u)
  BY <1>1, OtherBases, BaseShown DEF Accepts
<1>6. TaskOf(Tip)' = t
  <2>1. Tip' = Ev(t).final
    BY <1>1, TipMoves DEF BoardInv
  <2>2. HasFinal(t) /\ log[Ev(t).final].task = t
    BY DEF Accepts, Standing, BoardInv, LineInv, FinalsAnchored
  <2>3. Ev(t).final \in 1..Len(log) /\ Len(log) \in Nat
    BY <2>2, FinalPlace DEF BoardInv, LineInv
  <2>4. Tip' \in 1..Len(log) /\ log'[Tip'].task = t
    BY <2>1, <2>2, <2>3 DEF LogKept
  <2> QED
    BY <2>3, <2>4 DEF TaskOf, NoCommit, Baseline
<1> QED
  BY <1>2, <1>3, <1>4, <1>5, <1>6 DEF Board!Accept, Shows, From, Tip

\* A task is accepted, or the tip stays.
LEMMA TipChanges ==
  ASSUME BoardInv, SealedInv', NEW t \in Task, Changes(t), ~Accepts(t)
  PROVE  Tip' = Tip /\ (Status(t)' = "PASS" => Status(t) = "PASS")
<1>1. Status(t)' = "PASS" <=> Status(t) = "PASS"
  BY DEF Changes, Starts, Settles, Blocks, Reopens, Keeps, Blocking, ToStart,
     BoardInv, LineInv, SealedInv, HistoryInv, StartsReady
<1>2. Status(t) = "PASS" => tasks'[t].accepted = tasks[t].accepted
  BY DEF Changes, Starts, Settles, Blocks, Reopens, Keeps, ToStart,
     BoardInv, LineInv, SealedInv, HistoryInv, StartsReady
<1>3. \A u \in Task \ {t} : tasks'[u] = tasks[u]
  BY DEF Changes
<1> QED
  BY <1>1, <1>2, <1>3, TipStays DEF BoardInv, LineInv, Status

\* Every step of the harness is a step of the board or not seen there.
LEMMA StepShown ==
  ASSUME BoardInv, [Next]_vars
  PROVE  [Board!BoardNext]_(Board!boardVars)
<1>1. LineInv' /\ SealedInv'
  BY StepLine DEF BoardInv, LineInv
<1>2. ASSUME UNCHANGED tasks, LogKept PROVE UNCHANGED Board!boardVars
  <2>1. Tip' = Tip
    BY <1>1, <1>2, TipStays DEF BoardInv, LineInv, Status
  <2> QED
    BY <1>2, <2>1, Unseen DEF Status, SameBase
<1>3. ASSUME NEW t \in Task, Changes(t), LogKept PROVE [Board!BoardNext]_(Board!boardVars)
  <2>1. \A u \in Task \ {t} : tasks'[u] = tasks[u]
    BY <1>3 DEF Changes
  <2>2. ASSUME ~Accepts(t) PROVE Tip' = Tip
    BY <1>1, <1>3, <2>2, TipChanges
  <2>3. CASE Accepts(t)
    BY <1>1, <1>3, <2>3, AcceptShown DEF Board!BoardNext
  <2>4. CASE ~Accepts(t) /\ (Starts(t) \/ Blocks(t) \/ (Reopens(t) /\ Status(t) # "READY"))
    BY <1>3, <2>2, <2>4, StartShown, BlockShown, ReopenShown DEF Board!BoardNext
  <2>5. CASE ~Accepts(t) /\ (Settles(t) \/ Keeps(t) \/ (Reopens(t) /\ Status(t) = "READY"))
    <3>1. \A u \in Task : Status(u)' = Status(u) /\ SameBase(u)
      BY <2>1, <2>5 DEF Settles, Keeps, Reopens, Status, SameBase
    <3> QED
      BY <1>3, <2>2, <2>5, <3>1, Unseen
  <2> QED
    BY <1>3, <2>3, <2>4, <2>5 DEF Changes
<1>4. CASE Next
  <2>1. LogKept
    BY <1>4, LogStays DEF BoardInv, LineInv
  <2> QED
    BY <1>2, <1>3, <1>4, <2>1, StepChanges
<1>5. CASE UNCHANGED vars
  <2>1. UNCHANGED <<tasks, log>>
    BY <1>5 DEF vars, stateVars, repoVars
  <2>2. LogKept
    BY <2>1 DEF LogKept, BoardInv, LineInv, SealedInv, HistoryInv, RuntimeInv, TypeOK, RepoTypes
  <2> QED
    BY <1>2, <2>1, <2>2
<1> QED
  BY <1>4, <1>5

LEMMA InitPrepared == Init => BoardInv
<1> SUFFICES ASSUME Init PROVE BoardInv
  OBVIOUS
<1>1. LineInv
  BY InitLine
<1>2. \A t \in Task : Status(t) = "READY" /\ packet[t] = NoCommit
  BY DEF Init, InitialTask, Status
<1>3. Tip # NoCommit
  BY <1>1, TipTops DEF LineInv, NoCommit
<1> QED
  BY <1>1, <1>2, <1>3 DEF BoardInv, PacketHolds, Engaged, Blocking, Init, Idle, Starting

\* The harness implements the board: whatever crashes, edits and outside commits
\* do, a task is started alone, after its dependencies and from the last accepted
\* work, and is accepted only on top of that same work.
THEOREM BoardImplemented == Spec => ImplementsBoard
<1>1. Init => BoardInv /\ Board!BoardInit
  BY InitPrepared, InitBoard
<1>2. BoardInv /\ [Next]_vars => BoardInv'
  BY StepBoard
<1>3. BoardInv /\ [Next]_vars => [Board!BoardNext]_(Board!boardVars)
  BY StepShown
<1> QED
  BY <1>1, <1>2, <1>3, PTL DEF Spec, ImplementsBoard, Board!BoardSpec

--------------------------------------------------------------------------------
(* The base handed to the next task.                                       *)

\* Nobody else's commit changes the files of an accepted one.
Distinct ==
  \A c \in AcceptedCommits : \A d \in 1..Len(log) :
    FilesOfCommit(c) = FilesOfCommit(d) => log[c].task = log[d].task

\* Candidates on the line above the tip, and a task that may still have one.
Above(L) == {k \in L : Tip < k /\ log[k].task # 0}
Pending(t) == Finalizing(t) /\ Ev(t).source = 0

\* Steps at which a command has found, or made sure, that there is none.
Clear == {"gate", "stage", "commit", "failArchive", "failBind", "failSlot", "failState",
          "reopenAbandoned", "halfRetire", "retire", "reopenRejected"}

\* There is one candidate above the tip at most, and its task is pending.
OwnAbove(L) ==
  /\ \A k \in Above(L) : Pending(log[k].task)
  /\ \A j, k \in Above(L) : j = k
  /\ cmd.step \in Clear => Above(L) = {}

\* A close that seals a task again found its commit at HEAD.
Resealing == {"sealCompletion", "sealHandoff", "sealManifest", "promote"}
BaseHolds ==
  /\ authorized = Tip
  /\ cmd.step \in Resealing /\ Status(cmd.task) = "PASS" => Ev(cmd.task).final = Tip

TipInv ==
  /\ BoardInv
  /\ \E L \in SUBSET Commit : LineOf(L) /\ HoldsStanding(L) /\ OwnAbove(L)
  /\ Distinct => BaseHolds

\* Where a command finds that there is no candidate above the tip, and where it
\* goes on from there.
Opens(t) ==
  \/ \E r \in {FALSE, Reviewing} : StartGate(t, r)
  \/ CloseDeclaredFailure(t) \/ AdoptSealedFail(t) \/ RecordAbandonment(t)
Continues(steps) == cmd.step \in steps /\ cmd'.step \in steps /\ cmd'.task = cmd.task
Else == cmd'.step \notin Clear \cup Resealing

LEMMA TipCommands ==
  ASSUME SealedInv, Next
  PROVE  \/ Else
         \/ Continues(Clear) \/ Continues(Resealing)
         \/ \E t \in Task : Opens(t) /\ cmd'.step \in Clear
         \/ MoveRef /\ cmd'.step = "halfRetire"
         \/ BeginSeal /\ cmd'.step = "sealCompletion" /\ cmd'.task = cmd.task
<1> DEFINE Goal ==
      \/ Else
      \/ Continues(Clear) \/ Continues(Resealing)
      \/ \E t \in Task : Opens(t) /\ cmd'.step \in Clear
      \/ MoveRef /\ cmd'.step = "halfRetire"
      \/ BeginSeal /\ cmd'.step = "sealCompletion" /\ cmd'.task = cmd.task
<1>1. /\ Else \/ Continues(Clear) \/ Continues(Resealing) => Goal
      /\ \A t \in Task : Opens(t) /\ cmd'.step \in Clear => Goal
      /\ MoveRef /\ cmd'.step = "halfRetire" => Goal
      /\ BeginSeal /\ cmd'.step = "sealCompletion" /\ cmd'.task = cmd.task => Goal
  OBVIOUS
<1> HIDE DEF Goal
<1>2. cmd \in Commands
  BY CommandFacts
<1>3. ASSUME NEW s, Goto(s) PROVE cmd'.step = s /\ cmd'.task = cmd.task
  BY <1>2, <1>3 DEF Goto, Commands
<1>4. ASSUME Finish PROVE Else
  BY <1>4 DEF Finish, Idle, Else, Clear, Resealing
<1>5. ASSUME NEW s, NEW t, Begin(s, t) PROVE cmd'.step = s
  BY <1>5 DEF Begin, Idle
<1>6. ASSUME UNCHANGED cmd PROVE Else \/ Continues(Clear) \/ Continues(Resealing)
  BY <1>6 DEF Else, Continues
<1>7. ASSUME NEW t \in Task, PrepareNextTask(t) \/ Launch(t) \/ Close(t) \/ Retry(t) PROVE Goal
  <2>1. ASSUME Opens(t) PROVE Goal
    <3>1. cmd'.step \in {"gate", "failSlot", "failState", "reopenAbandoned"}
      BY <1>5, <2>1 DEF Opens, StartGate, CloseDeclaredFailure, AdoptSealedFail,
         RecordAbandonment, Idle
    <3> QED
      BY <1>1, <2>1, <3>1 DEF Clear
  <2>2. ASSUME NEW r, ResumeAcceptance(t, r) \/ CaptureCandidate(t, r) PROVE Else
    BY <2>2 DEF ResumeAcceptance, CaptureCandidate, Idle, Else, Clear, Resealing
  <2>3. ASSUME ArchiveFailedAttempt(t) \/ ArchiveRejectedCandidate(t) PROVE Else
    BY <2>3 DEF ArchiveFailedAttempt, ArchiveRejectedCandidate, Idle, Else, Clear, Resealing
  <2>4. ASSUME Launch(t) \/ ResumeArchival(t) PROVE Else
    BY <1>5, <2>4 DEF Launch, ResumeArchival, Else, Clear, Resealing
  <2>5. PrepareNextTask(t) => UNCHANGED cmd
    BY DEF PrepareNextTask
  <2> QED
    BY <1>1, <1>6, <1>7, <2>1, <2>2, <2>3, <2>4, <2>5 DEF Close, Retry, Opens
<1>8. ASSUME Recover PROVE Else
  BY <1>5, <1>8 DEF Recover, Else, Clear, Resealing
<1>9. ASSUME LaunchStep PROVE Else
  <2>1. ASSUME NEW outcome, Terminated(outcome) PROVE cmd'.step = "settle"
    BY <1>2, <2>1 DEF Terminated, Commands
  <2>2. ASSUME Spawn \/ OpenRecord \/ OnStarted PROVE cmd'.step \in {"openRecord", "started", "await"}
    BY <1>3, <2>2 DEF Spawn, OpenRecord, OnStarted
  <2> QED
    BY <1>4, <1>9, <2>1, <2>2 DEF LaunchStep, LaunchRefused, SpawnFails, Settle, Else, Clear,
       Resealing
<1>10. ASSUME CloseStep PROVE Goal
  <2>1. ASSUME GateFails \/ GateDrifts \/ GatePasses \/ Stage \/ CachedCheckFails
               \/ BindFailSource \/ WriteFailCompletion
        PROVE  Continues(Clear)
    BY <1>3, <2>1 DEF GateFails, GateDrifts, GatePasses, Stage, CachedCheckFails,
       BindFailSource, WriteFailCompletion, At, Continues, Clear
  <2>2. ASSUME CommitFails \/ WriteFailState \/ Promote \/ AcceptancePends PROVE Else
    BY <1>4, <2>2 DEF CommitFails, WriteFailState, Promote, AcceptancePends
  <2>3. ASSUME CommitStaged PROVE Else
    <3>1. cmd'.step = "record"
      BY <1>2, <2>3 DEF CommitStaged, Commands
    <3> QED
      BY <3>1 DEF Else, Clear, Resealing
  <2>4. ASSUME WriteFinal PROVE Else
    BY <1>3, <1>4, <2>4 DEF WriteFinal, Else, Clear, Resealing
  <2>5. ASSUME ArchiveFail PROVE Goal
    <3>1. CASE Finish
      BY <1>1, <1>4, <3>1
    <3>2. CASE cmd' = [cmd EXCEPT !.step = "failBind", !.patch = tree]
      <4>1. cmd'.step = "failBind" /\ cmd'.task = cmd.task /\ cmd.step = "failArchive"
        BY <1>2, <2>5, <3>2 DEF ArchiveFail, At, Commands
      <4> QED
        BY <1>1, <4>1 DEF Continues, Clear
    <3> QED
      BY <2>5, <3>1, <3>2 DEF ArchiveFail
  <2>6. ASSUME BeginSeal PROVE Goal
    BY <1>1, <1>3, <2>6 DEF BeginSeal
  <2>7. ASSUME SealStep PROVE Else \/ Continues(Resealing)
    BY <1>3, <1>4, <2>7 DEF SealStep, SealCompletion, SealHandoff, SealManifest, At, Continues,
       Resealing
  <2>8. ASSUME NEW verdict, Review(verdict) PROVE UNCHANGED cmd
    BY <2>8 DEF Review
  <2> QED
    BY <1>1, <1>6, <1>10, <2>1, <2>2, <2>3, <2>4, <2>5, <2>6, <2>7, <2>8 DEF CloseStep
<1>11. ASSUME RetryStep PROVE Goal
  <2>1. ASSUME ReopenAbandoned \/ ReopenFailed \/ ReopenRejected PROVE Else
    BY <1>4, <2>1 DEF ReopenAbandoned, ReopenFailed, ReopenRejected
  <2>2. ASSUME CopyFailCompletion \/ CopyNote \/ ReleaseSlot \/ ReleaseNote \/ HalfReset \/ Reset
               \/ CopyRejectedNote \/ ReleaseRejectedNote
        PROVE  Else
    BY <1>3, <1>4, <2>2 DEF CopyFailCompletion, CopyNote, ReleaseSlot, ReleaseNote, HalfReset,
       Reset, CopyRejectedNote, ReleaseRejectedNote, Else, Clear, Resealing
  <2>3. ASSUME MoveRef PROVE Else \/ cmd'.step = "halfRetire"
    BY <1>3, <1>4, <2>3 DEF MoveRef
  <2>4. ASSUME HalfRetire \/ Retire PROVE Else \/ Continues(Clear)
    BY <1>3, <1>4, <2>4 DEF HalfRetire, Retire, At, Continues, Clear
  <2> QED
    BY <1>1, <1>11, <2>1, <2>2, <2>3, <2>4 DEF RetryStep
<1>12. ASSUME RecoverStep PROVE Else
  <2>1. ASSUME Refused \/ Promoted \/ RecoverSeal PROVE Else
    BY <1>2, <2>1 DEF Refused, Promoted, RecoverSeal, Commands, Else, Clear, Resealing
  <2>2. CASE RecoverSealStep
    BY <1>3, <2>1, <2>2 DEF RecoverSealStep, SealCompletion, SealHandoff, SealManifest, Else,
       Clear, Resealing
  <2> QED
    BY <1>4, <1>12, <2>1, <2>2 DEF RecoverStep, RecoverWrite
<1>13. WorkerStep \/ OutsideEdit \/ OutsideCommit => UNCHANGED cmd
  BY DEF WorkerStep, WorkerEdits, WorkerReports, WorkerExits, OutsideEdit, OutsideCommit
<1>14. Goal
  BY <1>1, <1>4, <1>6, <1>7, <1>8, <1>9, <1>10, <1>11, <1>12, <1>13
     DEF Next, StartCommand, CommandStep, Crash
<1> QED
  BY <1>14 DEF Goal

\* The tip moves when a task is accepted, and never back.
LEMMA TipStep ==
  ASSUME BoardInv, SealedInv', Next
  PROVE  \/ Tip' = Tip /\ \A t \in Task : Status(t)' = "PASS" => Status(t) = "PASS"
         \/ \E t \in Task : Accepts(t) /\ Tip' = Ev(t).final /\ Tip < Tip'
<1>1. CASE UNCHANGED tasks
  BY <1>1, TipStays DEF BoardInv, LineInv, Status
<1>2. ASSUME NEW t \in Task, Changes(t), Accepts(t) PROVE Tip' = Ev(t).final /\ Tip < Tip'
  <2>1. \A u \in Task \ {t} : tasks'[u] = tasks[u]
    BY <1>2 DEF Changes
  <2> QED
    BY <1>2, <2>1, TipMoves, AboveTip DEF BoardInv, Accepts
<1>3. ASSUME NEW t \in Task, Changes(t), ~Accepts(t)
      PROVE  Tip' = Tip /\ \A u \in Task : Status(u)' = "PASS" => Status(u) = "PASS"
  BY <1>3, TipChanges DEF Changes, Status
<1> QED
  BY <1>1, <1>2, <1>3, StepChanges

\* The line from HEAD down, seen from the tip.
LEMMA TipOnLine ==
  ASSUME BoardInv, NEW L, LineOf(L), HoldsStanding(L)
  PROVE  /\ Tip \in Nat /\ Tip \in L /\ L \subseteq 0..Len(log) /\ Len(log) \in Nat
         /\ head = Tip => Above(L) = {}
         /\ \A k \in Above(L) : k \in 1..Len(log) /\ log[k].task \in Task
<1>1. Tip \in Nat /\ Tip \in L
  BY TipTops, AnchorsOnLine DEF BoardInv, LineInv
<1>2. L \subseteq 0..Len(log) /\ Len(log) \in Nat /\ log \in Seq(LogEntries)
  BY DEF LineOf, Commit, BoardInv, LineInv, SealedInv, HistoryInv, RuntimeInv, TypeOK, RepoTypes
<1>3. ASSUME NEW k \in Above(L) PROVE k \in 1..Len(log) /\ log[k].task \in Task /\ k # Tip
  <2>1. k \in L /\ Tip < k /\ log[k].task # 0
    BY DEF Above
  <2>2. k \in 1..Len(log)
    BY <1>1, <1>2, <2>1
  <2>3. log[k] \in LogEntries
    BY <1>2, <2>2
  <2> QED
    BY <1>1, <2>1, <2>2, <2>3, PlanAssumption DEF LogEntries, Task
<1>4. ASSUME head = Tip, NEW k \in Above(L) PROVE FALSE
  BY <1>1, <1>2, <1>4 DEF Above, LineOf
<1> QED
  BY <1>1, <1>2, <1>3, <1>4

\* What a command finds when it begins to close or reopen an attempt.
LEMMA OpensClear ==
  ASSUME BoardInv, NEW L, LineOf(L), HoldsStanding(L), OwnAbove(L), NEW t \in Task, Opens(t)
  PROVE  Above(L) = {}
<1>1. Engaged(t) /\ packet[t] = Tip /\ tasks[t].base = Tip
  <2>1. Status(t) = "RUNNING"
    BY DEF Opens, StartGate, CloseDeclaredFailure, Closable, AdoptSealedFail, RecordAbandonment,
       Abandonable, Finalizing
  <2> QED
    BY <2>1 DEF Engaged, BoardInv, PacketHolds
<1>2. CASE head \in {packet[t], tasks[t].base}
  BY <1>1, <1>2, TipOnLine
<1>3. CASE AdoptSealedFail(t)
  <2>1. ASSUME NEW k \in Above(L) PROVE FALSE
    <3>1. PICK u \in Task : u = log[k].task
      BY TipOnLine
    <3>2. Pending(u)
      BY <3>1 DEF OwnAbove
    <3>3. u = t
      BY <1>1, <3>2, OneEngaged DEF Pending, Finalizing, Engaged
    <3> QED
      BY <1>3, <3>2, <3>3 DEF AdoptSealedFail, Pending
  <2> QED
    BY <2>1
<1> QED
  BY <1>2, <1>3 DEF Opens, StartGate, CloseDeclaredFailure, RecordAbandonment, Abandonable

\* A pending task stays pending until a command closes, reopens or accepts it.
LEMMA PendingStays ==
  ASSUME BoardInv, Next, cmd.step \notin Clear, NEW t \in Task, Pending(t)
  PROVE  Pending(t)' \/ Accepts(t)
<1>1. Ev(t)'.source = Ev(t).source
  <2>1. Status(t) # "READY" /\ ~At("failBind")
    BY DEF Pending, Finalizing, At, Clear
  <2>2. FinalsKept => Ev(t)'.source = Ev(t).source
    BY <2>1 DEF FinalsKept, SourceKept
  <2>3. CASE WriteFinal
    <3>1. PICK u \in Task : u = cmd.task
      BY <2>3, CommandFacts DEF WriteFinal, At, BoardInv, LineInv
    <3>2. CASE UNCHANGED evidence
      <4>1. UNCHANGED tasks
        BY <2>3 DEF WriteFinal, stateVars
      <4> QED
        BY <3>2, <4>1 DEF Ev, Att
    <3> QED
      BY <2>3, <3>1, <3>2, WriteFinalAnchors DEF BoardInv
  <2>4. ASSUME NEW u \in Task, NEW r, CaptureCandidate(u, r) PROVE Ev(t)'.source = Ev(t).source
    BY <2>4, CaptureAnchors DEF BoardInv
  <2> QED
    BY <2>2, <2>3, <2>4, FinalsStay DEF BoardInv, LineInv
<1>2. CASE UNCHANGED tasks
  BY <1>1, <1>2 DEF Pending, Finalizing, Status
<1>3. ASSUME NEW u \in Task, Changes(u) PROVE Pending(t)' \/ Accepts(t)
  <2>1. CASE u # t
    BY <1>1, <1>3, <2>1 DEF Changes, Pending, Finalizing, Status
  <2>2. CASE u = t
    <3>1. Status(t) = "RUNNING" /\ tasks[t].phase = "FINALIZING" /\ ~ToStart(t)
      BY DEF Pending, Finalizing, ToStart, BoardInv, LineInv, SealedInv, HistoryInv, StartsReady
    <3>2. ~At("failState") /\ ~At("reopenAbandoned") /\ ~At("reopenRejected")
      BY DEF At, Clear
    <3> QED
      BY <1>1, <1>3, <2>2, <3>1, <3>2 DEF Changes, Starts, Settles, Blocks, Reopens, Keeps,
         Pending, Finalizing, Status
  <2> QED
    BY <2>1, <2>2
<1> QED
  BY <1>2, <1>3, StepChanges

\* Only a close puts a candidate above the tip.
LEMMA AboveFollows ==
  ASSUME BoardInv, SealedInv', Next, NEW L, LineOf(L), HoldsStanding(L), NEW M, Follows(L, M)
  PROVE  /\ Above(M)' \subseteq Above(L) \cup {Len(log) + 1}
         /\ ~CommitStaged => Above(M)' \subseteq Above(L)
<1>1. Tip \in Nat /\ L \subseteq 0..Len(log) /\ Len(log) \in Nat
  BY TipOnLine
<1>2. LogKept /\ Tip' \in Nat /\ Tip <= Tip'
  BY LogStays, TipStep, NextTip, <1>1 DEF BoardInv, LineInv
<1>3. ASSUME NEW k \in L, Tip' < k, log'[k].task # 0 PROVE k \in Above(L)
  <2>1. k \in 1..Len(log) /\ Tip < k
    BY <1>1, <1>2, <1>3
  <2> QED
    BY <1>2, <1>3, <2>1 DEF LogKept, Above
<1>4. M \subseteq L \cup {Len(log) + 1}
  BY DEF Follows
<1>5. ASSUME ~CommitStaged, Len(log) + 1 \in M, Len(log) + 1 \notin L
      PROVE  log'[Len(log) + 1].task = 0
  <2>1. OutsideCommit
    BY <1>5 DEF Follows
  <2> QED
    BY <1>1, <2>1 DEF OutsideCommit, BoardInv, LineInv, SealedInv, HistoryInv, RuntimeInv, TypeOK,
       RepoTypes
<1> QED
  BY <1>3, <1>4, <1>5 DEF Above

\* Nothing is left above the tip when a rejected candidate is taken from the line.
LEMMA RetiredClear ==
  ASSUME BoardInv, SealedInv', Next, NEW L, LineOf(L), HoldsStanding(L), OwnAbove(L),
         NEW M, Follows(L, M), MoveRef, cmd'.step = "halfRetire" \/ head' # head
  PROVE  Above(M)' = {}
<1>1. PICK t \in Task : t = cmd.task
  BY CommandFacts DEF MoveRef, At, BoardInv, LineInv
<1>2. ~CommitStaged /\ ~OutsideCommit
  BY CommandFacts DEF MoveRef, CommitStaged, OutsideCommit, At, BoardInv, LineInv, SealedInv,
     HistoryInv, RuntimeInv, TypeOK, RepoTypes
<1>3. Above(M)' \subseteq Above(L)
  BY <1>2, AboveFollows
<1>4. CASE head' # head
  <2>1. head = Ev(t).final /\ HasFinal(t) /\ log[head].task = t /\ M = L \ {head}
    BY <1>1, <1>2, <1>4 DEF MoveRef, At, BoardInv, LineInv, GuardsHold, Retiring, FinalsAnchored,
       Follows
  <2>2. ASSUME NEW k \in Above(M)' PROVE FALSE
    <3>1. k \in Above(L) /\ k \in L /\ k # head /\ Tip < k
      BY <1>3, <2>1, <2>2 DEF Above
    <3>2. head \in L /\ k <= head
      BY <3>1 DEF LineOf
    <3>3. head \in Above(L)
      <4>1. Tip \in Nat /\ k \in Nat /\ head \in Nat
        BY <3>1, <3>2, TipOnLine
      <4> QED
        BY <1>1, <2>1, <3>1, <3>2, <4>1 DEF Above, Task
    <3> QED
      BY <3>1, <3>3 DEF OwnAbove
  <2> QED
    BY <2>2
<1>5. CASE head' = head
  <2>1. head = tasks[t].base
    <3>1. ~Finish
      BY <1>5 DEF Finish, Idle
    <3>2. Parent(Ev(t).final) = tasks[t].base /\ HasFinal(t)
      BY <1>1 DEF MoveRef, At, BoardInv, LineInv, GuardsHold, Retiring
    <3> QED
      BY <1>1, <1>5, <3>1 DEF MoveRef
  <2>2. Status(t) = "RUNNING"
    BY <1>1 DEF MoveRef, At, BoardInv, LineInv, SealedInv, Relies, Rejecting, Finalizing
  <2>3. head = Tip
    BY <2>1, <2>2 DEF BoardInv, PacketHolds, Engaged
  <2> QED
    BY <1>3, <2>3, TipOnLine
<1> QED
  BY <1>4, <1>5

\* The commit of a close is the only candidate above the tip.
LEMMA CommittedOwn ==
  ASSUME BoardInv, SealedInv', Next, NEW L, LineOf(L), HoldsStanding(L), OwnAbove(L),
         NEW M, Follows(L, M), CommitStaged
  PROVE  OwnAbove(M)'
<1>1. PICK t \in Task : t = cmd.task
  BY CommandFacts DEF CommitStaged, At, BoardInv, LineInv
<1>2. PICK n : n = Len(log) + 1
  OBVIOUS
<1>3. Above(M)' \subseteq {n}
  <2>1. Above(L) = {}
    BY DEF OwnAbove, CommitStaged, At, Clear
  <2> QED
    BY <1>2, <2>1, AboveFollows
<1>4. log'[n].task = t
  BY <1>1, <1>2 DEF CommitStaged, BoardInv, LineInv, SealedInv, HistoryInv, RuntimeInv, TypeOK,
     RepoTypes
<1>5. Pending(t)'
  <2>1. Pending(t)
    BY <1>1 DEF CommitStaged, At, BoardInv, LineInv, SealedInv, Relies, Closing, Unsourced, Pending
  <2> QED
    BY <2>1 DEF CommitStaged, stateVars, recordVars, Pending, Finalizing, Status, Ev, Att
<1>6. cmd'.step = "record"
  BY CommandFacts DEF CommitStaged, Commands, BoardInv, LineInv
<1>7. PICK A : A = Above(M)'
  OBVIOUS
<1>8. \A k \in A : Pending(log[k].task)'
  <2>1. \A k \in A : k = n
    BY <1>3, <1>7
  <2>2. Pending(log[n].task)'
    BY <1>4, <1>5 DEF Pending, Finalizing, Status, Ev, Att
  <2> QED
    BY <2>1, <2>2
<1> QED
  BY <1>3, <1>6, <1>7, <1>8 DEF OwnAbove, Clear

LEMMA OwnStays ==
  ASSUME BoardInv, SealedInv', Next, NEW L, LineOf(L), HoldsStanding(L), OwnAbove(L),
         NEW M, Follows(L, M), ~CommitStaged
  PROVE  OwnAbove(M)'
<1>1. PICK A : A = Above(M)' /\ A \subseteq Above(L)
  BY AboveFollows
<1>2. cmd'.step \in Clear => A = {}
  <2>1. Continues(Clear) => Above(L) = {}
    BY DEF Continues, OwnAbove
  <2>2. \A t \in Task : Opens(t) => Above(L) = {}
    BY OpensClear
  <2>3. MoveRef /\ cmd'.step = "halfRetire" => A = {}
    BY <1>1, RetiredClear
  <2>4. cmd'.step \in Clear => cmd'.step \notin Resealing
    BY DEF Clear, Resealing
  <2> QED
    BY <1>1, <2>1, <2>2, <2>3, <2>4, TipCommands DEF Else, Continues, Resealing, BoardInv, LineInv
<1>3. ASSUME NEW k \in A PROVE Pending(log[k].task)'
  <2>1. k \in Above(L) /\ k \in 1..Len(log) /\ log[k].task \in Task /\ Pending(log[k].task)
    BY <1>1, <1>3, TipOnLine DEF OwnAbove
  <2>2. PICK t \in Task : t = log[k].task
    BY <2>1
  <2>3. cmd.step \notin Clear
    BY <2>1 DEF OwnAbove
  <2>4. ~Accepts(t)
    <3>1. ASSUME Accepts(t) PROVE FALSE
      <4>1. Standing(t) /\ Status(t) # "PASS" /\ Status(t)' = "PASS"
        BY <3>1 DEF Accepts
      <4>2. Ev(t).final \in L /\ Tip < Ev(t).final /\ log[Ev(t).final].task = t
        BY <4>1, AboveTip DEF HoldsStanding, Standing, BoardInv, LineInv, FinalsAnchored
      <4>3. Ev(t).final = k
        BY <2>1, <4>2 DEF Above, OwnAbove, Task
      <4>4. Tip' = k
        <5>1. PICK u \in Task : Accepts(u) /\ Tip' = Ev(u).final
          BY <4>1, TipStep
        <5>2. u = t
          BY <3>1, <5>1, OneEngaged DEF Accepts, Engaged
        <5> QED
          BY <4>3, <5>1, <5>2
      <4>5. Tip' < k /\ k \in Nat
        BY <1>1, <1>3, <2>1 DEF Above
      <4> QED
        BY <4>4, <4>5
    <3> QED
      BY <3>1
  <2>5. Pending(t)'
    BY <2>1, <2>2, <2>3, <2>4, PendingStays
  <2>6. log'[k] = log[k]
    BY <2>1, LogStays DEF LogKept, BoardInv, LineInv
  <2> QED
    BY <2>2, <2>5, <2>6 DEF Pending, Finalizing, Status, Ev, Att
<1>4. \A j, k \in A : j = k
  BY <1>1 DEF OwnAbove
<1> QED
  BY <1>1, <1>2, <1>3, <1>4 DEF OwnAbove

LEMMA AcceptedPlace ==
  ASSUME BoardInv
  PROVE  /\ Len(log) \in Nat
         /\ \A t \in Accepted : /\ t \in Task /\ HasFinal(t) /\ tasks[t].accepted = Ev(t).final
                                /\ log[Ev(t).final].task = t
         /\ AcceptedCommits \subseteq 1..Len(log)
<1>1. \A t \in Accepted : t \in Task /\ HasFinal(t) /\ tasks[t].accepted = Ev(t).final
  BY DEF Accepted, BoardInv, LineInv, SealedInv, TaskInv
<1>2. \A t \in Accepted : Ev(t).final \in 1..Len(log) /\ log[Ev(t).final].task = t
  BY <1>1, FinalPlace DEF BoardInv, LineInv, FinalsAnchored
<1>3. Len(log) \in Nat
  BY AnchorsPlace DEF BoardInv, LineInv
<1> QED
  BY <1>1, <1>2, <1>3 DEF AcceptedCommits

\* Commits that collide go on colliding.
LEMMA DistinctStays == ASSUME BoardInv, Next, Distinct' PROVE Distinct
<1>1. LogKept /\ PassKept
  BY LogStays, PassStays DEF BoardInv, LineInv
<1>2. AcceptedCommits \subseteq AcceptedCommits'
  BY <1>1 DEF PassKept, AcceptedCommits, Accepted, Status
<1>3. AcceptedCommits \subseteq 1..Len(log) /\ Len(log) \in Nat /\ Len(log') \in Nat
  BY AcceptedPlace, StepBoard DEF BoardInv, LineInv, SealedInv, HistoryInv, RuntimeInv, TypeOK,
     RepoTypes
<1>4. ASSUME NEW c \in AcceptedCommits, NEW d \in 1..Len(log), FilesOfCommit(c) = FilesOfCommit(d)
      PROVE  log[c].task = log[d].task
  <2>1. c \in AcceptedCommits' /\ c \in 1..Len(log) /\ d \in 1..Len(log')
    BY <1>1, <1>2, <1>3 DEF LogKept
  <2>2. log'[c] = log[c] /\ log'[d] = log[d]
    BY <1>1, <2>1 DEF LogKept
  <2>3. PICK p, q : p = log[c] /\ q = log[d]
    OBVIOUS
  <2>4. FilesIn(p.content) = FilesIn(q.content)
    BY <1>4, <2>1, <2>3 DEF FilesOfCommit, Baseline
  <2>5. FilesOfCommit(c)' = FilesIn(p.content) /\ FilesOfCommit(d)' = FilesIn(q.content)
    BY <2>1, <2>2, <2>3 DEF FilesOfCommit, Baseline
  <2>6. log'[c].task = log'[d].task
    BY <2>1, <2>4, <2>5 DEF Distinct
  <2> QED
    BY <2>2, <2>6
<1> QED
  BY <1>4 DEF Distinct

\* A close that seals an accepted task again finds its commit at the tip.
LEMMA SealAtTip ==
  ASSUME TipInv, BeginSeal, Distinct, NEW t \in Task, t = cmd.task, Status(t) = "PASS"
  PROVE  Ev(t).final = Tip
<1>1. BoardInv /\ HasFinal(t) /\ Ev(t) = evidence[t][Att(t)]
  BY CommandFacts, EvWhole DEF BeginSeal, At, TipInv, BoardInv, LineInv, SealedInv, HistoryInv,
     RuntimeInv, CommandInv, Sealing
<1>2. /\ Ev(t).final \in AcceptedCommits /\ log[Ev(t).final].task = t
      /\ FilesOfCommit(Ev(t).final) = Material(t) /\ Material(t) # {} /\ TreeClean
  BY <1>1, AcceptedPlace DEF AcceptedCommits, Accepted, BeginSeal, FinalVerifies, SourceLoads
<1>3. head # packet[t]
  <2>1. WorkFiles = {}
    BY <1>2 DEF WorkFiles, TreeClean
  <2> QED
    BY <1>2, <2>1 DEF Material
<1>4. FilesOfCommit(head) = Material(t)
  BY <1>3 DEF Material
<1>5. head # Baseline
  BY <1>2, <1>4 DEF FilesOfCommit
<1>6. PICK L \in SUBSET Commit : LineOf(L) /\ HoldsStanding(L) /\ OwnAbove(L)
  BY DEF TipInv
<1>7. head \in 1..Len(log) /\ head \in L /\ Tip \in L /\ Tip \in Nat /\ Tip <= head
  BY <1>1, <1>5, <1>6, TipOnLine DEF LineOf, Baseline
<1>8. log[head].task = t
  BY <1>2, <1>4, <1>7 DEF Distinct
<1>9. head = Tip
  <2>1. ASSUME Tip < head PROVE FALSE
    <3>1. head \in Above(L)
      BY <1>7, <1>8, <2>1 DEF Above, Task
    <3>2. Pending(t)
      BY <1>6, <1>8, <3>1 DEF OwnAbove
    <3> QED
      BY <3>2 DEF Pending, Finalizing
  <2> QED
    BY <1>7, <2>1
<1>10. PICK u \in Accepted : head = tasks[u].accepted
  BY <1>1, <1>5, <1>9, TipTops DEF BoardInv, LineInv, Anchors, AcceptedCommits
<1>11. u = t /\ head = Ev(u).final
  BY <1>1, <1>8, <1>10, AcceptedPlace
<1> QED
  BY <1>9, <1>11

\* The base moves with the tip.
LEMMA BaseFollows ==
  ASSUME BoardInv, SealedInv', Next, BaseHolds
  PROVE  authorized' = Tip'
<1>1. ASSUME NEW t \in Task, Accepts(t) PROVE Promote \/ RecoverWrite
  BY <1>1 DEF Accepts
<1>2. CASE ~Promote /\ ~RecoverWrite
  BY <1>1, <1>2, TipStep, BaseStays DEF BaseHolds
<1>3. CASE Promote
  <2>1. PICK t \in Task : t = cmd.task
    BY <1>3, CommandFacts DEF Promote, At, BoardInv, LineInv
  <2>2. Status(t) \in {"RUNNING", "PASS"}
    BY <1>3, <2>1, CompletedStands DEF Promote, At, BoardInv, LineInv, SealedInv, Relies, Sealed
  <2>3. authorized' = Ev(t).final
    BY <1>3, <2>1, <2>2 DEF Promote
  <2>4. \A u \in Task : Accepts(u) => u = t /\ Status(t) = "RUNNING"
    BY <1>3, <2>1 DEF Accepts, Promote, RecoverWrite, At
  <2>5. CASE Status(t) = "PASS"
    <3>1. Ev(t).final = Tip
      BY <1>3, <2>1, <2>5 DEF BaseHolds, Promote, At, Resealing
    <3> QED
      BY <2>3, <2>4, <2>5, <3>1, TipStep
  <2>6. CASE Status(t) = "RUNNING"
    <3>1. Status(t)' = "PASS"
      <4> DEFINE new == [tasks[t] EXCEPT !.status = "PASS", !.phase = "NONE",
                                         !.accepted = Ev(t).final]
      <4>1. SetTask(t, new) /\ new.status = "PASS"
        BY <1>3, <2>1, <2>2, EvWhole DEF Promote, BoardInv, LineInv, TaskStates
      <4> HIDE DEF new
      <4> QED
        BY <4>1, Rewritten DEF Status
    <3>2. PICK u \in Task : Accepts(u) /\ Tip' = Ev(u).final
      BY <2>6, <3>1, TipStep
    <3> QED
      BY <2>3, <2>4, <3>2
  <2> QED
    BY <2>2, <2>5, <2>6
<1>4. CASE RecoverWrite
  <2> DEFINE ts == [t \in Task |-> Reconciled(t)]
  <2>1. tasks' = ts /\ authorized' = ReconciledHead(ts)
    BY <1>4 DEF RecoverWrite
  <2>2. ReconciledHead(ts) = DerivedHead(ts)
    BY DEF ReconciledHead, BaseHolds, Tip
  <2>3. Tip' = DerivedHead(ts)
    BY <2>1 DEF Tip, DerivedHead
  <2> QED
    BY <2>1, <2>2, <2>3
<1> QED
  BY <1>2, <1>3, <1>4

\* What a close that seals a task again has found stays true.
LEMMA ResealFollows ==
  ASSUME TipInv, SealedInv', Next, Distinct, cmd'.step \in Resealing
  PROVE  (Status(cmd.task) = "PASS" => Ev(cmd.task).final = Tip)'
<1>1. BoardInv /\ BaseHolds /\ ~Promote /\ ~RecoverWrite
  BY DEF TipInv, Promote, RecoverWrite, Finish, Idle, Resealing
<1>2. /\ cmd'.task = cmd.task
      /\ \/ BeginSeal /\ cmd.step = "accept"
         \/ cmd.step \in Resealing
  BY <1>1, TipCommands DEF BoardInv, LineInv, Else, Continues, Clear, Resealing, BeginSeal, At
<1>3. PICK t \in Task : t = cmd.task /\ t = cmd'.task
  BY <1>1, <1>2, CommandFacts DEF BoardInv, LineInv, Resealing
<1>4. SUFFICES ASSUME Status(t)' = "PASS" PROVE Ev(t)'.final = Tip'
  BY <1>3 DEF Status, Ev, Att
<1>5. Tip' = Tip /\ Status(t) = "PASS"
  BY <1>1, <1>4, TipStep DEF Accepts
<1>6. Ev(t).final = Tip
  BY <1>1, <1>2, <1>3, <1>5, SealAtTip DEF BaseHolds
<1>7. Ev(t)'.final = Ev(t).final
  <2>1. ~WriteFinal /\ \A u \in Task : \A r \in {FALSE, Reviewing} : ~CaptureCandidate(u, r)
    BY <1>2 DEF WriteFinal, CaptureCandidate, Closable, At, Resealing
  <2> QED
    BY <1>1, <1>5, <2>1, FinalsStay DEF BoardInv, LineInv, FinalsKept
<1> QED
  BY <1>5, <1>6, <1>7

LEMMA StepTip == TipInv /\ [Next]_vars => TipInv'
<1> SUFFICES ASSUME TipInv, [Next]_vars PROVE TipInv'
  OBVIOUS
<1>1. BoardInv' /\ SealedInv' /\ BoardInv
  BY StepBoard DEF TipInv, BoardInv, LineInv
<1>2. PICK L \in SUBSET Commit : LineOf(L) /\ HoldsStanding(L) /\ OwnAbove(L)
  BY DEF TipInv
<1>3. CASE Next
  <2>1. PICK M : LineOf(M)' /\ HoldsStanding(M)' /\ Follows(L, M)
    BY <1>1, <1>2, <1>3, LineFollows DEF BoardInv
  <2>2. OwnAbove(M)'
    BY <1>1, <1>2, <1>3, <2>1, OwnStays, CommittedOwn
  <2>3. M \in SUBSET Commit'
    BY <2>1 DEF LineOf
  <2>4. ASSUME Distinct' PROVE BaseHolds'
    <3>1. Distinct /\ BaseHolds
      BY <1>1, <1>3, <2>4, DistinctStays DEF TipInv
    <3> QED
      BY <1>1, <1>3, <3>1, BaseFollows, ResealFollows DEF BaseHolds
  <2> QED
    BY <1>1, <2>1, <2>2, <2>3, <2>4 DEF TipInv
<1>4. CASE UNCHANGED vars
  <2>1. UNCHANGED <<tasks, authorized, packet, evidence, log, head, cmd>>
    BY <1>4 DEF vars, stateVars, recordVars, repoVars
  <2>2. Tip' = Tip
    BY <1>1, <2>1, TipStays DEF BoardInv, LineInv, Status
  <2>3. LineOf(L)' /\ HoldsStanding(L)' /\ L \in SUBSET Commit'
    BY <1>2, <2>1 DEF LineOf, HoldsStanding, Standing, HasFinal, Ev, Att, Rejected, Parent, Commit
  <2>4. OwnAbove(L)'
    BY <1>2, <2>1, <2>2 DEF OwnAbove, Above, Pending, Finalizing, Status, Ev, Att
  <2>5. Distinct' => Distinct
    BY <2>1 DEF Distinct, AcceptedCommits, Accepted, Status, FilesOfCommit
  <2>6. BaseHolds => BaseHolds'
    BY <2>1, <2>2 DEF BaseHolds, Status, Ev, Att
  <2> QED
    BY <1>1, <2>3, <2>4, <2>5, <2>6 DEF TipInv
<1> QED
  BY <1>3, <1>4

LEMMA InitTip == Init => TipInv
<1> SUFFICES ASSUME Init PROVE TipInv
  OBVIOUS
<1>1. BoardInv
  BY InitPrepared
<1>2. \A t \in Task : Status(t) = "READY" /\ ~HasFinal(t)
  BY DEF Init, InitialTask, Status, HasFinal, Ev, Att, NoEvidence
<1>3. Tip = Baseline
  BY <1>2 DEF Tip, DerivedHead, Status
<1>4. LineOf({Baseline}) /\ HoldsStanding({Baseline})
  BY <1>2 DEF Init, LineOf, HoldsStanding, Standing, Baseline, Commit, Idle
<1>5. Above({Baseline}) = {}
  BY <1>3 DEF Above, Baseline
<1> QED
  BY <1>1, <1>3, <1>4, <1>5 DEF TipInv, OwnAbove, BaseHolds, Init, Idle, Resealing, LineOf

\* Whatever crashes, edits and outside commits do, and however often a task is
\* closed or recovered: as long as nobody else's commit changes the files of an
\* accepted one, the next task is handed the youngest accepted commit.
THEOREM BaseIsTip == Spec => []AuthorizedIsTip
<1>1. TipInv => AuthorizedIsTip
  BY DEF TipInv, BaseHolds, AuthorizedIsTip, Distinct, Tip
<1> QED
  BY <1>1, InitTip, StepTip, PTL DEF Spec
================================================================================
