------------------------------- MODULE Adoption -------------------------------
(***************************************************************************)
(* How the authorized base moves when no orchestrated finalization moves   *)
(* it: maintenance (one commit, a bootstrap or a range), a plan extension, *)
(* planned work done outside the lifecycle, the revalidation of a FAIL,    *)
(* the recovered finalization of an abandoned attempt and the close of a   *)
(* worker that commits itself.  Every command publishes evidence first and *)
(* the state last, one write at a time; a process may die before any write *)
(* and people commit meanwhile.  recover rebuilds the state from what is   *)
(* published.                                                              *)
(*                                                                         *)
(* History is linear: commit c has the parent c - 1 and 0 is the baseline. *)
(* The harness lock admits one command at a time.                          *)
(***************************************************************************)
EXTENDS Naturals, Sequences, FiniteSets, SequencesExt, FiniteSetsExt

CONSTANTS NumTasks,     \* the first is in the plan from the start, plan
                        \* edits append the others
          Deps,         \* blocked_by of every task
          MaxCommits,   \* bounds the history
          MaxFaults     \* crashes; bounds Crash

Tasks   == 1 .. NumTasks
Shas    == 0 .. MaxCommits
Nowhere == MaxCommits + 1   \* a walk over the records that met two ways on

ASSUME AdoptionConstants ==
  /\ NumTasks \in Nat \ {0} /\ MaxCommits \in Nat \ {0} /\ MaxFaults \in Nat
  /\ Deps \in [Tasks -> SUBSET Tasks]
  /\ \A t \in Tasks : \A d \in Deps[t] : d < t

VARIABLES
  log,     \* what every commit changes: [kind, task]; a plan edit names the
           \* last task of its plan
  patch,   \* where the uncommitted work of every task lies
  state,   \* state.json: [auth, task]
  ledger,  \* [maint, planned]: the adoption records
  paper,   \* every task's records and closing bundle
  cmd,     \* the command that runs, with the writes it still has to make
  faults   \* crashes so far

vars == <<log, patch, state, ledger, paper, cmd, faults>>

--------------------------------------------------------------------------------
(* Repository and plan.                                                    *)

\* "maint" stays within the maintenance paths, "plan" changes dev/plan.yaml
\* alone, "mixed" changes it with other files, "work" implements a task.
Kinds == {"maint", "plan", "mixed", "work"}

Tip == Len(log)
Between(a, b) == a + 1 .. b
EditsPlan(c) == log[c].kind \in {"plan", "mixed"}
PlanEdits(a, b) == {c \in Between(a, b) : EditsPlan(c)}

\* dev/plan.yaml at a commit, as its last task: it only grows.
PlanAt(c) == Max({1} \cup {log[e].task : e \in PlanEdits(0, c)})
AddedBy(a, b) == {t \in Tasks : PlanAt(a) < t /\ t <= PlanAt(b)}
InPlan == {t \in Tasks : t <= PlanAt(Tip)}

Clean == \A t \in Tasks : patch[t] \notin {"tree", "staged"}
NothingStaged == \A t \in Tasks : patch[t] # "staged"

--------------------------------------------------------------------------------
(* State and records.                                                      *)

NoTask == [status |-> "ABSENT", base |-> 0, accepted |-> 0]
Fresh  == [NoTask EXCEPT !.status = "READY"]

Status(t) == state.task[t].status
NoneRunning == \A t \in Tasks : Status(t) # "RUNNING"

NoCandidate == [commit |-> 0, base |-> 0, defect |-> FALSE]
NoPaper == [bound |-> FALSE, abandoned |-> FALSE, checkpoint |-> {},
            reval |-> NoCandidate, recov |-> NoCandidate,
            slot |-> "none", commit |-> 0, handoff |-> FALSE, manifest |-> FALSE]

Has(rec) == rec.commit # 0
From(records, a) == {r \in records : r.prev = a}

Idle == [name |-> "none", todo |-> <<>>, task |-> 1, target |-> 0, record |-> {}, flag |-> FALSE]
Op(name, t) == [op |-> name, task |-> t]

\* reconcileMaintenanceRecords and reconcilePlannedWorkAdoptions: follow the
\* records from `a`; two that start at one commit are refused.
Walk(records) ==
  LET w[a \in Shas] ==
        CASE From(records, a) = {} -> a
          [] Cardinality(From(records, a)) > 1 -> Nowhere
          [] OTHER -> w[(CHOOSE r \in From(records, a) : TRUE).adopted]
  IN w

\* reconcileAdoptionChain: the two families alternate until neither moves on.
Chain(a) ==
  LET f[n \in 0 .. MaxCommits] ==
        IF n = 0 THEN a
        ELSE LET b == f[n - 1]
                 m == IF b = Nowhere THEN Nowhere ELSE Walk(ledger.maint)[b]
             IN IF m = Nowhere THEN Nowhere ELSE Walk(ledger.planned)[m]
  IN f[MaxCommits]

\* maintenanceChainBetween: adopted maintenance alone leads from a to b, by one way.
Explained(a, b) ==
  LET w[c \in Shas] ==
        c = b \/ /\ Cardinality(From(ledger.maint, c)) = 1
                 /\ w[(CHOOSE r \in From(ledger.maint, c) : TRUE).adopted]
  IN a # b /\ w[a]

\* loadAdoptedTaskEvidence.
AdoptedIn(t) == {r \in ledger.planned : r.work[t] # 0}
Adopted(t) == AdoptedIn(t) # {}
AdoptedCommit(t) == (CHOOSE r \in AdoptedIn(t) : TRUE).work[t]
NoneTwice == \A t \in Tasks : Cardinality(AdoptedIn(t)) <= 1

\* verifyCloseBundle: a PASS whose record verifies, its note and its manifest.
RevalVerifies(t) ==
  paper[t].reval.defect => Explained(state.task[t].base, paper[t].reval.base)
Bundle(t) ==
  IF paper[t].slot # "PASS" THEN "NONE"
  ELSE IF /\ paper[t].handoff /\ paper[t].manifest
          /\ Has(paper[t].reval) => RevalVerifies(t)
       THEN "VALID" ELSE "INCOMPLETE"

--------------------------------------------------------------------------------
(* recover.                                                                *)

\* deriveAuthorizedHead: the last accepted commit of a task nobody adopted.
TaskBase(task) ==
  Max({0} \cup {task[t].accepted : t \in {u \in Tasks : task[u].status = "PASS" /\ ~Adopted(u)}})

Reconciled(t) ==
  LET before == IF Status(t) = "ABSENT" THEN Fresh ELSE state.task[t]
  IN CASE t \notin InPlan -> NoTask
       [] before.status # "PASS" /\ Bundle(t) = "VALID" ->
            [before EXCEPT !.status = "PASS", !.accepted = paper[t].commit]
       [] Adopted(t) /\ Bundle(t) = "NONE" ->
            [before EXCEPT !.status = "PASS", !.accepted = AdoptedCommit(t)]
       [] OTHER -> before

RecoveredBase(task) ==
  LET old == TaskBase(state.task)
  IN IF state.auth = old THEN TaskBase(task) ELSE state.auth

Recoverable == NoneTwice /\ Chain(RecoveredBase([t \in Tasks |-> Reconciled(t)])) # Nowhere

Recovered ==
  LET task == [t \in Tasks |-> Reconciled(t)]
  IN [auth |-> Chain(RecoveredBase(task)), task |-> task]

Init ==
  /\ log = <<>>
  /\ patch = [t \in Tasks |-> "none"]
  /\ state = [auth |-> 0, task |-> [t \in Tasks |-> IF t = 1 THEN Fresh ELSE NoTask]]
  /\ ledger = [maint |-> {}, planned |-> {}]
  /\ paper = [t \in Tasks |-> NoPaper]
  /\ cmd = Idle
  /\ faults = 0

Begin(c) ==
  /\ cmd = Idle
  /\ cmd' = c
  /\ UNCHANGED <<log, patch, state, ledger, paper, faults>>

--------------------------------------------------------------------------------
(* Maintenance.                                                            *)

Allowed(a, b) == \A c \in Between(a, b) : log[c].kind = "maint"
RecordAt(c) == {r \in ledger.maint : r.adopted = c}
Adoptable == Clean /\ NoneRunning

\* A mutant: a published record is resumed wherever the base is.
AnyStart(r) == TRUE
\* A record that exists is resumed only where it starts.
StartsHere(r) == r.prev = state.auth

MaintenanceRecord(kind, target) == [prev |-> state.auth, adopted |-> target, kind |-> kind]

\* A mutant: the state first.
PublishStateFirst(kind, target) ==
  [Idle EXCEPT !.name = "maintenance", !.target = target,
               !.record = {MaintenanceRecord(kind, target)},
               !.todo = <<Op("authorize", 1), Op("maintRecord", 1)>>]
\* The record first, the state last.
Publish(kind, target) ==
  [Idle EXCEPT !.name = "maintenance", !.target = target,
               !.record = {MaintenanceRecord(kind, target)},
               !.todo = <<Op("maintRecord", 1), Op("authorize", 1)>>]
Resume(target) ==
  [Idle EXCEPT !.name = "maintenance", !.target = target, !.todo = <<Op("authorize", 1)>>]

\* adoptMaintenance: HEAD, one commit ahead of the base; or, before any record
\* exists, a bootstrap of several.
AdoptMaintenance ==
  /\ Adoptable /\ Tip > state.auth
  /\ \/ /\ \E r \in RecordAt(Tip) : StartsHere(r)
        /\ Begin(Resume(Tip))
     \/ /\ RecordAt(Tip) = {} /\ Allowed(state.auth, Tip)
        /\ Tip = state.auth + 1 \/ ledger.maint = {}
        /\ Begin(Publish("maintenance", Tip))

\* adoptMaintenanceRange: two commits or more up to any target.
AdoptRange ==
  \E target \in 1 .. Tip :
    /\ Adoptable
    /\ \/ /\ \E r \in RecordAt(target) : r.kind = "range" /\ StartsHere(r)
          /\ Begin(Resume(target))
       \/ /\ RecordAt(target) = {} /\ Allowed(state.auth, target)
          /\ target >= state.auth + 2
          /\ Begin(Publish("range", target))

\* runMaintenanceStage: what the orchestrator adopts by itself. A chain that is
\* published and not yet in the state is only finished, never started again.
AutoMaintenance ==
  /\ Adoptable /\ Tip > state.auth
  /\ \A r \in RecordAt(Tip) : r.kind # "extension"
  /\ Walk(ledger.maint)[state.auth] \in {state.auth, Tip}
  /\ Walk(ledger.maint)[state.auth] = Tip => \E r \in RecordAt(Tip) : StartsHere(r)
  /\ \/ /\ Tip = state.auth + 1
        /\ AdoptMaintenance
     \/ /\ Tip > state.auth + 1
        /\ \/ /\ \E r \in RecordAt(Tip) : r.kind = "range" /\ StartsHere(r)
              /\ Begin(Resume(Tip))
           \/ /\ RecordAt(Tip) = {} /\ Allowed(state.auth, Tip)
              /\ Begin(Publish("range", Tip))

--------------------------------------------------------------------------------
(* Plan extension and planned work.                                        *)

Restated(name, target, record, first) ==
  [Idle EXCEPT !.name = name, !.target = target, !.record = record,
               !.todo = first \o <<Op("restate", 1)>>]

\* adoptPlanExtension: the one commit after the base, and no later plan edit.
AdoptExtension ==
  \E target \in 1 .. Tip :
    /\ Adoptable
    /\ PlanEdits(target, Tip) = {}
    /\ \/ /\ \E r \in RecordAt(target) :
               r.kind = "extension" /\ (StartsHere(r) \/ state.auth = target)
          /\ Begin(Restated("extension", target, {}, <<>>))
       \/ /\ RecordAt(target) = {}
          /\ target = state.auth + 1 /\ log[target].kind = "plan"
          /\ Begin(Restated("extension", target,
                {MaintenanceRecord("extension", target)},
                <<Op("maintRecord", 1)>>))

\* bindPlan: one commit of the range extends the plan, and the plan is the target's.
BindsPlan(target) ==
  /\ Cardinality(PlanEdits(state.auth, target)) = 1
  /\ PlanAt(Tip) = PlanAt(target)

\* classifyRange: every commit of the range has a role, and the operator names
\* them truthfully: a commit that implements a task is mapped to it.
WorkOf(target) ==
  [t \in Tasks |->
     LET at == {c \in Between(state.auth, target) : log[c] = [kind |-> "work", task |-> t]}
     IN IF at = {} THEN 0 ELSE Min(at)]

\* assertTasksAdoptable, whose own validations pass at their commits.
\* A mutant: a dependency need only be in the plan.
InPlanOnly(work, t) == \A d \in Deps[t] : d \in InPlan
InOrder(work, t) ==
  \A d \in Deps[t] : IF work[d] # 0 THEN work[d] < work[t] ELSE Status(d) = "PASS"

AdoptableTasks(work, target) ==
  \A t \in {u \in Tasks : work[u] # 0} :
    /\ work[t] > Max(PlanEdits(state.auth, target))
    /\ t \in AddedBy(state.auth, target)
    /\ Status(t) # "PASS" /\ Bundle(t) # "VALID"
    /\ InOrder(work, t)

PlannedAt(c) == {r \in ledger.planned : r.adopted = c}

PlannedRecord(target) ==
  [prev |-> state.auth, adopted |-> target, work |-> WorkOf(target)]

\* adoptPlannedWorkRange.
AdoptPlanned ==
  \E target \in 1 .. Tip :
    /\ Adoptable
    /\ \/ /\ \E r \in PlannedAt(target) : StartsHere(r) \/ state.auth = target
          /\ Begin(Restated("planned", target, {}, <<>>))
       \/ /\ PlannedAt(target) = {} /\ target > state.auth
          /\ BindsPlan(target)
          /\ \E t \in Tasks : WorkOf(target)[t] # 0
          /\ AdoptableTasks(WorkOf(target), target)
          /\ Begin(Restated("planned", target,
                {PlannedRecord(target)},
                <<Op("plannedRecord", 1)>>))

--------------------------------------------------------------------------------
(* Attempts that end outside the orchestrated finalization.                *)

Selectable(t) ==
  /\ cmd = Idle /\ NoneRunning
  /\ Status(t) = "READY" /\ \A d \in Deps[t] : Status(d) = "PASS"
  /\ Tip = state.auth /\ Clean
  /\ state.task[t].base = 0 /\ ~paper[t].abandoned

\* A worker's attempt fails its official validation.
AttemptFails(t) ==
  /\ Selectable(t)
  /\ state' = [state EXCEPT !.task[t].status = "FAIL", !.task[t].base = Tip]
  /\ patch' = [patch EXCEPT ![t] = "tree"]
  /\ paper' = [paper EXCEPT ![t].slot = "FAIL"]
  /\ UNCHANGED <<log, ledger, cmd, faults>>

\* It reports that its environment blocked it, and dev-retry abandons it.
AttemptAbandoned(t) ==
  /\ Selectable(t)
  /\ state' = [state EXCEPT !.task[t].base = Tip]
  /\ patch' = [patch EXCEPT ![t] = "tree"]
  /\ paper' = [paper EXCEPT ![t].abandoned = TRUE]
  /\ UNCHANGED <<log, ledger, cmd, faults>>

\* A worker that owns its commits makes one.
AttemptCommits(t) ==
  /\ Selectable(t) /\ Tip < MaxCommits
  /\ state' = [state EXCEPT !.task[t].status = "RUNNING", !.task[t].base = Tip]
  /\ log' = Append(log, [kind |-> "work", task |-> t])
  /\ UNCHANGED <<patch, ledger, paper, cmd, faults>>

\* bindRevalidationSource: the patch of the FAIL is still there to be bound.
BindSource(t) ==
  /\ cmd = Idle
  /\ Status(t) = "FAIL" /\ paper[t].slot = "FAIL" /\ ~paper[t].bound
  /\ patch[t] = "tree" /\ Tip = state.auth
  /\ paper' = [paper EXCEPT ![t].bound = TRUE]
  /\ UNCHANGED <<log, patch, state, ledger, cmd, faults>>

--------------------------------------------------------------------------------
(* Revalidation, recovered finalization and the worker-owned close.        *)

Seal(t) == <<Op("completion", t), Op("handoff", t), Op("manifest", t)>>
Settling(name, t, defect, todo) ==
  [Idle EXCEPT !.name = name, !.task = t, !.target = state.auth, !.flag = defect, !.todo = todo]

\* assertCandidate: the commit is the task's, made directly on the base.
IsCandidate(t, c, base) == c = base + 1 /\ log[c] = [kind |-> "work", task |-> t]

\* A mutant: the state before the bundle.
PromoteFirst(t) == <<Op("record", t), Op("promote", t)>> \o Seal(t)
RestOf(t) == <<Op("record", t)>> \o Seal(t) \o <<Op("promote", t)>>

\* revalidateOrchestrated.
Revalidate(t) ==
  \/ /\ Has(paper[t].reval) /\ RevalVerifies(t)
     /\ Begin(Settling("revalidate", t, FALSE, Seal(t) \o <<Op("promote", t)>>))
  \/ \E defect \in BOOLEAN :
       /\ ~Has(paper[t].reval)
       /\ Status(t) = "FAIL" /\ NoneRunning
       /\ paper[t].bound /\ paper[t].slot = "FAIL"
       /\ defect => Explained(state.task[t].base, state.auth)
       /\ \/ /\ paper[t].checkpoint = {}
             /\ Tip = state.auth /\ NothingStaged /\ patch[t] = "tree"
             /\ Begin(Settling("revalidate", t, defect,
                   <<Op("stage", t), Op("checkpoint", t), Op("commit", t)>> \o RestOf(t)))
          \/ /\ paper[t].checkpoint = {[base |-> state.auth, defect |-> defect]}
             /\ Tip = state.auth /\ patch[t] \in {"tree", "staged"}
             /\ Begin(Settling("revalidate", t, defect,
                   <<Op("stage", t), Op("commit", t)>> \o RestOf(t)))
          \/ /\ paper[t].checkpoint = {[base |-> state.auth, defect |-> defect]}
             /\ Tip # state.auth /\ Clean /\ IsCandidate(t, Tip, state.auth)
             /\ Begin(Settling("revalidate", t, defect, RestOf(t)))

\* finalizeRecovered.
FinalizeRecovered(t) ==
  \/ /\ Has(paper[t].recov) /\ Status(t) \in {"READY", "PASS"} /\ NoneRunning
     /\ Begin(Settling("recovered", t, FALSE, Seal(t) \o <<Op("promote", t)>>))
  \/ /\ ~Has(paper[t].recov)
     /\ Status(t) = "READY" /\ NoneRunning
     /\ paper[t].abandoned /\ NothingStaged
     /\ \/ /\ Tip = state.auth /\ patch[t] = "tree"
           /\ Begin(Settling("recovered", t, FALSE,
                 <<Op("stage", t), Op("commit", t)>> \o RestOf(t)))
        \/ /\ Tip # state.auth /\ Clean /\ IsCandidate(t, Tip, state.auth)
           /\ Begin(Settling("recovered", t, FALSE, RestOf(t)))

\* closeTask of a worker that commits: its validations pass, or they do not.
CloseWorkerOwned(t) ==
  /\ Status(t) = "RUNNING" /\ Clean
  /\ IsCandidate(t, Tip, state.task[t].base)
  /\ \/ Begin(Settling("close", t, FALSE, Seal(t) \o <<Op("promote", t)>>))
     \/ Begin(Settling("close", t, FALSE, <<Op("rejected", t), Op("fail", t)>>))

\* recover with its seals, and the write of what it found.
Unsealed == {t \in InPlan : Status(t) # "PASS" /\ Bundle(t) # "VALID"
                            /\ ~(Adopted(t) /\ Bundle(t) = "NONE")
                            /\ \/ Has(paper[t].reval) /\ RevalVerifies(t)
                               \/ Has(paper[t].recov)}
Recover ==
  /\ Begin([Idle EXCEPT !.name = "recover",
              !.todo = FlattenSeq([i \in 1 .. NumTasks |->
                                     IF i \in Unsealed THEN Seal(i) ELSE <<>>])
                       \o <<Op("restate", 1)>>])
  /\ Unsealed # {} \/ (Recoverable /\ Recovered # state)

--------------------------------------------------------------------------------
(* The writes.                                                             *)

Now == cmd.todo[1]
Doing(op) == cmd.todo # <<>> /\ Now.op = op
Rest == IF Len(cmd.todo) = 1 THEN Idle ELSE [cmd EXCEPT !.todo = Tail(@)]
Goes(onward) == cmd' = IF onward THEN Rest ELSE Idle

WriteMaintenanceRecord ==
  /\ Doing("maintRecord")
  /\ ledger' = [ledger EXCEPT !.maint = @ \cup cmd.record]
  /\ Goes(TRUE)
  /\ UNCHANGED <<log, patch, state, paper, faults>>

WritePlannedRecord ==
  /\ Doing("plannedRecord")
  /\ ledger' = [ledger EXCEPT !.planned = @ \cup cmd.record]
  /\ Goes(TRUE)
  /\ UNCHANGED <<log, patch, state, paper, faults>>

Authorize ==
  /\ Doing("authorize")
  /\ state' = [state EXCEPT !.auth = cmd.target]
  /\ Goes(TRUE)
  /\ UNCHANGED <<log, patch, ledger, paper, faults>>

\* recover, alone or as the end of an adoption; ambiguous records stop it.
Restate ==
  /\ Doing("restate")
  /\ state' = IF Recoverable THEN Recovered ELSE state
  /\ Goes(TRUE)
  /\ UNCHANGED <<log, patch, ledger, paper, faults>>

Stage ==
  /\ Doing("stage")
  /\ LET there == patch[Now.task] \in {"tree", "staged"}
     IN /\ patch' = IF there THEN [patch EXCEPT ![Now.task] = "staged"] ELSE patch
        /\ Goes(there)
  /\ UNCHANGED <<log, state, ledger, paper, faults>>

WriteCheckpoint ==
  /\ Doing("checkpoint")
  /\ paper' = [paper EXCEPT ![Now.task].checkpoint = {[base |-> cmd.target, defect |-> cmd.flag]}]
  /\ Goes(TRUE)
  /\ UNCHANGED <<log, patch, state, ledger, faults>>

CommitCandidate ==
  /\ Doing("commit") /\ Tip < MaxCommits
  /\ LET staged == patch[Now.task] = "staged"
     IN /\ log' = IF staged THEN Append(log, [kind |-> "work", task |-> Now.task]) ELSE log
        /\ patch' = IF staged THEN [patch EXCEPT ![Now.task] = "none"] ELSE patch
        /\ Goes(staged)
  /\ UNCHANGED <<state, ledger, paper, faults>>

\* The candidate is proved once more before its record is written.
WriteRecord ==
  /\ Doing("record")
  /\ LET good == Clean /\ IsCandidate(Now.task, Tip, cmd.target)
         rec  == [commit |-> Tip, base |-> cmd.target, defect |-> cmd.flag]
     IN /\ paper' = CASE good /\ cmd.name = "revalidate" -> [paper EXCEPT ![Now.task].reval = rec]
                      [] good /\ cmd.name = "recovered" -> [paper EXCEPT ![Now.task].recov = rec]
                      [] OTHER -> paper
        /\ Goes(good)
  /\ UNCHANGED <<log, patch, state, ledger, faults>>

CandidateOf(t) ==
  CASE Has(paper[t].reval) -> paper[t].reval.commit
    [] Has(paper[t].recov) -> paper[t].recov.commit
    [] OTHER -> state.task[t].base + 1

\* The three files of the bundle. A recovered finalization never overwrites one.
WriteCompletion ==
  /\ Doing("completion")
  /\ LET t == Now.task
     IN /\ paper' = [paper EXCEPT ![t].slot = "PASS", ![t].commit = CandidateOf(t)]
        /\ Goes(TRUE)
  /\ UNCHANGED <<log, patch, state, ledger, faults>>
WriteHandoff ==
  /\ Doing("handoff")
  /\ paper' = [paper EXCEPT ![Now.task].handoff = TRUE]
  /\ Goes(TRUE)
  /\ UNCHANGED <<log, patch, state, ledger, faults>>
WriteManifest ==
  /\ Doing("manifest")
  /\ paper' = [paper EXCEPT ![Now.task].manifest = TRUE]
  /\ Goes(TRUE)
  /\ UNCHANGED <<log, patch, state, ledger, faults>>

\* promoteState, finishState and the end of closeTask: the task and the base,
\* in one write of state.json, unless the task is PASS already.
MovesBase(t) ==
  CASE cmd.name = "close"      -> TRUE
    [] cmd.name = "revalidate" -> state.auth = paper[t].reval.base
    [] OTHER                   -> state.auth = paper[t].recov.base /\ Status(t) = "READY"
Promote ==
  /\ Doing("promote")
  /\ LET t == Now.task
     IN state' = IF Status(t) # "PASS" /\ MovesBase(t)
                   THEN [auth |-> paper[t].commit,
                         task |-> [state.task EXCEPT ![t].status = "PASS",
                                                     ![t].accepted = paper[t].commit]]
                   ELSE state
  /\ Goes(TRUE)
  /\ UNCHANGED <<log, patch, ledger, paper, faults>>
\* finishFail: the rejection, then the state.
WriteRejection ==
  /\ Doing("rejected")
  /\ paper' = [paper EXCEPT ![Now.task].slot = "FAIL"]
  /\ Goes(TRUE)
  /\ UNCHANGED <<log, patch, state, ledger, faults>>
Fail ==
  /\ Doing("fail")
  /\ state' = [state EXCEPT !.task[Now.task].status = "FAIL"]
  /\ Goes(TRUE)
  /\ UNCHANGED <<log, patch, ledger, paper, faults>>

Step ==
  \/ WriteMaintenanceRecord \/ WritePlannedRecord \/ Authorize \/ Restate
  \/ Stage \/ WriteCheckpoint \/ CommitCandidate \/ WriteRecord
  \/ WriteCompletion \/ WriteHandoff \/ WriteManifest \/ Promote
  \/ WriteRejection \/ Fail

--------------------------------------------------------------------------------
(* Crashes and people.                                                     *)

Crash ==
  /\ cmd # Idle /\ faults < MaxFaults
  /\ faults' = faults + 1
  /\ cmd' = Idle
  /\ UNCHANGED <<log, patch, state, ledger, paper>>

Worth(kind, t) ==
  CASE kind \in {"plan", "mixed"} -> t > PlanAt(Tip)
    [] kind = "maint" -> t = 1
    [] OTHER -> \A c \in 1 .. Tip : log[c] # [kind |-> "work", task |-> t]

PersonCommits ==
  /\ Tip < MaxCommits
  /\ \E kind \in Kinds, t \in Tasks :
       /\ Worth(kind, t)
       /\ log' = Append(log, [kind |-> kind, task |-> t])
  /\ UNCHANGED <<patch, state, ledger, paper, cmd, faults>>

\* A person puts a task's uncommitted work aside, and brings it back.
PersonMovesPatch ==
  /\ \E t \in Tasks :
       \/ /\ patch[t] \in {"tree", "staged"} /\ patch' = [patch EXCEPT ![t] = "aside"]
       \/ /\ patch[t] = "aside" /\ patch' = [patch EXCEPT ![t] = "tree"]
  /\ UNCHANGED <<log, state, ledger, paper, cmd, faults>>

Command ==
  \/ AdoptMaintenance \/ AdoptRange \/ AutoMaintenance \/ AdoptExtension \/ AdoptPlanned
  \/ Recover
  \/ \E t \in Tasks : AttemptFails(t) \/ AttemptAbandoned(t) \/ AttemptCommits(t)
  \/ \E t \in Tasks : BindSource(t) \/ Revalidate(t) \/ FinalizeRecovered(t) \/ CloseWorkerOwned(t)

Next == Command \/ Step \/ Crash \/ PersonCommits \/ PersonMovesPatch

Spec == Init /\ [][Next]_vars

--------------------------------------------------------------------------------
(* Properties.                                                             *)

\* No commit is under the authorized base that nothing accounts for: each is
\* inside an adoption record or is the candidate a task was closed with, whoever
\* died between a record and the state.
LedgerCovers ==
  \A c \in 1 .. state.auth :
    \/ \E r \in ledger.maint \cup {[prev |-> p.prev, adopted |-> p.adopted] : p \in ledger.planned} :
         c \in Between(r.prev, r.adopted)
    \/ \E t \in Tasks : Status(t) = "PASS" /\ paper[t].slot = "PASS" /\ paper[t].commit = c
    \/ \E t \in Tasks : Status(t) = "PASS" /\ state.task[t].accepted = c

\* A task is PASS by its closing bundle or by an adoption, and the state says
\* of its commit what that evidence says.
ProvedPass ==
  \A t \in Tasks : Status(t) = "PASS" =>
    \/ Bundle(t) = "VALID" /\ state.task[t].accepted = paper[t].commit
    \/ Bundle(t) = "NONE" /\ Adopted(t) /\ state.task[t].accepted = AdoptedCommit(t)

\* Work is accepted after the work it depends on, in the history too.
DependenciesFirst ==
  \A t \in Tasks : Status(t) = "PASS" =>
    \A d \in Deps[t] :
      Status(d) = "PASS" /\ state.task[d].accepted < state.task[t].accepted

\* The authorized base never goes back along the history.
BaseOnlyAdvances == [][state'.auth >= state.auth]_vars

================================================================================
