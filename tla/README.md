# Formal model of the agent-strategy-lab harness

The repository runs coding agents on the microtasks of a plan, one disposable
session per task, and accepts what they did into a git repository only after an
official validation gate, a commit of the orchestrator's own and, where the run
demands it, an independent review. What it promises is about histories: a crash
between any two writes, a worker that outlives its launcher, a person who edits
the checkout, a retry of something half done. This directory models the parts that
carry those promises (the *task runtime* of `src/dev/lib`, the orchestrator over it,
the ways work and bases are recovered, the planning, routing and history of projects
around it, and the automation of incidents), checks them with TLC and proves parts of
them with TLAPS.

    tlc -workers 2 -config MCOneTask.cfg MCTaskRuntime     # a run
    tlapm TaskRuntimeHistory.tla                           # a proof module

`PROJECT.json` lists components, runs, mutants, the map from definitions to source
lines, findings, hazards and theorems.

## 1. Inventory

### The two halves of the repository

* `src/src` is the product: schemas, planner, routing, experiment runner, storage
  of runs, quota and billing probes, evaluation, reporting. Mostly sequential
  computation and I/O over files it owns.
* `src/dev` is the harness that develops it (and any other repository):
  `dev/lib` (104 files, 45,000 lines) with thin command lines in `dev/cli`. All the
  concurrent, crash-sensitive state is here.

### Components of the task runtime

| component | state | operations | what makes it correct |
|---|---|---|---|
| lock (`lock.ts`) | the file `orchestrator.lock` | acquire, judge an orphan, release | no two commands change state together; a dead owner never locks the harness |
| state and records (`state.ts`, `records.ts`, `atomic.ts`, `schemas.ts`) | `state.json`; one slot per task for packet, launch, completion, handoff, manifest; append-only records per attempt | atomic replacement, write-once | slots belong to the attempt in progress; every earlier attempt has its record |
| selection (`select.ts`, `base-guard.ts`) | none of its own | next task, base guard | one task at a time, after its dependencies, from the accepted tip |
| launch (`steps.ts`, `launch.ts`, `inbox-artifacts.ts`) | worker processes, the inbox | spawn, open record, `onStarted`, termination, settle | one session per attempt; a dead worker never leaves a task RUNNING |
| close (`finalize-orchestrated.ts`, `candidate-review.ts`, `failed-attempt-source.ts`) | HEAD, index, tree; finalization record; review record; sealed FAIL | gate, stage, commit, record, review, seal, promote, FAIL | PASS only on the agreement of everything published; every crash resumable |
| retry (`retry.ts`, `retry-failed.ts`, `failed-attempt-bundle.ts`) | abandonment, failed and rejected records, bundles | archive, release slots, reset the tree, reopen | nothing is reset before it is preserved |
| recovery (`recover.ts`) | none of its own | seal and promote from the records, orphans to INFRA_ERROR | state.json converges to the records |

They interact through shared state only. The commands read and replace
`state.json`, publish records, and move the same checkout in which the worker
writes; they are serialised by the lock; a worker is a detached process that
shares nothing with them but the checkout and its inbox. `dev-orchestrate` holds the
lock over its whole loop and calls the same functions.

### Components around the task runtime

| component | state | operations | what makes it correct |
|---|---|---|---|
| orchestration loop (`orchestrate.ts`, `orchestrate-preflight.ts`) | the memory of one invocation | resume, preflight, select, launch, close, repair, escalate, halt | it ends; validated work is never abandoned to a reopening |
| automatic repair (`automatic-repair.ts`) | grants and their receipts; the records of earlier attempts, which it reads | decide, reconcile, grant, consume | one repair per task and one per grant, whatever was restarted |
| control plane (`project-run.ts`, `project-orchestrate.ts`, `src/routing/escalation.ts`) | review requirements, escalated profiles and authorizations, all in memory | diagnose, climb the ladder, review, reconcile a rejection | a review that is due is not skipped; a climb stays inside what was authorised |
| recovery of attempts (`infra-recover.ts`, `protocol-output-recovery.ts`, `incomplete-worker-output-recovery.ts`, `retry.ts`; rehydration in `steps.ts`) | bundles, archives and records per attempt; the inbox | archive, preserve, reset, record, reopen, rehydrate | no file of the worker or of a person is lost; no foreign file is taken for the worker's |
| moves of the base (`maintenance.ts`, `planned-work-adoption.ts`, `plan-extension.ts`, `revalidate.ts`, `finalize-recovered.ts`, `close.ts`, `recover.ts`) | adoption records; bundles | adopt a commit, a range, a plan edit, planned work; revalidate; close; reconstruct | every commit under the base is accounted for; PASS means proved |
| planning (`run-project.ts`, `run-plan.ts`, `init-runtime.ts`, `src/planner`) | plan file, deliberation artifact, first state | choose and ask a planner, gates, deliberation, seal, initialise, orchestrate | what is executed passed the gates and can be finished |
| project history (`project-run.ts`, `project-history.ts`, `src/storage`, `src/performance`, `src/routing`) | run directories, index, bindings; the episode in memory | materialise an attempt, bind it, query, route | the history says who began a piece of work and how it ended |
| routine autonomy (`routine-autonomy.ts`, `routine-autonomy-runtime.ts`) | write-once incident events; clones; origin | triage, recover, maintain, review, publish, adopt, retry | only reviewed work is published, only published work adopted; budgets hold |

The other components (worker supervision, the lab console, the doctor, the command
lines, the experiment runner) are in `PROJECT.json` with the reason they are not modelled.

### What is hard here

1. Every command is a sequence of durable writes, and may die between any two.
2. `state.json` follows the effects: the worker exists before the state says
   RUNNING, the bundle before the state says PASS, the record of a FAIL before the
   state says FAIL. Recovery has to guess nothing.
3. The checkout is shared with the worker and with people; the code defends itself
   with fingerprints, file lists and parent checks, each at one instant.
4. One slot per task (completion, launch, inbox) is reused by successive attempts.
5. The lock is a file that processes judge and remove by name.
6. What an orchestrator knows beyond the records (that a candidate owes a review, which
   profile a task was escalated to, which episode an attempt belongs to) is memory of one
   process, and the next process has to infer it.
7. The same task is reopened by several mechanisms with budgets of their own: operational
   retries, the bounded repair, grants, escalations, recoveries, and people.
8. The authorised base is the end of a chain of records written by commands that may die
   between a record and the state, over commits other people make meanwhile.

The hazards in `PROJECT.json` give the lines.

## 2. Modules

    HarnessLock                         RuntimeState     state, records, repository, selection
      MCHarnessLock (runs)                Launching      prepare, launch, worker
      HarnessLockProofs                     Finalization dev-close
                                              Retrying   dev-retry, dev-retry-failed, review repair
    TaskBoard  (abstract)                       Recovery dev-recover
                                                  TaskRuntime     composition, environment, properties
                                                    MCTaskRuntime (runs)
                                                    TaskRuntimeHistory, -Seals, -Line, -Board (proofs)

**HarnessLock** has one action per file-system call of `acquireLock` and `release`:
`Create` (open with O_EXCL leaves an *empty* file), `Write`, `ReadOwner`, `Judge`,
`Unlink`, `CheckOwner`, `Remove`. `owner` is the creator of the file that exists, `written`
whether it is filled in; `robbed` is a history variable with the live processes whose file
another process has removed. A process dies at any point.

**RuntimeState** declares all the shared variables.

| variable | in the code |
|---|---|
| `tasks`, `authorized` | `state.json`: the `TaskState` of each task, `authorized_head_sha` |
| `packet`, `launch`, `completion`, `handoff`, `manifest` | the records with one slot per task |
| `evidence[t][a]` | the append-only records of attempt `a`: archive and binding of an official FAIL (`archive`, `source`), finalization record (`final`, `measured`, `required`, `worker`), review, closing records (`closed`), archived copies of the verdict and the note |
| `note` | `report.json` and `handoff-draft.json` in the inbox, as one pair |
| `spawned`, `live` | every worker process born, and those alive |
| `log`, `head`, `tree`, `staged` | commits, HEAD, working tree, index |
| `cmd` | the running command: its step and what it holds in memory |

A content of the tree is a patch; `Touches` gives the set of files it changes, so
that contents can differ while the file lists the code compares agree. `-p` is
patch `p` half reset. Hashes and fingerprints are equality of contents.

**Launching, Finalization, Retrying, Recovery** translate the commands. A command starts
with an action that has all the guards up to its first durable write and makes
that write; every later durable write is a step of its own. Reads and checks between
two writes belong to the step that follows them. `PENDING` outcomes only write
diagnostics, which the model leaves out, so they are stuttering steps or `Finish`. The
gate is the exception to this atomicity: it takes time, so starting it (first
fingerprint) and ending it (second fingerprint) are two steps, and so are staging
and committing, because people and workers may touch the tree in between.

**TaskRuntime** composes them: any command may start when none runs, workers edit,
report and end at any time, people edit or commit, and the running command may die
(`Crash`: its memory goes, its workers live on). The serialisation of commands is
assumed here; HarnessLock says when it holds.

**TaskBoard** is the abstract specification of what a reader of the plan is promised:
tasks move between todo, working, accepted and blocked; a task starts alone, after
its dependencies, from the task accepted last; it is accepted only while that
is still the task accepted last; accepted tasks stay accepted. `ImplementsBoard` is the refinement,
with status mapped to columns and commits to the tasks they belong to.

### The modules above the task runtime

    RepairPolicy        records of attempts, the policy, grants
      ControlPlane      memory of a project run, escalation (INSTANCE EscalationLadder),
                        reviews (INSTANCE CandidateReview, CandidateReviewProofs beside it)
        Orchestration   one invocation after another        MCOrchestration (runs)
        ProjectHistory  attempts as runs of the laboratory  MCProjectHistory (run)
                        (INSTANCE Routing, PerformanceHistory, RunStorage, ProviderGates)
    AttemptRecovery     attempts without a verdict          MCAttemptRecovery (run)
    Adoption            moves of the base                   MCAdoption (run)
    PlanGates, ProviderGates
      ProjectPlanning   dev-run-project                     MCProjectPlanning (run)
    RoutineAutonomy     incidents of a blocked preflight    MCRoutineAutonomy (runs)

They are models of their own, each with its own view of the state, and not extensions of
TaskRuntime: each keeps what its code reads and writes and replaces the rest by an
outcome. What connects them is the code's own interface: Orchestration's `Close` may
end in any way Finalization does, AttemptRecovery begins where a launch ended without a
verdict, Adoption moves the base TaskRuntime starts from.

**RepairPolicy, ControlPlane, EscalationLadder** are the decisions.
`Decide` walks the closed attempts backwards as `walkValidationFails` does and says
whether a repair is allowed, exhausted, blocked or not applicable; `ApplyGrant`, `Reconcile` and
`Archived` are the writes that follow. `Assessed`, `Escalation`, `Escalate` and
`ReopensRejected` are `beforeWorkUnit`, `onRepairExhausted` and
`reconcilePendingReviewRejection` of the control plane. EscalationLadder holds
`decideEscalation` with its diagnosis, the autonomous boundary and the billing guard.

**CandidateReview** is the review of a prepared candidate as functions: what an answer is worth
(`Verdict`, of `assessExtractedReviewerVerdict` and the schema of the record), what one reviewer may
come to (`Invoked`, `Launched`: gates, one correction, failures of the transport) and
how the review goes from reviewer to reviewer (`SelectReviewer`, `Reviewed`). ControlPlane computes from
them all a review may come to, for each implementer and mode (`ReviewOutcomes`: every pin, diversity,
set of exhausted pools, of profiles the catalog lost and of recorded failures, and every answer), and
Orchestration's `Review` and `ReviewUnavailable` choose among these.

**Orchestration** has one action per stage of `runOrchestrate` that ends in a durable
change or a decision; `run.at` is the place in the function, `run` the rest of its
memory, and `Stop` the report with which it ends. `task[t]` keeps the status, the kind of
records that closed each attempt, the profile that ran it and what its worker left.
`Mode` is the command line: with or without a control plane, routine autonomy, review, a
profile, an iteration limit. A process dies at any step (`Crash`). Every archival is two writes, the
record and then the state that reopens the task, and may die between them: in an invocation
(`CrashArchiving`; `CrashRepairing` in the repair, where the receipt of a grant comes first) or in a
person's command (`CommandArchives`). `torn[t]` keeps the records such deaths left on the
last attempt with the reason each was given, because a repetition is accepted only with the
same one (`Agrees`). People recover, retry, abandon and grant.

**AttemptRecovery** has the four commands that give a task back without a verdict. A
command is a list of writes (`cmd.todo`), each an operation of `Write` made in the code's
order; a crash leaves the rest undone and the command is repeated or another one
run. A file's content is who wrote it, which is all that decides whether work is lost or
a person's file is taken.

**Adoption** has every command that moves `authorized_head_sha` outside the orchestrated
finalization, as guards and lists of writes in the same style, and `recover`, which
follows the records from the tasks' own base to the end of the chain (`Between`, a
recursive function; `Nowhere` when records fork).

**PlanGates, ProviderGates, ProjectPlanning**: the gates as predicates over a draft
reduced to what they read; the facts of providers, the choice of planner and
deliberators; and the run of `dev-run-project` from the plan file to orchestration,
with the files it seals. Facts are drawn anew at each observation.

**Routing, PerformanceHistory, RunStorage, ProjectHistory**: the router and its balance
of evidence; the query that puts attempts together into episodes and series;
the sealed run directories; and the run of the control plane that writes them and is
routed by them. `run.episode` is the memory of which episode a task is in, `told` what a run
directory says, `lab` how much of it is on disk, `rows` and `bindings` the index and
the record that binds an attempt to its run.

**RoutineAutonomy**: `incidents` holds the write-once events of each incident, read back
by a later invocation; `commits`, `repo` (HEAD, origin, authorised) and `clones` are the two
repositories. Each effect and the event that saves it are two actions, with a
crash possible between them; people commit, push and repair meanwhile.

## 3. Runs

| run | states | checks |
|---|---|---|
| `lock` | 28,903 | `TypeOK`, `ExclusionUnlessRobbed`, `LoneStarterAcquires` (liveness) |
| `one_task` | 253,827 | `TypeOK`, `AcceptedIsSealed`, `SupersededAttemptsClosed`, `SlotBelongsToAttempt`, `RejectedPatchPreserved`; `ExecutingEnds`, `FinalizationConverges` (liveness) |
| `two_tasks` | 1,078,366 | `AcceptedLine`, `AuthorizedIsTip`, `ImplementsBoard` (refinement) |
| `orchestration` | 512,503 | `HistoryReadable`, `BoundedRepair`, `GrantsSpentOnce`, `ReviewedWhileAlive`, `PassingWorkKept` and `ReadBeforeLaunch` (actions), `InvocationEnds` (liveness) |
| `recovery` | 359,902 | `WorkKept`, `OutputKept`, `WorkContinued`, `NothingForeignRecovered`, `CleanStart`, `PersonsFilesKept` (action), `RecordedConcludes` (liveness) |
| `adoption` | 515,207 | `LedgerCovers`, `ProvedPass`, `DependenciesFirst`, `BaseOnlyAdvances` (action) |
| `planning` | 33,504 | `RecordedIsLaunched`, `SealedPlanIsGated`, `RunEnds` (liveness) |
| `history` | 531,322 | `EpisodesTellTheTruth`, `PublishedWhole`, `BoundEpisodesCount` |
| `incidents` | 945,643 | `PublishedIsReviewed`, `AdoptedIsPublished`, `InvocationSettles` (liveness) |
| `lock_exclusion` | | `MutualExclusion` is violated |
| `review_forgotten` | | `ReviewedBeforePass` is violated |
| `blocked_triage` | | `BlockedLaunchesNobody` is violated |

### Bounds, and why they are enough

* `lock`: three processes. One leaves the orphan, two race on it; both tries of
  `acquireLock` can be lost.
* `one_task`: two attempts, so that everything one attempt leaves behind meets the
  next one; two patches with the same file list, so that content can change where
  the code compares names; one crash and one edit at any point, reviews on and off.
  A resumed command that dies again is not covered (`MaxCrashes = 1`).
* `two_tasks`: plan order against dependency order (`Backward`), one attempt per task
  (two tasks with two attempts exceed what TLC explores in minutes), one
  crash, one edit, one outside commit.
* `orchestration`: two dependent tasks; three attempts of the first (first pass, repair and
  one more by grant, escalation or person), one of the second; two profiles that cross
  providers; two faults, which are deaths or interventions in any mixture; two kinds of
  invocation that follow each other in any order and differ in every switch (control plane,
  routine autonomy, skipped preflight, profile, limit). A death during the resumption of what
  an earlier death or a half-done command left is covered, and one fault is enough for the two
  records of one attempt. The safety properties are also theorems, for every combination of
  the switches and any number of faults; the run is for the liveness and for their mutants.
* `recovery`: two attempts, so that what is preserved of one meets the launch of the next; one
  file of the base and one new file, since they are reset differently; two crashes, so that
  a repeated command dies again; one commit of a person and its adoption.
* `adoption`: four commits of any kind, two tasks of which one is added by a plan edit and
  depends on the other, and a crash before any write.
* `planning`: one invocation after another over one directory, with one crash, three
  profiles over two pools, four states of the world, five drafts (two that pass, one per kind
  of refusal), two turns. Two invocations *at once* exceed what TLC explores in minutes (see
  the hazard of `run-project.ts:163`).
* `history`: two tasks that are the same work, three attempts of the first, one earlier run,
  a pool that may be spent, a worker that may be silent, two faults.
* `incidents`: one task to come; every trouble but the two that only change the wording of a stop;
  a candidate within the boundary and one outside it; three commits and two faults.
* `CHECK_DEADLOCK FALSE` where commands end and are then not obliged to start again, or
  a run with all attempts used has nothing left to launch. The orchestrator, history and
  incident models can always start a new invocation and are checked for deadlock.

### Fairness

* Task runtime: weak fairness of the steps of a running command (a process that is scheduled
  goes on, and a worker's end is always noticed: `termination` is observed from the spawn) and of
  `WorkerExits` (a worker that does not end by itself is killed at
  the machine safety ceiling). Strong fairness of `Recover`: nothing in the code starts
  `dev-recover` by itself, so this is an *assumption* about its callers (the operator, routine
  autonomy, plan extension). It is strong because other commands keep occupying the lock. Without
  it a task whose orchestrator died stays RUNNING, as in the code.
* Lock: a process that has started goes on unless it dies.
* Orchestration, RoutineAutonomy, ProjectPlanning: weak fairness of the steps of an invocation
  that runs, since it is a sequential program whose calls return (workers are bounded by
  their ceilings). Nobody has to start one, intervene or let it live.
* AttemptRecovery: weak fairness of the writes of a running command, and strong fairness of `Resume`, an
  *assumption* that the operator repeats the command that did not end; other
  commands and people may come first any number of times.
* Adoption and ProjectHistory state no liveness.

### What the properties say

`AcceptedIsSealed`: a task is PASS only if finalization record, completion, handoff and
manifest of its current attempt name the same commit, the review it owed
says ACCEPT, and no record archived the attempt as failed or rejected. Two commands promote,
from records written one by one.

`AcceptedLine`, `AuthorizedIsTip`: accepted commits form a single line from the
baseline, and the base handed to the next task is its tip, unless an accepted commit has the
file set of another task's (see the disagreements below). Accepted or not: with three tasks the
candidate of a task that is still to be accepted is enough to lose the tip.

`SupersededAttemptsClosed`: no attempt is left behind without a record of how it ended.
`SlotBelongsToAttempt`: the completion slot never shows the verdict of an earlier
attempt. `RejectedPatchPreserved`: a rejected patch leaves the tree only after its record, its
verdict and its worker's note are preserved. The last two are stated for
undisturbed runs (no edits, no outside commits, no stray session), because a person
can always destroy the tree, and because an edit during the gate produces a FAIL
without a source, which `dev-retry` leaves in the slot.

`FinalizationConverges`: a published finalization that no review holds back is accepted
in the end, wherever the commands that seal it die.

`HistoryReadable`: whatever launched and closed the attempts and wherever an archival died, no attempt is
left behind without a record; a gap would block every later repair. That none has two does *not* hold
(`infra-recover.ts:397` below); the property states the one pair the code can produce, an abandonment and a recovery
of the same provider failure over a half-done command. `ReadBeforeLaunch`: such a history stays closed,
for nothing is launched over it. `BoundedRepair`, `GrantsSpentOnce`: beyond the first pass and the bounded
repair each further failure was let through by a gate of its own, and a grant opens one attempt.
`ReviewedWhileAlive`: a review that was asked for is not skipped as long as no process died; with
deaths it is, which is finding 2. `PassingWorkKept`: only a reviewer's rejection throws work away
that passes its validation. `InvocationEnds`: the mechanisms that reopen a task do not feed each
other for ever.

`WorkKept`, `OutputKept`: what a worker left in a file or reported is in the tree or the inbox, or in
the archive of its attempt, at every moment of every interrupted recovery. `WorkContinued`: the
next worker starts from all of it. `NothingForeignRecovered`, `PersonsFilesKept`: what a person edited
is neither published as the worker's nor taken away (the incomplete-output recovery is excepted, because
it does not look at the baseline). `CleanStart`: no worker finds an earlier
one's output in its inbox. `RecordedConcludes`: a record that is published is concluded as long as HEAD stays.

`LedgerCovers`: no commit lies under the authorised base that no record and no accepted task accounts
for. `ProvedPass`: a PASS has its bundle, or the record that adopted it, and they name its commit.
`DependenciesFirst`: also when tasks are adopted in the order of their commits. `BaseOnlyAdvances`: no command,
no reconstruction and no crash moves the base back.

`RecordedIsLaunched`: the deliberation artifact names the process that was launched for each turn, although
the two come from different observations. `SealedPlanIsGated`: whatever planned,
failed over or revised, the plan on disk and the runtime made of it passed the gates and never run out of
eligible work before the end. `RunEnds`: attempts, failovers and turns are bounded.

`EpisodesTellTheTruth`: an episode that counts begins with the attempt that began that piece of
work, credits the profile that ran it, keeps the order, and passed only where the task did.
`BoundEpisodesCount`: an episode whose attempts are all bound does count. `PublishedWhole`: nothing
is indexed or bound that is not recorded, and nothing recorded is torn.

`PublishedIsReviewed`, `AdoptedIsPublished`: a maintainer's commit in HEAD or at origin is one an
independent review accepted in that incident, within the boundary and over that base, and the
authorised line never runs ahead of origin with it. `InvocationSettles`: no incident cycles for ever.

### Findings

Three runs show where the code does not keep what its comments and documents claim.

1. `lock_exclusion`. Judging an orphan and removing it by name are separate calls, and a
   fresh lock file is empty for a moment. Two starters can both run. What does
   hold, and is proved, is `ExclusionUnlessRobbed`: only such an unlink can break exclusion.
2. `review_forgotten`. That a candidate owes a review is the memory of the process that launched
   the worker. If it dies before the candidate is prepared, the next process closes the
   attempt as PASS without one.
3. `blocked_triage`. The terminal branch of a routine incident tests the two older classifications
   only. A BLOCKED incident on the harness's own repository goes on to the maintenance
   cycles, and an agent is launched for what the harness itself called a technical block.

### Known disagreements without a run of their own

Behaviours the models have, which a comment, a document or a message of the repository
denies. No property excludes them; those that hold are stated so that they stay true.

* `failed-attempt-source.ts:340`: a crash between the archive of an official FAIL and its binding.
  The next close finds no binding, runs the gate again and may accept the attempt, against
  `finalize-orchestrated.ts:682-685` ("Então a retomada não reavalia nada").
* `finalize-orchestrated.ts:613`: a drift during the gate puts a FAIL without source into the completion
  slot; a crash before the state is written and a gate that then passes leave a
  finalization the slot refuses for ever, against line 588 ("todo estado observável depois de um crash é retomável").
* `finalize-orchestrated.ts:931`: closing an accepted task again after a later task with the same
  files moves `authorized_head_sha` back, against line 941 ("Idempotente por construção").
* `finalize-orchestrated.ts:1356`: an edit between the second fingerprint of the gate and the staging is
  committed; only file names are compared, and the record keeps the fingerprint of
  the content that was validated. Line 460 calls the compared tree "conteúdo validado e staged".
* `launch.ts:469`: a launch that dies between spawn and `onStarted` leaves a READY task
  with a live worker; nothing stops a second worker, against `lock.ts:13` ("uma tarefa = exatamente uma sessão").
* `infra-recover.ts:397`: `loadInfraSource` looks for the infrastructure record of the attempt and for no other kind, as
  `incomplete-worker-output-recovery.ts:220-244` does. A `dev-retry` of a provider failure that dies between `retry.ts:243`
  and `:257` leaves its task RUNNING/FINALIZING with an abandonment record; the next invocation closes it as PENDING, recovers
  the failure and writes a second one, against `automatic-repair.ts:338` ("Cada attempt precisa de exatamente um record
  conhecido"). `walkValidationFails` then calls the attempt inconsistent for ever and no repair is
  decided; `ReadBeforeLaunch` says that nothing is launched either. Without its second disjunct
  `HistoryReadable` is violated in the run, by this trace.
* `infra-recover.ts:828`: a repeated recovery concludes the record it finds only if it would have written the same, reason
  included. A recipe gives its own (`routine-autonomy-runtime.ts:146-150`), the resume of the next invocation the diagnostics of
  the state (`orchestrate.ts:808-812`); if the recipe dies after its record the resume is refused and the task stays
  INFRA_ERROR until a person repeats the recipe's words, against `orchestrate.ts:779-781` ("Resume do MESMO comando recupera
  sem o operador conhecer `dev-recover-infra`"). The model has it in `Agrees`.
* `infra-recover.ts:822`: the record of an infrastructure recovery holds the HEAD of its moment. After a crash
  between record and state, a person's commit that is adopted makes the repetition throw for ever,
  against lines 771-776; hence the condition on HEAD in `RecordedConcludes`.
* `recover.ts:182`: once a maintenance is adopted, a task that `recover` reconstructs as PASS leaves
  `authorized_head_sha` behind its commit, and no command repairs it.
* `planned-work-adoption.ts:383`: with a record left by a crash at the same base the command throws after its
  tasks became PASS.
* `init-runtime.ts:9` ("um state existente é evidência, não rascunho"): the existence check and the write are not
  covered by a lock, so of two invocations the later one can replace the runtime of the other.
* `project-run.ts:1789`: the history a unit was routed by is kept for the memory of one run, while the design of
  2026-08-20 freezes it "for the entire primary work unit".
* `project-run.ts:1390` ("Um pin cujo pool está EXHAUSTED não pode esconder alternativas já autorizadas"): in the
  repair of the same invocation the profile is the decision's (`orchestrate.ts:1208-1215`).
* `automatic-repair.ts:217-240`: a grant for a FAIL that is not archived yet is answered by HISTORICAL_GAP.
* `project-run.ts:3050`: authorizations of earlier climbs are shared by all tasks of a run, so a second climb that does not
  continue the first is refused as INVALID_ESCALATION_HISTORY.
* `src/routing/escalation.ts:780`: the capability to cross providers is asked for when scaffolds differ and claimed when
  upstream providers differ.
* `project-run.ts:2386`: a failed invocation of a reviewer is recorded for the attempt and excludes the profile in
  every later invocation, so that once all have failed nobody reviews this candidate any more, against
  `reviewer-capacity.ts:21` ("Pool esgotado e falha de INFRA se resolvem sozinhos").
* `reviewer-capacity.ts:121`: where diversity is required and the pools of the others are exhausted, the cause named is
  DIVERSITY_POLICY_HAS_NO_ALTERNATIVE and a person is called to widen the policy, which `project-run.ts:2557-2560`
  wants only for a policy without such a profile.
* A review's rejection under routine autonomy is settled as a technical block; an INFRA_ERROR whose launch record is
  unfinished, and TIMED_OUT, have no command that leaves them; `diagnoseExhaustedRepair` takes a declared FAILURE for
  a capability failure, which `retryFailedAttempt` then refuses.
* `routine-autonomy.ts:545-552`: the id of an incident contains the authorised head, which an adoption moves, so
  `adopt-completed` is never read back, and a blocker that persists gets a new budget of two cycles
  (`HARNESS.md:811`). A crash between the push and the fast-forward leaves origin one ahead; the replay refuses
  and ends in a terminal record.

Other behaviours the models show: a crash of `dev-retry` leaves an abandonment record of an attempt
that may still be closed and accepted, or recovered with a second record;
a crash inside the reset of `dev-retry-failed`, or between staging and committing,
leaves a checkout every command refuses until a person cleans it; a declared FAILURE
that was closed as FAIL has no source, hence `dev-retry-failed` cannot reopen it.

## 4. Proofs

| theorem | statement |
|---|---|
| `HarnessLockProofs!LockTypesHold` | `Spec => []TypeOK` |
| `HarnessLockProofs!ExclusionHolds` | `Spec => []ExclusionUnlessRobbed` |
| `TaskRuntimeHistory!TypesHold` | `Spec => []TypeOK` |
| `TaskRuntimeHistory!HistoryClosed` | `Spec => []SupersededAttemptsClosed` |
| `TaskRuntimeSeals!AcceptedSealed` | `Spec => []AcceptedIsSealed` |
| `TaskRuntimeLine!LineHolds` | `Spec => []AcceptedLine` |
| `TaskRuntimeBoard!BoardImplemented` | `Spec => ImplementsBoard`, the refinement of `TaskBoard` |
| `TaskRuntimeBoard!BaseIsTip` | `Spec => []AuthorizedIsTip` |
| `OrchestrationProofs!OrchestrationHolds` | `Spec => []OrchestrationInv`, the inductive invariant of the loop |
| `OrchestrationProofs!HistoryIsReadable` | `Spec => []HistoryReadable` |
| `OrchestrationProofs!LaunchesHaveRead` | `Spec => ReadBeforeLaunch`, an action property |
| `OrchestrationProofs!RepairIsBounded` | `Spec => []BoundedRepair` |
| `OrchestrationProofs!GrantsAreSpentOnce` | `Spec => []GrantsSpentOnce` |
| `OrchestrationProofs!ReviewedUnlessDead` | `Spec => []ReviewedWhileAlive` |
| `OrchestrationProofs!PassingIsKept` | `Spec => PassingWorkKept`, an action property |
| `RoutineAutonomyProofs!PublishedReviewed` | `Spec => []PublishedIsReviewed` |
| `RoutineAutonomyProofs!AdoptedPublished` | `Spec => []AdoptedIsPublished` |
| `RoutineAutonomyProofs!EventsWriteOnce` | `Spec => [][EventsKept /\ CommitsKept]_vars` |
| `CandidateReviewProofs!VerdictsAreEarned` | of every answer in either mode: a kept ACCEPT has a reason, a whole coverage and nothing that blocks; a kept defect that lists findings names one that blocks |
| `CandidateReviewProofs!ReviewerIsEligible` | of every request: who is selected has not failed, has capacity and is as diverse as required; nobody only when nobody is eligible |

All but the last two are about every behaviour of a specification, for every plan, every set of patches and
files, any number of processes, attempts, crashes, grants, invocations, edits and outside commits, under the named assumptions of
`HarnessLock`, `RuntimeState` (a finite plan with an acyclic `blocked_by`, positive numbers of patches and
attempts), `ControlPlane`, `RepairPolicy`, `Orchestration` and `RoutineAutonomy`, which TLC evaluates in every run.
Each inductive invariant was first checked by TLC as an invariant of the component's run.

**Exclusion.** `ExclusionUnlessRobbed` is not inductive: a process can be past its creation without
being named by the file. The invariant adds that, as long as nobody was robbed,
whoever is inside (from `write` to `remove`) is the owner of the file. Two insiders are then
one. Each action preserves it because only `Create` adds an insider, and only where there
is no file, while a removal that hits an insider robs it.

**Types of the runtime.** `TypeOK` is not inductive either: the steps of a command use what
its first step established (a task number that is a task, an attempt above zero, a
candidate that exists), and a record in a slot or in `evidence` names a commit or an
attempt that must exist. `RuntimeInv` in `TaskRuntimeHistory` is `TypeOK` with what `cmd` holds
at each step (`CommandInv`) and what a record presupposes (`RecordInv`). The frame lemmas
reduce "the log grew" and "only these variables changed" to one fact each; then there is
one lemma per group of actions, joined in `StepRuntime`.

**History.** `HistoryInv` in `TaskRuntimeHistory` adds to `RuntimeInv` and the property itself that a launch in
progress works on a READY task (so that the new attempt leaves a closed one
behind) and that every reopening step is reached only after its record. The
argument is that `closed` only grows (`RecordsGrow`), that attempts change in
`OnStarted` alone, by one (`AttemptsStay`), and that a task becomes READY only in the three reopenings.

**Seals.** That a PASS has its completion, handoff, manifest and finalization record in agreement is inductive only
with what each close has written when it is at a given step (`SealedInv` in `TaskRuntimeSeals`): `EvidenceInv`
(an attempt that has not happened has no evidence), `TaskInv` per task (a PASS verdict in the slot is of the attempt at hand and
of its finalization, and a rejecting review excludes a granting one) and
`Relies`, which says step by step what the command still counts on, `dev-recover` with its set of tasks to
promote included. The hard actions are those that write over a slot another attempt has filled.

**Line.** `AcceptedLine` and `authorized` are about the parents of commits. `LineInv` in `TaskRuntimeLine` says there is
a set `L` of commits, one line, that holds every accepted commit and the base of whatever may still be accepted. Each
close either extends `L` by its own commit, whose parent is the tip, or leaves it alone; which of the two is known because a close has
found its packet on the anchor and nobody but a close moves the tip (`GuardsHold`, `FinalsAnchored`).

**Board.** `TaskBoard` lets a task start only if nobody else is engaged, its dependencies are accepted and it is the first that
may, and accept only what started at the tip. The harness decides that when it prepares the packet, and acts on it
several steps, crashes and retries later. `BoardInv` in `TaskRuntimeBoard` keeps the decision: as long as the packet of a task that is not accepted is at the tip,
the selection still holds (`Chosen`), and a task that is engaged has started at the tip. It is inductive because a step
changes one task in one of six ways (`StepChanges`), only an acceptance moves the tip (`TipMoves`), and a commit that moves
it lies above what was accepted while a resumed one lies below (`AboveTip`, `BelowTip`). The step simulation (`StepShown`)
takes one lemma per abstract action; the initial state of the board is that of the harness (`InitBoard`).

**Base.** The base is written by promotions and by `dev-recover`, from records that may be old. `TipInv` says that the line has at
most one candidate above the tip, whose task is still pending, and that there is none once a gate, an archive
of a FAIL or a reopening has gone past its check (`OpensClear`). A close that seals an accepted task again found that task's commit at
HEAD, and there it can only be the tip (`SealAtTip`, `ResealFollows`): that is where file sets that coincide would
let it take another's commit for its own.

**Orchestration.** `OrchestrationInv` has five parts. `TaskHolds`: every attempt another one
followed has exactly one record of how it ended, the last one of a READY task too or an abandonment and a recovery; records of an attempt
that is still open are those of archivals that died, and only where the state allows such an archival (`Archivable`),
from which it follows that no other two can meet. `BudgetHolds`: the capability failures of a task are at
most one more than `Room`, the gates people passed plus the receipts of attempts that have happened, while an attempt is open, and
two more at rest; a READY task may be launched within its bound (`MayLaunch`) unless a reviewer rejected it.
`GrantsHold`: at most one grant waits, and receipts are of different attempts. `ControlHolds`: what each step of an
invocation may rely on. `ReviewHolds`: as long as nothing died, an attempt that asked for a review
is in the hands of the process that remembers it. What a step does to a task is one of a few relations (worked on, reopened, past a gate,
repaired, recorded, granted, launched); a half-done archival is a relation of its own (`Records`); each relation keeps the invariant by one lemma, and
each action is shown to be one of them. The bound counts a set of attempts, and the
lemmas on its cardinality (`FailuresOf`, `Spent`) carry most of the proof.

**Routine autonomy.** `RoutineInv` adds to the two properties that the log of commits is a forest in order (`History`), that what the
events of an incident say is true of its commits (`EventsTruthful`), what the run holds of its candidate at each step
(`RunHolds`), and that a maintainer's commit in `head` or `authorized` is in `origin` (`RefsInLine`). Events and commits are
write-once, which is proved as an action property and used to carry the truth of the events from step to step.

**Reviews.** These two are about functions and need no invariant. An answer is usable only if the decision it amounts
to names nothing that blocks, and a REJECT that lists advice only amounts to an ACCEPT, which owes the coverage the schema demands
(`SchemaRefusesCoverageOnly`: nothing else is left for the schema to refuse). That the least rank
exists is well-foundedness of the naturals.

What is only model-checked: `SlotBelongsToAttempt`, `RejectedPatchPreserved` and
the properties of AttemptRecovery, Adoption, ProjectPlanning and ProjectHistory
(candidates for proofs, see the plan); liveness (`InvocationEnds` and the other
temporal properties under fairness), which is out of the prover's reach.

## 5. What is abstracted

* Task runtime: a gate has an outcome, not a list of validations; whether it passes is
  nondeterministic. A review verdict is ACCEPT, REJECT or none. `deriveAuthorizedHead` sorts by
  `finished_at`; the model takes the youngest commit, which is the same as long as clocks
  do not go back. Reads of several records inside one step are atomic; only the lock
  makes that true, and HarnessLock says when. Workers edit the whole patch at once.
* Orchestration: a candidate is the kind of what its worker left; the records of an attempt are the set of their
  kinds; what happens inside a close, a recovery or an archive is an outcome (the modules below
  have the writes). Of an archival the record and the state are two writes, the evidence before the record is not a
  write of its own. A person who repeats a command of their own that died may do so in any case; the code refuses
  it as well if a close in between changed the diagnostics the abandonment record quotes. The target is a repository other than the harness, so a blocked preflight under
  routine autonomy stops; its incidents are RoutineAutonomy's.
* EscalationLadder: the ladder is the policy by rank; nobody asks for a profile; credentials are in order
  and pools are nondeterministically spent.
* CandidateReview: the four relationships a focused review asks about are one, and so are the three dispositions a person
  decides; a coverage is unreadable, alien, short or whole; the failures earlier invocations recorded are any set of profiles,
  not those of the attempt.
* AttemptRecovery: one task; a new file and a file of the base stand for all files of their kind; a
  half reset or a half rehydration leaves one of the two done.
* Adoption: history is linear; a task is adopted or closed by one attempt; contents are the kind of the
  commit; the operator names the roles of commits truthfully; finish order is commit order.
* ProjectPlanning: which process was launched for a turn is a ghost beside what is recorded of it;
  orchestration is reduced to the acceptance of eligible units; a lock of a dead run is free.
* ProjectHistory: `HISTORY_MINIMUM_SAMPLE_SIZE` is 1 instead of 3, so that one earlier episode decides a route; workers survive
  a crash and are closed at the resumption; an archival is one step (its halves are in Orchestration); the fingerprint of a profile is its id.
* RoutineAutonomy: the loop is reduced to launch, acceptance and the rest; gates, agents and reviewers are
  nondeterministic; a kind of trouble stands for the evidence of the preflight.

## 6. Not modelled

* Of modelled commands: the `verification_only` envelope, the classification of a REJECT record without disposition, half note pairs in TaskRuntime, review
  dispositions other than IMPLEMENTATION_DEFECT in Retrying, `--allow-pending-maintenance` there (AttemptRecovery has it), bindings
  derived for old FAILs, a missing or unreadable `state.json` or record, I/O errors other than those
  that end a command like a crash, a revalidation that fails again, torn lines of a ledger, releases by
  a person and meters of quota in the history.
* Worker supervision: signals, process groups and survivors are the operating system's; the models only need that a worker
  ends or is found gone. Most of its value would be in a model of the kernel, not of this code.
* Lab console, doctor, command lines: presentation, read-only diagnosis and argument parsing over
  the modelled functions, without state of their own.
* Experiment runner, graders, scorers, reports, adapters: sequential I/O over clones and finished runs, or pure
  functions of one input that unit tests cover.
* Schemas (`schemas.ts`) beyond the records the models use: shapes, which a type invariant would only repeat.
* Rendering and extraction of prompts, handoffs and reports, quota probes and provider command lines: external, seen
  only as outcomes.

## 7. Plan

1. Theorems for the task runtime: `SlotBelongsToAttempt` and `RejectedPatchPreserved`, which need an invariant of undisturbed
   runs (one session at a time, of the attempt at hand).
2. Theorems for the modules around it: `LedgerCovers` and `BaseOnlyAdvances` of Adoption, `WorkKept` of
   AttemptRecovery; neither module declares a RECURSIVE operator.
3. The evidence of failed reviews as state of the attempt, so that the exclusion of reviewers lasts as it does
   in the code.
4. The composition of the lock with commands that read before they lock (`dev-launch`, `dev-run-project`).
