------------------------------ MODULE ProjectPlanning ------------------------------
(***************************************************************************)
(* dev-run-project (dev/lib/run-project.ts, run-plan.ts, init-runtime.ts,  *)
(* src/src/planner): a plan is drafted by a provider process, passes the   *)
(* gates, is deliberated by others, is sealed on disk once, and only then  *)
(* becomes a runtime that the orchestrator works through. No lock is held  *)
(* before the runtime is written, and a run may die between any two steps. *)
(***************************************************************************)
EXTENDS PlanGates, ProviderGates

CONSTANTS
  Runs,        \* invocations of the command over one runtime directory
  Catalog,     \* the profiles of the policy
  Policy,      \* what the authorization file allows: profiles, agents, billing
  Boundary,    \* the capabilities it authorises without a person
  Requested,   \* the id given to --planner-profile, or "none"
  Observations, \* the facts a collection may find, one function per collection
  Drafts,      \* what a planner or a deliberator may return
  Objectives,  \* the acceptance contract of the intake
  Inspection,  \* what the inspection of the target finds
  MaxTurns,    \* --max-turns of the deliberation, 0 when none is asked
  Diverse,     \* whether cross-provider alternation is preferred
  MaxHead,     \* bound on the commits
  MaxScope,    \* bound on the edits of the authorization file
  MaxCrashes,  \* bound on the runs that die
  Nothing      \* the absence of a file or of a value

ASSUME PlanningAssumption ==
  /\ MaxTurns \in Nat /\ MaxHead \in Nat /\ MaxScope \in Nat /\ MaxCrashes \in Nat
  /\ Diverse \in BOOLEAN
  /\ Observations \subseteq [Catalog -> Facts]
  /\ Inspection \in Inspections

VARIABLES
  disk,    \* the plan file, the deliberation artifact and the runtime state
  repo,    \* the head of the target and the scope of the authorization file
  lock,    \* who holds the harness lock, or "free"
  run,     \* the memory of each invocation
  crashes

vars == <<disk, repo, lock, run, crashes>>

Fresh == [at |-> "idle", scope |-> 0, ranked |-> <<>>, down |-> {}, attempt |-> 1,
          asked |-> "none", plan |-> Nothing, upstream |-> "none",
          deliberators |-> <<>>, turns |-> <<>>, head |-> 0, state |-> Nothing]

\* The intake names the head of the target when the run was first asked for.
IntakeBase == 0

Profile(id) == CHOOSE p \in Catalog : p.id = id

Put(r, value)  == run' = [run EXCEPT ![r] = value]
Goto(r, label) == Put(r, [run[r] EXCEPT !.at = label])
End(r)         == Put(r, Fresh)

--------------------------------------------------------------------------------
(* ensureGeneratedProjectPlan.                                             *)

\* runProject: the authorization is read first and its scope used throughout.
Begin(r) ==
  /\ run[r].at = "idle"
  /\ Put(r, [Fresh EXCEPT !.at = "load", !.scope = repo.scope])
  /\ UNCHANGED <<disk, repo, lock, crashes>>

\* assertReusableSource: a plan on disk is used when it was made for this scope,
\* and refused, never replaced, when it was not.
Reusable(plan, scope) == plan.scope = scope

LoadPlanFile(r) ==
  /\ run[r].at = "load"
  /\ IF disk.plan = Nothing THEN Goto(r, "check")
     ELSE IF Reusable(disk.plan, run[r].scope)
     THEN Put(r, [Fresh EXCEPT !.at = "head"]) ELSE End(r)
  /\ UNCHANGED <<disk, repo, lock, crashes>>

\* runtimeStateExists.
CheckRuntime(r) ==
  /\ run[r].at = "check"
  /\ IF disk.runtime = Nothing THEN Goto(r, "choose") ELSE End(r)
  /\ UNCHANGED <<disk, repo, lock, crashes>>

\* livePlanningSnapshots and assertPlanningSelection.
ChoosePlanner(r) ==
  /\ run[r].at = "choose"
  /\ \E facts \in Observations :
       LET ranked == SelectPlanning(Catalog, facts, Policy, Requested)
       IN IF ranked = <<>> THEN End(r)
          ELSE Put(r, [run[r] EXCEPT !.at = IF MaxTurns = 0 THEN "ask" ELSE "gather",
                                     !.ranked = ranked])
  /\ UNCHANGED <<disk, repo, lock, crashes>>

\* deliberatorAssignmentsOf, from an observation of its own.
ChooseDeliberators(r) ==
  /\ run[r].at = "gather"
  /\ \E facts \in Observations :
       Put(r, [run[r] EXCEPT !.at = "ask", !.deliberators = Ranked(Catalog, facts, Policy)])
  /\ UNCHANGED <<disk, repo, lock, crashes>>

--------------------------------------------------------------------------------
(* generateImplementationPlan through createPlanningFailoverPort.          *)

Authorize(profile, facts) ==
  LaunchAuthorization("CONFIGURED_SUBSCRIPTION_WORKER", Boundary, {}, profile, facts)

Processes == Replies \cup {"refused", "threw"}

Available(r) == SelectSeq(run[r].ranked, LAMBDA p : p.id \notin run[r].down)

\* A draft sent back, or refused, when the second attempt was already this one.
Reattempt(r) == [run[r] EXCEPT !.attempt = @ + 1]

\* What validatePlannerDraft and the loop around it make of a draft.
WithDraft(r, profile, draft) ==
  LET stage == RejectedStage(draft, Objectives, Inspection, IntakeBase)
  IN IF stage = "none"
     THEN [run[r] EXCEPT !.at = IF MaxTurns = 0 THEN "plan" ELSE "deliberate",
                         !.asked = profile.id, !.upstream = profile.provider,
                         !.plan = [units |-> draft.units, base |-> IntakeBase,
                                   scope |-> run[r].scope, planner |-> profile.id]]
     ELSE IF run[r].attempt = 1 /\ stage \in RevisionEligible THEN Reattempt(r)
     ELSE Fresh

\* Mutant: only the last profile to fail is remembered.
LastFailureOnly(r, profile, failure) ==
  IF failure \in RetryablePlanning
  THEN IF Len(Available(r)) > 1 THEN [run[r] EXCEPT !.down = {profile.id}] ELSE Fresh
  ELSE IF failure = "DRAFT_NOT_PARSEABLE" /\ run[r].attempt = 1 THEN Reattempt(r)
  ELSE Fresh

\* A failure of the platform moves on to the next profile and never back.
WithFailure(r, profile, failure) ==
  IF failure \in RetryablePlanning
  THEN IF Len(Available(r)) > 1
       THEN [run[r] EXCEPT !.down = @ \cup {profile.id}] ELSE Fresh
  ELSE IF failure = "DRAFT_NOT_PARSEABLE" /\ run[r].attempt = 1 THEN Reattempt(r)
  ELSE Fresh

Ask(r) ==
  /\ run[r].at = "ask"
  /\ LET profile == Available(r)[1]
     IN \E facts \in Observations, process \in Processes :
          LET failure == PlanningFailure(profile, Authorize(profile, facts[profile]), process)
          IN IF failure = "none" THEN \E draft \in Drafts : Put(r, WithDraft(r, profile, draft))
             ELSE Put(r, WithFailure(r, profile, failure))
  /\ UNCHANGED <<disk, repo, lock, crashes>>

--------------------------------------------------------------------------------
(* deliberatePlan.                                                         *)

\* The sequence the artifact records, and the one the worker port launches from.
Recorded(r) == Deliberators(run[r].deliberators, MaxTurns, Diverse, run[r].upstream)

\* Mutant: the port does not know who drafted the plan.
LaunchedFromStart(r) == Deliberators(run[r].deliberators, MaxTurns, Diverse, "none")

LaunchedSequence(r) ==
  Deliberators(run[r].deliberators, MaxTurns, Diverse, Profile(run[r].asked).provider)

\* What a verdict may say, by the constraints of DeliberatorVerdict.
Verdicts ==
  {[decision |-> "ACCEPT", clean |-> clean, draft |-> Nothing] : clean \in BOOLEAN}
  \cup {[decision |-> "REVISE", clean |-> FALSE, draft |-> Nothing]}
  \cup {[decision |-> "REVISE", clean |-> clean, draft |-> d] : clean \in BOOLEAN, d \in Drafts}

Converges(verdict) == verdict.decision = "ACCEPT" /\ verdict.clean

\* Mutant: the revision of a deliberator is adopted as it is.
RevisedUnchecked(r, verdict) ==
  IF verdict.draft = Nothing THEN run[r].plan
  ELSE [run[r].plan EXCEPT !.units = verdict.draft.units, !.planner = "none"]

\* planRevalidator: a revision takes the place of the plan when it passes the
\* same gates. What it is made of no longer says who drafted the original.
Revised(r, verdict) ==
  IF verdict.draft = Nothing \/ RejectedStage(verdict.draft, Objectives, Inspection, IntakeBase) # "none"
  THEN run[r].plan
  ELSE [run[r].plan EXCEPT !.units = verdict.draft.units, !.planner = "none"]

\* One turn: the artifact names who was due, the port launches who it computes.
Turn(r) ==
  [profile |-> Recorded(r)[Len(run[r].turns) + 1].id,
   launched |-> LaunchedSequence(r)[Len(run[r].turns) + 1].id]

WithTurn(r, plan, goesOn) ==
  LET turns == Append(run[r].turns, Turn(r))
  IN [run[r] EXCEPT !.plan = plan, !.turns = turns,
                    !.at = IF goesOn /\ Len(turns) < MaxTurns THEN @ ELSE "artifact"]

NoDeliberator(r) ==
  /\ run[r].at = "deliberate"
  /\ run[r].deliberators = <<>>
  /\ Goto(r, "artifact")
  /\ UNCHANGED <<disk, repo, lock, crashes>>

\* An answer that is no verdict ends the deliberation; a failure of the platform
\* gives its turn up to the next.
DeliberationFails(r) ==
  /\ run[r].at = "deliberate"
  /\ run[r].deliberators # <<>>
  /\ LET profile == LaunchedSequence(r)[Len(run[r].turns) + 1]
     IN \E facts \in Observations, process \in Processes :
          LET failure == DeliberationFailure(profile, Authorize(profile, facts[profile]), process)
          IN Put(r, WithTurn(r, run[r].plan, failure \in RetryableDeliberation))
  /\ UNCHANGED <<disk, repo, lock, crashes>>

Deliberate(r) ==
  /\ run[r].at = "deliberate"
  /\ run[r].deliberators # <<>>
  /\ LET profile == LaunchedSequence(r)[Len(run[r].turns) + 1]
     IN \E facts \in Observations :
          DeliberationFailure(profile, Authorize(profile, facts[profile]), "object") = "none"
  /\ \E verdict \in Verdicts :
       Put(r, WithTurn(r, Revised(r, verdict), ~Converges(verdict)))
  /\ UNCHANGED <<disk, repo, lock, crashes>>

\* The artifact of the deliberation is written before the plan it speaks of.
WriteArtifact(r) ==
  /\ run[r].at = "artifact"
  /\ disk' = [disk EXCEPT !.artifact = [final |-> run[r].plan.units]]
  /\ Goto(r, "plan")
  /\ UNCHANGED <<repo, lock, crashes>>

WritePlan(r) ==
  /\ run[r].at = "plan"
  /\ disk' = [disk EXCEPT !.plan = run[r].plan]
  /\ Put(r, [Fresh EXCEPT !.at = "head"])
  /\ UNCHANGED <<repo, lock, crashes>>

--------------------------------------------------------------------------------
(* runPlan and initializeHarnessRuntime.                                   *)

ReadHead(r) ==
  /\ run[r].at = "head"
  /\ Put(r, [run[r] EXCEPT !.at = "state", !.head = repo.head])
  /\ UNCHANGED <<disk, repo, lock, crashes>>

ReadState(r) ==
  /\ run[r].at = "state"
  /\ Put(r, [run[r] EXCEPT !.at = "loaded", !.state = disk.runtime])
  /\ UNCHANGED <<disk, repo, lock, crashes>>

\* assertGeneratedPlanBase, against the head or the baseline of the runtime.
OnItsBase(r, plan) ==
  plan.base = IF run[r].state = Nothing THEN run[r].head ELSE run[r].state.baseline

LoadRequestedPlan(r) ==
  /\ run[r].at = "loaded"
  /\ IF ~OnItsBase(r, disk.plan) THEN End(r)
     ELSE IF run[r].state = Nothing THEN Goto(r, "init")
     ELSE IF run[r].state.plan = disk.plan THEN Goto(r, "orchestrate") ELSE End(r)
  /\ UNCHANGED <<disk, repo, lock, crashes>>

\* The plan is loaded again and an existing state refused, both before the lock.
InitializeRuntime(r) ==
  /\ run[r].at = "init"
  /\ IF disk.runtime # Nothing THEN End(r)
     ELSE Put(r, [run[r] EXCEPT !.at = "write", !.plan = disk.plan])
  /\ UNCHANGED <<disk, repo, lock, crashes>>

WriteRuntime(r) ==
  /\ run[r].at = "write"
  /\ IF lock # "free" THEN End(r) /\ UNCHANGED disk
     ELSE /\ disk' = [disk EXCEPT !.runtime =
                        [plan |-> run[r].plan, baseline |-> repo.head, done |-> {}]]
          /\ Goto(r, "orchestrate")
  /\ UNCHANGED <<repo, lock, crashes>>

--------------------------------------------------------------------------------
(* runOrchestrate, as far as it advances the runtime; its own steps are in *)
(* Orchestration.                                                          *)

StartOrchestrating(r) ==
  /\ run[r].at = "orchestrate"
  /\ IF lock = "free" THEN lock' = r /\ Goto(r, "working") ELSE End(r) /\ UNCHANGED lock
  /\ UNCHANGED <<disk, repo, crashes>>

\* selectNextTask: a unit not done whose dependencies are.
Eligible(runtime) ==
  {u \in Range(runtime.plan.units) : u.id \notin runtime.done /\ u.blockedBy \subseteq runtime.done}

Finished(runtime) == runtime.done = IdsOf(runtime.plan.units)

Accept(r) ==
  /\ run[r].at = "working" /\ repo.head < MaxHead
  /\ \E u \in Eligible(disk.runtime) :
       disk' = [disk EXCEPT !.runtime.done = @ \cup {u.id}]
  /\ repo' = [repo EXCEPT !.head = @ + 1]
  /\ UNCHANGED <<lock, run, crashes>>

StopOrchestrating(r) ==
  /\ run[r].at = "working"
  /\ lock' = "free"
  /\ End(r)
  /\ UNCHANGED <<disk, repo, crashes>>

--------------------------------------------------------------------------------
(* The outside.                                                            *)

Crash(r) ==
  /\ run[r].at # "idle" /\ crashes < MaxCrashes
  /\ crashes' = crashes + 1
  /\ lock' = IF lock = r THEN "free" ELSE lock
  /\ End(r)
  /\ UNCHANGED <<disk, repo>>

\* A person commits while nobody orchestrates, or edits the authorization file.
PersonCommits ==
  /\ lock = "free" /\ repo.head < MaxHead
  /\ repo' = [repo EXCEPT !.head = @ + 1]
  /\ UNCHANGED <<disk, lock, run, crashes>>

PersonRescopes ==
  /\ repo.scope < MaxScope
  /\ repo' = [repo EXCEPT !.scope = @ + 1]
  /\ UNCHANGED <<disk, lock, run, crashes>>

--------------------------------------------------------------------------------

Init ==
  /\ disk = [plan |-> Nothing, artifact |-> Nothing, runtime |-> Nothing]
  /\ repo = [head |-> 0, scope |-> 0]
  /\ lock = "free"
  /\ run = [r \in Runs |-> Fresh]
  /\ crashes = 0

Step(r) ==
  \/ LoadPlanFile(r) \/ CheckRuntime(r) \/ ChoosePlanner(r) \/ ChooseDeliberators(r)
  \/ Ask(r) \/ NoDeliberator(r) \/ DeliberationFails(r) \/ Deliberate(r)
  \/ WriteArtifact(r) \/ WritePlan(r) \/ ReadHead(r) \/ ReadState(r)
  \/ LoadRequestedPlan(r) \/ InitializeRuntime(r) \/ WriteRuntime(r)
  \/ StartOrchestrating(r) \/ StopOrchestrating(r)

Next ==
  \/ \E r \in Runs : Begin(r) \/ Step(r) \/ Accept(r) \/ Crash(r)
  \/ PersonCommits
  \/ PersonRescopes

Spec     == Init /\ [][Next]_vars
LiveSpec == Spec /\ \A r \in Runs : WF_vars(Step(r))

--------------------------------------------------------------------------------
(* Properties.                                                             *)

\* Every turn of a deliberation was given to the profile the artifact names for
\* it: the sequence is computed once for the record and once for the launch, at
\* different moments (run-project.ts:526, deliberation.ts:415).
RecordedIsLaunched ==
  \A r \in Runs : \A i \in DOMAIN run[r].turns :
    run[r].turns[i].profile = run[r].turns[i].launched

\* Whatever drafted or revised it, a plan that reaches the disk or a runtime
\* covers the acceptance contract, runs no shell and has no unit whose rollback
\* is unbounded: no path of retries, failovers and revisions goes around the
\* gates (generate.ts, deliberation.ts). The runtime made of it has a unit to work
\* on until all are done: selectNextTask never runs out of eligible tasks early.
SealedPlanIsGated ==
  /\ \A plan \in {disk.plan} \cup {disk.runtime.plan : x \in {disk.runtime} \ {Nothing}} :
       plan # Nothing =>
         /\ CoversAcceptance(plan.units, Objectives)
         /\ PlainCommands(plan.units)
         /\ \A i \in DOMAIN plan.units : Atomic(plan.units[i])
  /\ disk.runtime # Nothing => Finished(disk.runtime) \/ Eligible(disk.runtime) # {}

\* A run that is not killed comes to an end: attempts, failovers and turns are
\* all bounded.
RunEnds == \A r \in Runs : run[r].at # "idle" ~> run[r].at = "idle"

================================================================================
