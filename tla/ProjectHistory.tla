----------------------------- MODULE ProjectHistory -----------------------------
(***************************************************************************)
(* The canonical history of a project (src/dev/lib/project-history.ts and  *)
(* the control plane of project-run.ts): every attempt a run of the        *)
(* orchestrator finishes is written into the laboratory as a sealed run,   *)
(* the runs of one piece of work become the episodes the router learns     *)
(* from, and what it learned chooses who launches next. The loop is the    *)
(* one of Orchestration with a control plane and nothing left to review;   *)
(* its process may die between any two writes.                             *)
(***************************************************************************)
EXTENDS ControlPlane, SequencesExt, TLC

Router == INSTANCE Routing
Perf   == INSTANCE PerformanceHistory
Store  == INSTANCE RunStorage
Gates  == INSTANCE ProviderGates

CONSTANTS
  UnitOf,         \* the definition and classification of each task
  Inspection,     \* what is found of the repository, of a ready environment
  Balances,       \* the selection policy balances evidence
  MinimumSample,  \* HISTORY_MINIMUM_SAMPLE_SIZE
  Seeds,          \* what earlier projects may have left: [by, passed] per run
  MaySpend,       \* the sets of pools an observation may find exhausted
  MayBeSilent,    \* the tasks whose worker's inference may go unobserved
  MaxFaults       \* bound on deaths, failed writes and interventions together

VARIABLES
  lab,       \* the run directories of the laboratory
  told,      \* what the run of an attempt says of it
  rows,      \* the runs in the sqlite index
  bindings,  \* the attempts bound to their canonical run
  faults

vars == <<task, grants, run, lab, told, rows, bindings, faults>>
disk == <<task, grants, lab, told, rows, bindings>>

Pools  == {Catalog[p].pool : p \in Profiles}
Agents == {Catalog[p].agent : p \in Profiles}
IdOf(p) == Catalog[p].id
Named(id) == CHOOSE p \in Profiles : IdOf(p) = id
SpentProfiles(pools) == {p \in Profiles : Catalog[p].pool \in pools}

ASSUME HistoryAssumption ==
  /\ Catalog \in [Profiles -> Router!Capabilities] /\ UnitOf \in [Tasks -> Router!Units]
  /\ Inspection \in Router!Inspections
  /\ \A p, q \in Profiles : IdOf(p) = IdOf(q) => p = q
  /\ MinimumSample \in Nat \ {0} /\ MaxFaults \in Nat
  /\ Balances \in BOOLEAN /\ MayBeSilent \subseteq Tasks
  /\ MaySpend \subseteq SUBSET Pools /\ {} \in MaySpend
  /\ Seeds \subseteq Seq([by : Profiles, passed : BOOLEAN])

\* The memory of a control plane; it ends with its process. "shot" is the frozen
\* history of a task, <<>> before it is taken; so are its episode and "seen".
Idle == [at |-> "off", subject |-> 0, kind |-> "FIRST_PASS", pin |-> NoProfile,
         second |-> FALSE, by |-> NoProfile, role |-> "initial",
         close |-> "none", inferred |-> "no",
         shot |-> [t \in Tasks |-> <<>>], episode |-> [t \in Tasks |-> <<>>],
         seen |-> [t \in Tasks |-> {}],
         launches |-> [a \in Agents |-> 0]] @@ NewMemory

At(step) == run.at = step
Stop == run' = Idle
\* The next iteration; only the memory of the control plane stays.
Loop(next) ==
  run' = [next EXCEPT !.at = "top", !.subject = 0, !.kind = "FIRST_PASS", !.pin = NoProfile,
                      !.second = FALSE, !.by = NoProfile, !.role = "initial",
                      !.close = "none", !.inferred = "no"]

Current == <<run.subject, Attempts(run.subject)>>

--------------------------------------------------------------------------------
(* What the laboratory holds.                                              *)

ExecutionFiles(a) ==
  {"execution-envelope", "execution-record", "comparable-run-facts"} \cup
  (IF a.interventions = Perf!NotRecorded THEN {} ELSE {"interventions"})
FilesOf(section, a) ==
  CASE section = "execution" -> ExecutionFiles(a)
    [] section = "evaluation" ->
         {"evaluation-envelope", "evaluation-record", "official-validation-evidence"}
    [] section = "score" -> {"score-record", "qualification-record"}

\* The inputs of deriveComparableRunIdentity, as the attempt was launched.
Identity(p, u) ==
  [profile |-> IdOf(p), fingerprint |-> IdOf(p), class |-> u.class, difficulty |-> u.difficulty,
   model |-> Catalog[p].model, effort |-> Catalog[p].effort, role |-> "implementer",
   environment |-> Catalog[p].environment, pressure |-> Router!ContextPressure(u),
   readiness |-> "READY"]

\* A run as performance/query.ts reads it, with the context of its record.
RunOf(id) ==
  LET a == told[id]
      files == lab[id].files
  IN [id |-> id, trial |-> <<a.episode, a.by>>, recorded |-> lab[id].record,
      intact |-> Store!Intact(lab[id]),
      complete |-> \A s \in Store!Sections : FilesOf(s, a) \subseteq files[s],
      context |-> IF lab[id].record
                    THEN <<[episode |-> a.episode, ordinal |-> a.ordinal, work |-> a.work,
                            initial |-> <<IdOf(a.initial), IdOf(a.initial)>>,
                            selection |-> id, inferred |-> "yes"]>>
                    ELSE <<>>,
      selection |-> id, role |-> a.role, identity |-> Identity(a.by, a.work),
      outcome |-> IF a.passed THEN "PASS" ELSE "FAIL", tokens |-> 1, duration |-> 1,
      interventions |-> a.interventions, qualified |-> a.passed]

LabRuns == {RunOf(id) : id \in DOMAIN lab}

\* The run of an earlier project that did the first task's work in one attempt.
Seed(seeds, k) ==
  [episode |-> <<0, k>>, ordinal |-> 1, by |-> seeds[k].by, role |-> "initial",
   initial |-> seeds[k].by, work |-> UnitOf[1], passed |-> seeds[k].passed, interventions |-> 0]
Sealed(entered, section) == Store!WithEntry(Store!WithManifest(entered, section), section)
Finished(a) ==
  LET with(r, s) == Sealed(Store!WithFiles(r, s, FilesOf(s, a)), s)
  IN Store!WithRecord(
       with(with(with(Store!NewRun, "execution"), "evaluation"), "score"))

Init ==
  /\ task = [t \in Tasks |-> NewTask]
  /\ grants = [t \in Tasks |-> <<>>]
  /\ run = Idle
  /\ \E seeds \in Seeds :
       LET ids == {<<0, k>> : k \in DOMAIN seeds}
       IN /\ told = [id \in ids |-> Seed(seeds, id[2])]
          /\ lab = [id \in ids |-> Finished(Seed(seeds, id[2]))]
          /\ rows = ids
  /\ bindings = {}
  /\ faults = 0

--------------------------------------------------------------------------------
(* The control plane before a launch.                                      *)

\* queryCanonicalProjectHistory: what the disk says now of the task's work.
Queried(t, profiles) ==
  [seen |-> {r.id : r \in Perf!Observed(LabRuns, UnitOf[t])}, of |-> profiles]

\* The snapshot of the task, taken once in a process.
History(t, profiles) ==
  IF run.shot[t] # <<>> THEN run.shot[t][1] ELSE Queried(t, profiles)

SeriesOf(history) ==
  Perf!Series({RunOf(id) : id \in history.seen}, {IdOf(p) : p \in history.of}, MinimumSample)

\* evidenceBalanceFactsOf. Launches were counted by agent and are looked up by
\* provider.
EvidenceFacts(profiles, series, pools) ==
  LET Samples(p) == MapThenSumSet(LAMBDA s : s.trials, {s \in series : s.profile = IdOf(p)})
      Provided(v) == {p \in profiles : Catalog[p].provider = v}
  IN [samples |-> [id \in {IdOf(p) : p \in profiles} |-> Samples(Named(id))],
      providerSamples |-> [v \in {Catalog[p].provider : p \in profiles} |->
                             MapThenSumSet(Samples, Provided(v))],
      launches |-> run.launches,
      headroom |-> [pool \in Pools |->
                      Gates!Headroom(IF pool \in pools THEN "EXHAUSTED" ELSE "KNOWN", {})]]

\* assessWorkUnit, of the pools observed to be spent: the pin, if it may be kept,
\* the snapshot it judged by and what the router made of it.
Assessment(t, requested, pools) ==
  LET pin == Pin(t, requested, SpentProfiles(pools))
      profiles == IF pin = NoProfile THEN Profiles ELSE {pin}
      history == History(t, profiles)
      series == SeriesOf(history)
  IN [pin |-> pin, history |-> history,
      routed |-> Router!RouteWithHistory(
        UnitOf[t], Router!Assessment(UnitOf[t], Inspection, Inspection.git), "implementer",
        {Catalog[p] : p \in profiles}, {IdOf(p) : p \in profiles}, Balances,
        EvidenceFacts(profiles, series, pools), series,
        [id \in {IdOf(p) : p \in profiles} |-> id], MinimumSample)]

Selected(assessed) ==
  IF assessed.pin # NoProfile THEN assessed.pin ELSE Named(assessed.routed.result.profile)

RoleOf(t, kind) ==
  CASE kind = "REPAIR" -> "repair"
    [] kind # "REPAIR" /\ run.escalated[t] # NoProfile -> "escalation"
    [] OTHER -> "initial"

Continues(t) ==
  [first |-> told[<<t, Attempts(t)>>].episode, initial |-> told[<<t, Attempts(t)>>].initial,
   next |-> told[<<t, Attempts(t)>>].ordinal + 1]

NewEpisode(t, profile) ==
  [first |-> <<t, Attempts(t) + 1>>, initial |-> profile, next |-> 1]

EpisodeAlwaysContinued(t, kind, profile) ==
  IF run.episode[t] # <<>> THEN run.episode[t]
  ELSE IF <<t, Attempts(t)>> \in bindings THEN <<Continues(t)>>
  ELSE <<NewEpisode(t, profile)>>

\* ensureEpisode: a repair or an escalation continues the episode its last
\* attempt is bound to; what this process does not know begins a new one.
EpisodeOf(t, kind, profile) ==
  IF run.episode[t] # <<>> THEN run.episode[t]
  ELSE IF /\ kind = "REPAIR" \/ run.escalated[t] # NoProfile
          /\ <<t, Attempts(t)>> \in bindings
  THEN <<Continues(t)>>
  ELSE <<NewEpisode(t, profile)>>

\* beforeWorkUnit of a launch, and executeReadyTask up to the worker's start.
\* "asPinned" launches the profile of the repair whatever was selected.
BeforeAndLaunch(t, kind, requested, asPinned) ==
  \E pools \in MaySpend : \E assessed \in {Assessment(t, requested, pools)} :
    LET selected == Selected(assessed)
        by == IF asPinned THEN requested ELSE selected
    IN IF assessed.routed.result.outcome = "BLOCKED"
       THEN Stop /\ UNCHANGED task
       ELSE /\ run' = [run EXCEPT
                 !.at = "work", !.subject = t, !.kind = kind, !.second = asPinned, !.by = by,
                 !.role = RoleOf(t, kind), !.shot[t] = <<assessed.history>>,
                 !.episode[t] = EpisodeOf(t, kind, selected),
                 !.launches[Catalog[selected].agent] = @ + 1]
            /\ SetTask(t, [task[t] EXCEPT !.status = "RUNNING", !.phase = "working",
                                         !.runs = Append(@, [profile |-> by, closed |-> {}])])

--------------------------------------------------------------------------------
(* The loop of runOrchestrate.                                             *)

InState(s) == {t \in Tasks : Status(t) = s}

Start ==
  /\ At("off")
  /\ run' = [Idle EXCEPT !.at = IF InState("RUNNING") = {} THEN "top" ELSE "resume"]
  /\ UNCHANGED <<disk, faults>>

CloseWith(t, passed) ==
  SetTask(t, [task[t] EXCEPT !.status = IF passed THEN "PASS" ELSE "FAIL",
                            !.phase = "none", !.official = ~passed])

\* resumePendingFinalization closes what a dead process launched and tells the
\* control plane nothing of it.
ResumeFinalization ==
  /\ At("resume")
  /\ \E t \in InState("RUNNING"), passed \in BOOLEAN : CloseWith(t, passed)
  /\ run' = [run EXCEPT !.at = "top"]
  /\ UNCHANGED <<grants, lab, told, rows, bindings, faults>>

\* The head of the loop: a FAIL is repaired, escalated or left to a person.
RepairFailed ==
  /\ At("top") /\ InState("FAIL") # {}
  /\ LET t == Min(InState("FAIL"))
         d == Decide(t)
     IN /\ Reconcile(t, d, FailedSourceLoads(t))
        /\ CASE HaltOf(ReconcileResult(d, FailedSourceLoads(t))) # "none" ->
                  run' = [run EXCEPT !.at = "escalate", !.subject = t]
             [] d.action = "REPAIR_ALLOWED" -> run' = [run EXCEPT !.at = "select"]
             [] OTHER -> Stop
  /\ UNCHANGED <<lab, told, rows, bindings, faults>>

NothingFailed ==
  /\ At("top") /\ InState("FAIL") = {}
  /\ run' = [run EXCEPT !.at = "select"]
  /\ UNCHANGED <<disk, faults>>

SelectTask ==
  /\ At("select")
  /\ IF InState("READY") = {} THEN Stop /\ UNCHANGED <<task, grants>>
     ELSE LET t == Min(InState("READY"))
              d == Decide(t)
          IN /\ Reconcile(t, d, FailedSourceLoads(t))
             /\ IF HaltOf(ReconcileResult(d, FailedSourceLoads(t))) # "none" THEN Stop
                ELSE run' = [run EXCEPT !.at = "before", !.subject = t,
                               !.kind = IF d.action = "REPAIR_ALLOWED" THEN "REPAIR"
                                        ELSE "FIRST_PASS",
                               !.pin = IF d.action = "REPAIR_ALLOWED" THEN d.profile
                                       ELSE NoProfile]
  /\ UNCHANGED <<lab, told, rows, bindings, faults>>

LaunchSelected ==
  /\ At("before") /\ Attempts(run.subject) < MaxAttempts[run.subject]
  /\ BeforeAndLaunch(run.subject, run.kind, run.pin, FALSE)
  /\ UNCHANGED <<grants, lab, told, rows, bindings, faults>>

AttemptsSpent ==
  /\ At("before") /\ Attempts(run.subject) = MaxAttempts[run.subject]
  /\ Stop
  /\ UNCHANGED <<disk, faults>>

Silence(t) == IF t \in MayBeSilent THEN {Perf!Unknown} ELSE {}

\* The worker ends and its close is final; its inference may be unprovable.
WorkerFinishes ==
  /\ At("work")
  /\ \E passed \in BOOLEAN, inferred \in {"yes"} \cup Silence(run.subject) :
       /\ CloseWith(run.subject, passed)
       /\ run' = [run EXCEPT !.at = "observe", !.inferred = inferred,
                            !.close = IF passed THEN "PASS" ELSE "FAIL"]
  /\ UNCHANGED <<grants, lab, told, rows, bindings, faults>>

--------------------------------------------------------------------------------
(* afterWorkUnit: materializeCanonicalProjectAttempt, write by write.      *)

\* proveInterventionEvidence: autonomy is recorded when this process conducted
\* the attempt before this one, or the episode begins here.
Autonomous ==
  LET t == run.subject
  IN run.episode[t][1].next = 1 \/ Attempts(t) - 1 \in run.seen[t]

Evidence ==
  LET e == run.episode[run.subject][1]
  IN [episode |-> e.first, ordinal |-> e.next, by |-> run.by, role |-> run.role,
      initial |-> e.initial, work |-> UnitOf[run.subject], passed |-> run.close = "PASS",
      interventions |-> IF Autonomous THEN 0 ELSE Perf!NotRecorded]

AdvancedNot(next) == next
Advanced(next) == [next EXCEPT !.episode[run.subject][1].next = @ + 1]
Seen(next) == [next EXCEPT !.seen[run.subject] = @ \cup {Attempts(run.subject)}]

\* Without proof that a model ran, the attempt is no sample of anything.
Skip ==
  /\ At("observe") /\ run.inferred # "yes"
  /\ run' = [Advanced(Seen(run)) EXCEPT !.at = "after"]
  /\ UNCHANGED <<disk, faults>>

BeginRun ==
  /\ At("observe") /\ run.inferred = "yes"
  /\ told' = (Current :> Evidence) @@ told
  /\ lab' = Store!CreateOrResume(lab, Current)
  /\ run' = [Seen(run) EXCEPT !.at = "write"]
  /\ UNCHANGED <<task, grants, rows, bindings, faults>>

NextOfSection(id, section) ==
  LET missing == FilesOf(section, told[id]) \ lab[id].files[section]
  IN IF missing # {} /\ section \notin lab[id].sealed THEN <<"files">>
     ELSE Store!SealWrites(lab[id], section)

SectionOrder == <<"execution", "evaluation", "score">>

\* The sections still to be written, the first of them first.
OpenSections(id) == SelectSeq(SectionOrder, LAMBDA s : NextOfSection(id, s) # <<>>)

Written(id, section) ==
  CASE Head(NextOfSection(id, section)) = "files" ->
         Store!WithFiles(lab[id], section, FilesOf(section, told[id]))
    [] Head(NextOfSection(id, section)) = "manifest" -> Store!WithManifest(lab[id], section)
    [] OTHER -> Store!WithEntry(lab[id], section)

WriteSection ==
  /\ At("write") /\ OpenSections(Current) # <<>>
  /\ lab' = [lab EXCEPT ![Current] = Written(Current, Head(OpenSections(Current)))]
  /\ UNCHANGED <<task, grants, run, told, rows, bindings, faults>>

\* indexRun: the record, then the rows.
RecordDue(id) == OpenSections(id) = <<>> /\ ~lab[id].record
RowsBeforeRecord(id) == OpenSections(id) = <<>> /\ id \notin rows
RowsDue(id) == lab[id].record /\ id \notin rows

WriteRecord ==
  /\ At("write") /\ RecordDue(Current)
  /\ lab' = [lab EXCEPT ![Current] = Store!WithRecord(@)]
  /\ UNCHANGED <<task, grants, run, told, rows, bindings, faults>>

WriteRows ==
  /\ At("write") /\ RowsDue(Current)
  /\ rows' = rows \cup {Current}
  /\ UNCHANGED <<task, grants, run, lab, told, bindings, faults>>

\* The attempt is bound to a run that verifies; then the episode moves on.
BindRun ==
  /\ At("write") /\ Current \in rows /\ Store!Intact(lab[Current])
  /\ bindings' = bindings \cup {Current}
  /\ run' = [Advanced(run) EXCEPT !.at = "after"]
  /\ UNCHANGED <<task, grants, lab, told, rows, faults>>

\* A write that fails degrades the telemetry and stops nothing.
WriteFails ==
  /\ At("write") /\ faults < MaxFaults
  /\ faults' = faults + 1
  /\ run' = [run EXCEPT !.at = "after"]
  /\ UNCHANGED disk

--------------------------------------------------------------------------------
(* What follows the close.                                                 *)

Passed ==
  /\ At("after") /\ run.close = "PASS"
  /\ Loop(run)
  /\ UNCHANGED <<disk, faults>>

\* The one repair within the iteration: assessed like any launch, and launched
\* on the profile of the repair.
RepairInLoop ==
  /\ At("after") /\ run.close = "FAIL" /\ ~run.second
  /\ LET t == run.subject
         d == Decide(t)
     IN /\ Reconcile(t, d, FailedSourceLoads(t))
        /\ IF HaltOf(ReconcileResult(d, FailedSourceLoads(t))) = "none" /\ d.action = "REPAIR_ALLOWED"
             THEN run' = [run EXCEPT !.at = "again", !.pin = d.profile]
             ELSE Stop
  /\ UNCHANGED <<lab, told, rows, bindings, faults>>

LaunchRepair ==
  /\ At("again") /\ Attempts(run.subject) < MaxAttempts[run.subject]
  /\ BeforeAndLaunch(run.subject, "REPAIR", run.pin, TRUE)
  /\ UNCHANGED <<grants, lab, told, rows, bindings, faults>>

RepairSpent ==
  /\ At("again") /\ Attempts(run.subject) = MaxAttempts[run.subject]
  /\ Stop
  /\ UNCHANGED <<disk, faults>>

RepairFailedToo ==
  /\ At("after") /\ run.close = "FAIL" /\ run.second
  /\ run' = [run EXCEPT !.at = "escalate"]
  /\ UNCHANGED <<disk, faults>>

\* onRepairExhausted, over a fresh observation of the pools of the ladder.
EscalateOrHalt ==
  /\ At("escalate")
  /\ \E pools \in MaySpend :
       LET t == run.subject
           e == Escalation(t, SpentProfiles(pools))
       IN IF e.outcome = "ESCALATE" /\ FailedSourceLoads(t)
            THEN /\ SetTask(t, Archived(t, "validation"))
                 /\ Loop(Escalate(run, t, e))
            ELSE Stop /\ UNCHANGED task
  /\ UNCHANGED <<grants, lab, told, rows, bindings, faults>>

--------------------------------------------------------------------------------
(* What may happen at any time.                                            *)

Crash ==
  /\ ~At("off") /\ faults < MaxFaults
  /\ Stop
  /\ faults' = faults + 1
  /\ UNCHANGED disk

\* dev-retry-failed, between two processes.
RetryFailed ==
  /\ At("off") /\ faults < MaxFaults
  /\ \E t \in InState("FAIL") :
       FailedSourceLoads(t) /\ SetTask(t, Archived(t, "validation"))
  /\ faults' = faults + 1
  /\ UNCHANGED <<grants, run, lab, told, rows, bindings>>

Step ==
  \/ ResumeFinalization \/ RepairFailed \/ NothingFailed \/ SelectTask
  \/ LaunchSelected \/ AttemptsSpent \/ WorkerFinishes
  \/ Skip \/ BeginRun \/ WriteSection \/ WriteRecord \/ WriteRows \/ BindRun
  \/ Passed \/ RepairInLoop \/ LaunchRepair \/ RepairSpent \/ RepairFailedToo
  \/ EscalateOrHalt

Next == Start \/ Step \/ WriteFails \/ Crash \/ RetryFailed

Spec == Init /\ [][Next]_vars

--------------------------------------------------------------------------------
(* Properties.                                                             *)

Works == {UnitOf[t] : t \in Tasks}

\* The episodes that count tell what happened (query.ts): each begins with the
\* one attempt that began that piece of work, run by the profile it is credited
\* to, keeps the order of the attempts of one task, and passed only where the
\* task did.
EpisodesTellTheTruth ==
  \A work \in Works :
    \A e \in Perf!Episodes(Perf!Observed(LabRuns, work)) :
      LET first == Perf!Anchor(e)
      IN first.id[1] # 0 =>
           /\ Cardinality(Perf!Initials(e)) = 1
           /\ first.id = Perf!Context(first).episode
           /\ \A r \in e :
                /\ r.id[1] = first.id[1]
                /\ r.identity.profile = IdOf(RanBy(r.id[1], r.id[2]))
                /\ r.outcome = "PASS" <=>
                     Status(r.id[1]) = "PASS" /\ r.id[2] = Attempts(r.id[1])
                /\ \A other \in e : Perf!Context(r).ordinal < Perf!Context(other).ordinal
                                      <=> r.id[2] < other.id[2]

\* What is bound was published whole, and the index never knows more than a
\* rebuild would find (project-history.ts:318, sqlite-index.ts:301): a death
\* between two writes leaves a run nobody counts, never a half of one.
PublishedWhole ==
  /\ rows \subseteq Store!Recorded(lab)
  /\ \A id \in Store!Recorded(lab) : Store!Intact(lab[id])
  /\ bindings \subseteq rows

\* An attempt that was bound is not lost to the router (query.ts:490): when all
\* that is recorded of its episode was bound, and its beginning is, it counts.
BoundEpisodesCount ==
  \A work \in Works :
    LET observed == Perf!Observed(LabRuns, work)
    IN \A episode \in Perf!EpisodeIds(observed) :
         LET e == Perf!AttemptsOf(observed, episode)
         IN ({r.id : r \in e} \subseteq bindings /\ Perf!Initials(e) # {})
              => e \in Perf!Episodes(observed)

================================================================================
