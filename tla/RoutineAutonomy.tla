---------------------------- MODULE RoutineAutonomy ----------------------------
(***************************************************************************)
(* A blocked preflight under --autonomy routine (resolveRoutinePreflight   *)
(* of src/dev/lib/routine-autonomy.ts and its driver, routine-autonomy-    *)
(* runtime.ts): the incident is triaged, then recovered, or maintained,    *)
(* reviewed, published and adopted, and the preflight is asked once more.  *)
(* Every action of the driver is followed by a write-once event; the       *)
(* process may die between the two and an invocation to come replays it.   *)
(***************************************************************************)
EXTENDS Integers, Sequences

CONSTANTS
  Facts,           \* what the candidates a maintainer may commit look like, numbered
  SelfMaintained,  \* the repository is the installation of the harness itself
  Troubles,        \* what the runtime's evidence may have come to
  MaxAttempts, MaxCommits, MaxFaults   \* bounds of the model

Candidates == 1..Len(Facts)

\* What the preflight is stopped by, after its base has been settled.
AllTroubles == {"reconcilable", "attention", "gap", "bareGap", "inconsistent",
                "profile", "selection"}

ASSUME RoutineAssumption ==
  /\ Len(Facts) > 0 /\ SelfMaintained \in BOOLEAN
  /\ Troubles \subseteq AllTroubles
  /\ MaxAttempts \in Nat \ {0} /\ MaxCommits \in Nat /\ MaxFaults \in Nat

VARIABLES
  commits,    \* every commit over the baseline 0; work 0 is a task's or a person's
  repo,       \* HEAD, the branch at origin and authorized_head_sha
  clones,     \* candidates whose disposable clone is on disk
  trouble,    \* what stops the preflight, or "none"
  attempt,    \* attempts of the task to come
  incidents,  \* the events and the terminal record of each incident, by its id
  run,        \* the invocation: its step and what it holds in memory
  faults      \* deaths of the process and interventions of people

vars == <<commits, repo, clones, trouble, attempt, incidents, run, faults>>
world == <<commits, repo, clones, trouble, attempt>>

\* told: detected; made, said: the candidate and the review of each cycle;
\* again: the verdict of the retry; closed: the terminal record.
Unheard == [told |-> "none", recovered |-> FALSE, made |-> <<0, 0>>,
            said |-> <<"none", "none">>, adopted |-> FALSE,
            again |-> "unasked", closed |-> "none"]

Off == [at |-> "off", verdict |-> "none", id |-> <<0, 0, "none">>, cycle |-> 1,
        candidate |-> 0, decision |-> "none", again |-> "unasked"]

At(step) == run.at = step
Goto(step) == run' = [run EXCEPT !.at = step]

Event(i) == IF i \in DOMAIN incidents THEN incidents[i] ELSE Unheard
Incident == Event(run.id)
Write(e) ==
  incidents' = [i \in DOMAIN incidents \cup {run.id} |-> IF i = run.id THEN e ELSE incidents[i]]

Parent(c) == commits[c].parent
\* The commits on the way from c back to the baseline.
Line(c) ==
  LET line[k \in 0..Len(commits)] == IF k = 0 THEN {0} ELSE {k} \cup line[Parent(k)]
  IN line[c]

Init ==
  /\ commits = <<>>
  /\ repo = [head |-> 0, origin |-> 0, authorized |-> 0]
  /\ clones = {} /\ trouble = "none" /\ attempt = 0
  /\ incidents = <<>>
  /\ run = Off /\ faults = 0

--------------------------------------------------------------------------------
(* Triage.                                                                 *)

Blocker(v) ==
  CASE v = "maintenance" -> "MAINTENANCE_BLOCKED"
    [] v \in {"reconcilable", "attention"} -> "RECOVERY_ATTENTION"
    [] v \in {"gap", "bareGap"} -> "HISTORICAL_GAP"
    [] v = "inconsistent" -> "INCONSISTENT_EVIDENCE"
    [] v = "profile" -> "AUTOMATIC_REPAIR_PROFILE_MISMATCH"
    [] OTHER -> "SELECTION_BLOCKED"

\* The stages before the selection name no task: such incidents of one base
\* share their id.
RoutineIncidentId(v, base) ==
  <<IF Blocker(v) \in {"MAINTENANCE_BLOCKED", "RECOVERY_ATTENTION"} THEN 0 ELSE attempt,
    base, Blocker(v)>>
BaseOf(id) == id[2]

\* A recovery that is derived already, a gap that one ProtocolInvalidAttemptRecord
\* explains, a repair of another profile; everything else has no recipe.
Triage(v) ==
  CASE v = "reconcilable" -> "AUTO_RECOVER"
    [] v = "gap" -> "AUTO_MAINTENANCE"
    [] v = "profile" -> "TASK_REPAIR"
    [] OTHER -> "BLOCKED"

--------------------------------------------------------------------------------
(* runOrchestrationPreflight.                                              *)

\* HEAD ahead of the authorized base is adopted, whoever committed, unless the
\* gates or the evidence refuse; then the trouble decides.
Observations ==
  {[verdict |-> trouble, authorized |-> repo.head]} \cup
  IF repo.head = repo.authorized
    THEN {}
    ELSE {[verdict |-> "maintenance", authorized |-> repo.authorized]}

Start ==
  /\ At("off")
  /\ Goto("preflight")
  /\ UNCHANGED <<world, incidents, faults>>

Preflight ==
  /\ At("preflight")
  /\ \E o \in Observations :
       /\ repo' = [repo EXCEPT !.authorized = o.authorized]
       /\ run' = IF o.verdict = "none"
                   THEN [run EXCEPT !.at = "loop"]
                   ELSE [run EXCEPT !.at = "resolve", !.verdict = o.verdict,
                                    !.id = RoutineIncidentId(o.verdict, o.authorized)]
  /\ UNCHANGED <<commits, clones, trouble, attempt, incidents, faults>>

--------------------------------------------------------------------------------
(* resolveRoutinePreflight.                                                *)

\* finishHuman: the terminal record, and the end of the invocation.
FinishHuman == Write([Incident EXCEPT !.closed = "blocked"]) /\ run' = Off

\* With a terminal record the blocked preflight stands, recovered or not; an
\* event that reads differently cannot be written again and throws.
Replay ==
  /\ At("resolve")
  /\ Incident.closed # "none" \/ Incident.told \notin {"none", run.verdict}
  /\ run' = Off
  /\ UNCHANGED <<world, incidents, faults>>

\* Where the triage leads; what BLOCKED has no branch of its own.
Route(v) ==
  CASE Triage(v) = "TASK_REPAIR" -> "human"
    [] Triage(v) = "AUTO_RECOVER" -> "recover"
    [] OTHER -> IF SelfMaintained THEN "maintain" ELSE "human"

Detect ==
  /\ At("resolve")
  /\ Incident.closed = "none" /\ Incident.told \in {"none", run.verdict}
  /\ LET told == [Incident EXCEPT !.told = run.verdict]
     IN IF Route(run.verdict) = "human"
          THEN Write([told EXCEPT !.closed = "blocked"]) /\ run' = Off
          ELSE Write(told) /\ Goto(Route(run.verdict))
  /\ UNCHANGED <<world, faults>>

\* The driver, or whatever it calls, throws.
Refused ==
  /\ \/ At("recover") /\ ~Incident.recovered
     \/ At("maintain") /\ Incident.made[run.cycle] = 0
     \/ At("review") /\ Incident.said[run.cycle] = "none"
     \/ At("retry") /\ Incident.again = "unasked"
  /\ FinishHuman
  /\ UNCHANGED <<world, faults>>

\* The official recovery settles what was reconcilable, into an outcome that
\* may stop the selection.
Recover ==
  /\ At("recover")
  /\ IF Incident.recovered
       THEN Goto("retry") /\ UNCHANGED trouble
       ELSE trouble' \in {"none"} \cup (Troubles \cap {"selection"}) /\ Goto("recovered")
  /\ UNCHANGED <<commits, repo, clones, attempt, incidents, faults>>

SaveRecovery ==
  /\ At("recovered")
  /\ Write([Incident EXCEPT !.recovered = TRUE]) /\ Goto("retry")
  /\ UNCHANGED <<world, faults>>

--------------------------------------------------------------------------------
(* Maintenance: maintain, review, adopt.                                   *)

\* "dev" without the files only a person changes; package.json is refused whatever
\* the change, because the driver never says that it is of scripts alone.
AllowedFiles == {"dev", "test/dev", "docs"}
MaxImplementationTestFiles == 8
MaxMaintenanceCycles == 2

\* validateRoutineCandidate; what the gates return is part of the facts.
Acceptable(c) ==
  LET f == Facts[commits[c].work]
  IN /\ f.commits = 1 /\ Parent(c) = BaseOf(commits[c].incident)
     /\ f.tidy
     /\ ~f.launchedProvider
     /\ f.files \subseteq AllowedFiles
     /\ f.implementation <= MaxImplementationTestFiles
     /\ ~f.schemaVersion /\ ~f.forcePush
     /\ f.targeted /\ f.gates

ResumedAsReviewed(c) == run' = [run EXCEPT !.at = "adopt", !.candidate = c]

\* A candidate an earlier process has saved.
Resumed(c) == run' = [run EXCEPT !.at = "review", !.candidate = c]

\* A maintainer commits in a clone of the authorized base, and may do so over an
\* earlier commit that the clone holds.
Maintain ==
  /\ At("maintain")
  /\ IF Incident.made[run.cycle] # 0
       THEN Resumed(Incident.made[run.cycle]) /\ UNCHANGED <<commits, clones>>
       ELSE /\ Len(commits) < MaxCommits
            /\ \E w \in Candidates, p \in Line(BaseOf(run.id)) :
                 commits' = Append(commits, [parent |-> p, work |-> w, incident |-> run.id])
            /\ clones' = clones \cup {Len(commits')}
            /\ run' = [run EXCEPT !.at = "maintained", !.candidate = Len(commits')]
  /\ UNCHANGED <<repo, trouble, attempt, incidents, faults>>

SaveCandidate ==
  /\ At("maintained")
  /\ Write([Incident EXCEPT !.made[run.cycle] = run.candidate]) /\ Goto("review")
  /\ UNCHANGED <<world, faults>>

RefuseCandidate ==
  /\ At("review") /\ ~Acceptable(run.candidate)
  /\ FinishHuman
  /\ UNCHANGED <<world, faults>>

JudgedForever(e, d) ==
  IF d = "REJECT"
    THEN Write(e) /\ run' = [run EXCEPT !.at = "maintain", !.cycle = MaxMaintenanceCycles]
    ELSE IF d = "ACCEPT"
      THEN Write(e) /\ Goto("adopt")
      ELSE Write([e EXCEPT !.closed = "blocked"]) /\ run' = Off

\* What a decision leads to: a rejection is answered once.
Judged(e, d) ==
  CASE d = "ACCEPT" -> Write(e) /\ Goto("adopt")
    [] d = "REJECT" /\ run.cycle < MaxMaintenanceCycles ->
         Write(e) /\ run' = [run EXCEPT !.at = "maintain", !.cycle = @ + 1]
    [] OTHER -> Write([e EXCEPT !.closed = "blocked"]) /\ run' = Off

\* A reviewer in a clone of its own, made of the candidate's; the candidate it
\* does not accept loses its clone.
Review ==
  /\ At("review") /\ Acceptable(run.candidate)
  /\ IF Incident.said[run.cycle] # "none"
       THEN Judged(Incident, Incident.said[run.cycle]) /\ UNCHANGED clones
       ELSE /\ run.candidate \in clones
            /\ \E d \in {"ACCEPT", "REJECT", "HUMAN_REQUIRED"} :
                 /\ run' = [run EXCEPT !.at = "reviewed", !.decision = d]
                 /\ clones' = IF d = "ACCEPT" THEN clones ELSE clones \ {run.candidate}
            /\ UNCHANGED incidents
  /\ UNCHANGED <<commits, repo, trouble, attempt, faults>>

SaveReview ==
  /\ At("reviewed")
  /\ Judged([Incident EXCEPT !.said[run.cycle] = run.decision], run.decision)
  /\ UNCHANGED <<world, faults>>

\* publishAndFastForward: HEAD and origin are still at the base.
Publishable ==
  /\ repo.head = BaseOf(run.id) /\ repo.origin = BaseOf(run.id)
  /\ run.candidate \in clones

PublishLocallyFirst ==
  /\ At("adopt") /\ Publishable
  /\ repo' = [repo EXCEPT !.head = run.candidate]
  /\ Goto("pushed")
  /\ UNCHANGED <<commits, clones, trouble, attempt, incidents, faults>>

Publish ==
  /\ At("adopt") /\ Publishable
  /\ repo' = [repo EXCEPT !.origin = run.candidate]
  /\ Goto("pushed")
  /\ UNCHANGED <<commits, clones, trouble, attempt, incidents, faults>>

FastForward ==
  /\ At("pushed") /\ repo.head = Parent(run.candidate)
  /\ repo' = [repo EXCEPT !.head = run.candidate]
  /\ Goto("merged")
  /\ UNCHANGED <<commits, clones, trouble, attempt, incidents, faults>>

\* adoptMaintenance takes the one commit over the authorized base.
AdoptOfficial ==
  /\ At("merged")
  /\ repo.head # 0 /\ Parent(repo.head) = repo.authorized
  /\ repo' = [repo EXCEPT !.authorized = repo.head]
  /\ clones' = clones \ {run.candidate}
  /\ IF repo.head = run.candidate
       THEN Goto("adopted") /\ UNCHANGED incidents
       ELSE FinishHuman
  /\ UNCHANGED <<commits, trouble, attempt, faults>>

\* One of the three refuses, or a gate of the adoption does; the clone goes.
AdoptRefused ==
  /\ At("adopt") \/ At("pushed") \/ At("merged")
  /\ FinishHuman
  /\ clones' = clones \ {run.candidate}
  /\ UNCHANGED <<commits, repo, trouble, attempt, faults>>

\* Never read back: the adoption has moved the base, and the id with it.
SaveAdoption ==
  /\ At("adopted")
  /\ Write([Incident EXCEPT !.adopted = TRUE]) /\ Goto("retry")
  /\ UNCHANGED <<world, faults>>

--------------------------------------------------------------------------------
(* The retry of the preflight, and the end of the incident.                *)

Retry ==
  /\ At("retry")
  /\ IF Incident.again # "unasked"
       THEN run' = [run EXCEPT !.at = "conclude", !.again = Incident.again] /\ UNCHANGED repo
       ELSE \E o \in Observations :
              /\ repo' = [repo EXCEPT !.authorized = o.authorized]
              /\ run' = [run EXCEPT !.at = "retried", !.again = o.verdict]
  /\ UNCHANGED <<commits, clones, trouble, attempt, incidents, faults>>

SaveRetry ==
  /\ At("retried")
  /\ Write([Incident EXCEPT !.again = run.again]) /\ Goto("conclude")
  /\ UNCHANGED <<world, faults>>

\* A new blocker ends a maintenance; a recovery hands it on, to stop the run.
\* The verdict may be an earlier invocation's, and the loop has to see for itself.
Conclude ==
  /\ At("conclude")
  /\ LET fails == \/ run.again = run.verdict
                  \/ (Triage(run.verdict) # "AUTO_RECOVER" /\ run.again # "none")
     IN Write([Incident EXCEPT !.closed = IF fails THEN "blocked" ELSE "recovered"])
  /\ run' = IF run.again = "none" THEN [Off EXCEPT !.at = "loop"] ELSE Off
  /\ UNCHANGED <<world, faults>>

--------------------------------------------------------------------------------
(* The loop, as far as the incidents see it, and everybody else.           *)

\* The next task is launched, unless the state it reads stops the selection.
Launch ==
  /\ At("loop")
  /\ IF trouble = "none" /\ attempt < MaxAttempts
       THEN attempt' = attempt + 1 /\ Goto("working")
       ELSE run' = Off /\ UNCHANGED attempt
  /\ UNCHANGED <<commits, repo, clones, trouble, incidents, faults>>

\* An accepted task moves HEAD and the authorized base; any other close leaves
\* what the preflight to come has to look at.
Accepted ==
  /\ At("working") /\ repo.head = repo.authorized /\ Len(commits) < MaxCommits
  /\ commits' = Append(commits, [parent |-> repo.head, work |-> 0, incident |-> Off.id])
  /\ repo' = [repo EXCEPT !.head = Len(commits'), !.authorized = Len(commits')]
  /\ attempt' = 0
  /\ run' = Off
  /\ UNCHANGED <<clones, trouble, incidents, faults>>

NotAccepted ==
  /\ At("working")
  /\ trouble' \in Troubles
  /\ run' = Off
  /\ UNCHANGED <<commits, repo, clones, attempt, incidents, faults>>

\* The process dies; a task it was waiting for is left RUNNING.
Crash ==
  /\ ~At("off") /\ faults < MaxFaults
  /\ trouble' \in IF At("working") THEN Troubles \cap {"reconcilable", "attention"} ELSE {trouble}
  /\ run' = Off
  /\ faults' = faults + 1
  /\ UNCHANGED <<commits, repo, clones, attempt, incidents>>

\* Somebody commits in the checkout, or brings it and origin together.
OutsideCommit ==
  /\ faults < MaxFaults /\ Len(commits) < MaxCommits
  /\ commits' = Append(commits, [parent |-> repo.head, work |-> 0, incident |-> Off.id])
  /\ repo' = [repo EXCEPT !.head = Len(commits')]
  /\ faults' = faults + 1
  /\ UNCHANGED <<clones, trouble, attempt, incidents, run>>

OutsideSync ==
  /\ faults < MaxFaults /\ repo.head # repo.origin
  /\ \/ repo.origin \in Line(repo.head) /\ repo' = [repo EXCEPT !.origin = repo.head]
     \/ repo.head \in Line(repo.origin) /\ repo' = [repo EXCEPT !.head = repo.origin]
  /\ faults' = faults + 1
  /\ UNCHANGED <<commits, clones, trouble, attempt, incidents, run>>

\* Somebody settles the trouble with the commands of the harness.
OutsideRepair ==
  /\ At("off") /\ faults < MaxFaults /\ trouble # "none"
  /\ trouble' = "none"
  /\ faults' = faults + 1
  /\ UNCHANGED <<commits, repo, clones, attempt, incidents, run>>

Step ==
  \/ Preflight \/ Replay \/ Detect \/ Refused \/ Recover \/ SaveRecovery
  \/ Maintain \/ SaveCandidate \/ RefuseCandidate \/ Review \/ SaveReview
  \/ Publish \/ FastForward \/ AdoptOfficial \/ AdoptRefused \/ SaveAdoption
  \/ Retry \/ SaveRetry \/ Conclude \/ Launch \/ Accepted \/ NotAccepted

Next == Start \/ Step \/ Crash \/ OutsideCommit \/ OutsideSync \/ OutsideRepair

\* An invocation that runs goes on; nobody has to start one.
Spec == Init /\ [][Next]_vars /\ WF_vars(Step)

--------------------------------------------------------------------------------
Maintained == {c \in 1..Len(commits) : commits[c].work # 0}

\* Whatever a maintainer wrote and is in HEAD or at origin is exactly what an
\* independent review accepted in its incident, inside the boundary and over the
\* base the incident was about, however often the process died between the
\* review, the push and the merge (resolveRoutinePreflight, publishAndFastForward).
PublishedIsReviewed ==
  \A c \in Maintained \cap (Line(repo.head) \cup Line(repo.origin)) :
    LET e == Event(commits[c].incident)
    IN /\ \E n \in 1..MaxMaintenanceCycles : e.made[n] = c /\ e.said[n] = "ACCEPT"
       /\ Acceptable(c)
       /\ Parent(c) = BaseOf(commits[c].incident)

\* No maintenance becomes the authorized base of the next task before origin has
\* it, although a preflight adopts whatever it finds in HEAD and the process may
\* die between push, merge and adoption (publishAndFastForward, runMaintenanceStage).
AdoptedIsPublished == Maintained \cap Line(repo.authorized) \subseteq Line(repo.origin)

\* Every invocation ends: two cycles of maintenance, one retry and replayed
\* events never send it round again (resolveRoutinePreflight).
InvocationSettles == ~At("off") ~> At("off")

\* An incident whose triage is BLOCKED, for evidence that contradicts itself or for
\* a blocker no recipe knows, is terminal: no maintainer is launched for it
\* (IncidentClassification, blockedTriage).
BlockedLaunchesNobody ==
  \A c \in Maintained :
    Triage(Event(commits[c].incident).told) = "AUTO_MAINTENANCE"
================================================================================
