--------------------------- MODULE AttemptRecovery ---------------------------
(***************************************************************************)
(* How an attempt that ended without a verdict gives its task back.        *)
(* Four commands do it, each for one way of ending: dev-retry (nothing was *)
(* produced), dev-recover-infra (the provider failed), the recovery of a   *)
(* malformed completion (dev-recover-protocol-output) and that of an       *)
(* incomplete one.  Each archives evidence, preserves the worker's patch   *)
(* as a bundle, resets the files it preserved, publishes a record and      *)
(* reopens the task, one write at a time; a process may die before any of  *)
(* them and the operator repeats the command, or runs another one.  The    *)
(* next launch rehydrates what the infrastructure recovery preserved.      *)
(*                                                                         *)
(* One task; the harness lock admits one command at a time.  A file's      *)
(* content is who wrote it: 0 is the base, an attempt, or Foreign.         *)
(***************************************************************************)
EXTENDS Naturals, Sequences, FiniteSets, SequencesExt

CONSTANTS MaxAttempts,   \* attempts of the task; bounds Launch
          MaxFaults,     \* crashes; bounds Crash
          MaxCommits,    \* maintenance commits; bounds Maintain
          Foreigners     \* files a person may edit before a spawn

Attempts == 1 .. MaxAttempts

\* File 1 exists in the base and is restored; file 2 is new and is removed.
Files == 1 .. 2
Foreign == 99
Clean == [f \in Files |-> 0]

ASSUME RecoveryConstants ==
    /\ MaxAttempts \in 1 .. 98
    /\ MaxFaults \in Nat /\ MaxCommits \in Nat
    /\ Foreigners \subseteq Files

VARIABLES
    task,     \* [status, attempt] of the runtime state
    repo,     \* [head, auth] and the base_sha of every attempt
    tree,     \* the working tree: file -> content
    inbox,    \* [report, handoff]: whose output each slot holds, 0 when empty
    intent,   \* attempt of a pending inbox-release.intent.json, or 0
    slot,     \* attempt whose FAIL is in the completion slot, or 0
    launch,   \* what the LaunchRecord of the current attempt says
    disk,     \* the archive of every attempt
    cmd,      \* the command that runs, with the writes it still has to make
    faults,   \* crashes so far
    made,     \* history: what the worker of each attempt left behind
    mine      \* history: files the person edited and has not cleaned

vars == <<task, repo, tree, inbox, intent, slot, launch, disk, cmd, faults, made, mine>>

(***************************************************************************)
(* Records.                                                                *)
(***************************************************************************)
NoPatch == [f \in Files |-> 0]
NoArchive == [report |-> 0, handoff |-> 0, patch |-> NoPatch, copies |-> NoPatch,
              listed |-> {}, print |-> NoPatch, evidence |-> FALSE, misfiled |-> FALSE,
              records |-> {}, head |-> 0, recoverable |-> FALSE, output |-> FALSE]

OutputKinds == {"NONE", "MALFORMED", "FAILURE"}

Idle == [name |-> "none", todo |-> <<>>, files |-> {}, print |-> NoPatch,
         owner |-> 0, flag |-> FALSE]

Op(name) == [op |-> name, file |-> 0]

Current == task.attempt
Archive == disk[Current]
Base == repo.base[Current]
Dirty == {f \in Files : tree[f] # 0}
Only(t, fs) == [f \in Files |-> IF f \in fs THEN t[f] ELSE 0]
HasManifest(a) == disk[a].listed # {}
Recoverable(a) == "infra" \in disk[a].records /\ disk[a].recoverable
InboxEmpty == inbox.report = 0 /\ inbox.handoff = 0
InboxFull == inbox.report # 0 /\ inbox.handoff # 0

(***************************************************************************)
(* The writes several commands share.                                      *)
(***************************************************************************)
\* The order a reset takes: what the base has is restored, the rest removed.
Resets(fs) == LET ordered == SelectSeq(<<1, 2>>, LAMBDA f : f \in fs)
              IN  [i \in DOMAIN ordered |-> [op |-> "reset", file |-> ordered[i]]]

Preserve(fs) == IF fs = {} THEN <<>> ELSE <<Op("patch"), Op("manifest")>>

\* An interrupted release of the inbox may be finished: its archive is complete
\* and what is left in the slots is what it authorised.
ReleaseProven ==
    /\ intent # 0
    /\ disk[intent].report = intent /\ disk[intent].handoff = intent
    /\ inbox.report \in {0, intent} /\ inbox.handoff \in {0, intent}

FinishRelease == IF intent = 0 THEN <<>> ELSE <<Op("rmReport"), Op("rmHandoff"), Op("clear")>>

\* A release that starts declares itself first; one that was declared goes on.
Release == IF InboxEmpty /\ intent = 0 THEN <<>>
           ELSE (IF intent = 0 THEN <<Op("intent")>> ELSE <<>>)
                \o <<Op("rmReport"), Op("rmHandoff"), Op("clear")>>

\* The attempt up to `last` whose validation record names both bytes of the inbox.
StaleOwners(last) == {b \in 1 .. last : /\ "validation" \in disk[b].records
                                        /\ inbox.report = b /\ inbox.handoff = b}

Begin(name, todo, fs, print, owner, flag) ==
    /\ cmd = Idle
    /\ todo # <<>>
    /\ cmd' = [name |-> name, todo |-> todo, files |-> fs, print |-> print,
               owner |-> owner, flag |-> flag]
    /\ UNCHANGED <<task, repo, tree, inbox, intent, slot, launch, disk, faults, made, mine>>

(***************************************************************************)
(* dev-recover-infra: recoverInfraAttempt.                                 *)
(***************************************************************************)
\* A mutant: every dirty file is the worker's.
AllDirt == Dirty

\* Dirt the worker answers for: not there before the spawn, or rehydrated for it.
Attributable == Dirty \ (launch.foreign \ launch.rehydrated)

\* assertAttemptRecoveryHead: the base itself, one pending maintenance commit the
\* operator allows, or a base that adopted maintenance has moved.
HeadAdmits(allowPending) ==
    IF allowPending THEN repo.auth = Base /\ repo.head = Base + 1
    ELSE IF repo.auth = Base THEN repo.head = Base
    ELSE repo.head = repo.auth

\* Which writes the inbox asks for, before anything else and after the head guard.
InfraFinish == IF InboxFull THEN <<>> ELSE FinishRelease
InfraMigrate == IF InboxFull THEN <<Op("report"), Op("handoff")>> \o Release ELSE <<>>
InfraInboxOk == IF InboxFull THEN StaleOwners(Current - 1) # {}
                ELSE (InboxEmpty /\ intent = 0) \/ ReleaseProven

\* The launch tells whose the dirt is, or there is none to tell apart.
Attributed == Attributable = {} \/ launch.known \/ launch.rehydrated # {}

Infra(allowPending) ==
    /\ task.status \in {"FINALIZING", "INFRA_ERROR"}
    /\ launch.failed
    /\ InfraInboxOk
    /\ Begin("infra",
             IF slot # 0 \/ ~Attributed THEN InfraFinish
             ELSE InfraFinish \o Preserve(Attributable) \o Resets(Attributable)
                  \o <<Op("settled")>> \o InfraMigrate
                  \o <<Op("evidence"), Op("record"), Op("reopen")>>,
             Attributable, tree,
             IF InboxFull THEN CHOOSE b \in StaleOwners(Current - 1) : TRUE ELSE Current,
             allowPending)

(***************************************************************************)
(* dev-recover-protocol-output: recoverProtocolOutput.                     *)
(***************************************************************************)
AtBase == repo.head = Base /\ repo.auth = Base

ProtocolCleanup(fs) == <<Op("safe")>> \o Resets(fs) \o <<Op("settled")>>
                       \o Release \o <<Op("reopen")>>

ProtocolArchive == <<Op("report"), Op("handoff"), Op("copies")>>
                   \o Preserve(Dirty) \o <<Op("record")>>

\* A completion that says SUCCESS, names the protocol's own paths among its files
\* and leaves exactly the rest of them changed.
MalformedPair ==
    /\ InboxFull /\ inbox.report = inbox.handoff
    /\ made[inbox.report].kind = "MALFORMED"
    /\ Dirty # {} /\ Dirty = {f \in Files : made[inbox.report].left[f] # 0}

Protocol ==
    /\ task.status = "FINALIZING"
    /\ AtBase
    /\ \/ /\ "protocol" \in Archive.records
          /\ Begin("protocol", ProtocolCleanup(Archive.listed), Archive.listed,
                   Archive.print, Current, FALSE)
       \/ /\ Archive.records \cap {"protocol", "validation", "infra"} = {}
          /\ slot = 0
          /\ MalformedPair
          /\ Begin("protocol",
                   ProtocolArchive \o ProtocolCleanup(Dirty),
                   Dirty, tree, Current, FALSE)

(***************************************************************************)
(* recoverIncompleteWorkerOutput: no complete pair, but a patch; also a    *)
(* historical FAIL that a provider failure really was.                     *)
(***************************************************************************)
Historical == task.status = "FAIL"

\* loadHistoricalFailure and the comparison with its completion and binding.
HistoricalProven ==
    /\ slot = Current /\ launch.failed /\ InboxEmpty
    /\ Dirty = {} \/ tree = made[Current].left

\* archivePartialInbox before releasePartialInbox; a mutant swaps them.
PartialOps(archive) ==
    (IF inbox.report = 0 THEN <<>> ELSE <<Op(IF archive THEN "report" ELSE "rmReport")>>)
    \o (IF inbox.handoff = 0 THEN <<>> ELSE <<Op(IF archive THEN "handoff" ELSE "rmHandoff")>>)
PartialReleasedFirst == PartialOps(FALSE) \o PartialOps(TRUE)
PartialInbox == PartialOps(TRUE) \o PartialOps(FALSE)

IncompleteSource ==
    /\ Historical \/ slot = 0
    /\ Historical => HistoricalProven
    /\ Archive.records \cap {"validation", "infra", "protocol"} = {}
    /\ ~InboxFull
    /\ IF Dirty = {} THEN HasManifest(Current)
       ELSE HasManifest(Current) => Archive.print = tree /\ Archive.listed = Dirty

Incomplete ==
    /\ AtBase
    /\ \/ /\ task.status = "FINALIZING" \/ Historical
          /\ IncompleteSource
          /\ Begin("incomplete",
                   Preserve(Dirty) \o <<Op("evidence")>>
                   \o (IF Historical THEN <<Op("misfile")>> ELSE <<>>)
                   \o PartialInbox
                   \o Resets(Dirty) \o <<Op("settled"), Op("record"), Op("reopen")>>
                   \o (IF Historical THEN <<Op("dropSlot")>> ELSE <<>>),
                   Dirty, tree, Current, FALSE)
       \/ \* Repeated after the task was reopened: only the completion is left.
          /\ task.status = "READY" /\ "abandoned" \in Archive.records
          /\ Dirty = {} /\ Archive.misfiled /\ slot \in {0, Current}
          /\ Begin("incomplete", <<Op("dropSlot")>>, {}, NoPatch, Current, FALSE)

(***************************************************************************)
(* dev-retry: retryAbandonedAttempt.  With --allow-infra-output a complete *)
(* pair whose report says FAILURE stays in the inbox, named by the record. *)
(***************************************************************************)
FailureReported == InboxFull /\ made[inbox.report].kind = "FAILURE"

Retry(allowPending) ==
    /\ task.status = "FINALIZING"
    /\ Dirty = {}
    /\ IF allowPending THEN repo.auth = Base /\ repo.head = Base + 1 ELSE repo.head = Base
    /\ \/ InboxEmpty /\ Begin("retry", <<Op("record"), Op("reopen")>>, {}, NoPatch,
                              Current, allowPending)
       \/ /\ FailureReported
          /\ Begin("output", <<Op("record"), Op("reopen")>>, {}, NoPatch,
                   Current, allowPending)

(***************************************************************************)
(* The next launch: prepareNextTask and launchTask up to the spawn.        *)
(***************************************************************************)
Launch ==
    /\ task.status = "READY" /\ Current < MaxAttempts
    /\ Dirty = {} /\ repo.head = repo.auth
    /\ Recoverable(Current) => Base = repo.head
    /\ LET fs == IF Recoverable(Current) THEN Archive.listed ELSE {}
       IN  Begin("launch",
                 (IF fs = {} THEN <<>> ELSE <<Op("rehydrate")>>) \o <<Op("inbox"), Op("spawn")>>,
                 fs, NoPatch, Current, FALSE)

(***************************************************************************)
(* One write of the running command.                                       *)
(***************************************************************************)
Next1 == Head(cmd.todo)
Stop == cmd' = Idle
Advance == cmd' = IF Len(cmd.todo) = 1 THEN Idle ELSE [cmd EXCEPT !.todo = Tail(@)]

\* The bundle the infrastructure record names is the published one, whoever wrote it.
\* A mutant: only the one this execution preserved.
BundleOfThisRun == cmd.files # {}
BundleRecorded == HasManifest(Current)

\* The record a command publishes; a published one must be the one it would write.
RecordKind == CASE cmd.name = "infra" -> "infra"
                [] cmd.name = "protocol" -> "protocol"
                [] OTHER -> "abandoned"
\* A mutant: a published record is refused instead of concluded.
RecordAnew == RecordKind \notin Archive.records
RecordAgrees ==
    RecordKind \in Archive.records =>
        /\ Archive.head = repo.head
        /\ cmd.name = "infra" => Archive.recoverable = BundleRecorded
        /\ RecordKind = "abandoned" => Archive.output = (cmd.name = "output")

\* A mutant: a bundle that is already published is written over.
PatchOverwritten == TRUE

\* The bundle already published is of exactly this tree.
PatchAdmitted == /\ HasManifest(Current) => Archive.print = cmd.print
                 /\ Archive.patch \in {NoPatch, Only(tree, cmd.files)}

\* Bytes already published are never replaced by others (writeFileOnce), and a
\* check between two writes stops the command where it is.
Admitted ==
    LET o == Next1.op
        owned == disk[cmd.owner]
    IN  CASE o = "patch"    -> PatchAdmitted
          [] o = "manifest" -> Archive.listed \in {{}, cmd.files}
          [] o = "copies"   -> Archive.copies \in {NoPatch, Only(tree, cmd.files)}
          [] o = "report"   -> owned.report \in {0, inbox.report}
          [] o = "handoff"  -> owned.handoff \in {0, inbox.handoff}
          [] o = "intent"   -> /\ owned.report = cmd.owner /\ owned.handoff = cmd.owner
                               /\ inbox.report \in {0, cmd.owner}
                               /\ inbox.handoff \in {0, cmd.owner}
          [] o \in {"rmReport", "rmHandoff"} -> cmd.name = "incomplete" \/ ReleaseProven
          [] o = "safe"     -> \A f \in Dirty : f \in Archive.listed /\ tree[f] = Archive.copies[f]
          [] o = "settled"  -> Dirty = {} /\ IF cmd.name = "infra" THEN HeadAdmits(cmd.flag)
                                             ELSE repo.head = Base
          [] o = "record"   -> RecordAgrees
          [] OTHER          -> TRUE

\* The bundle and the copies of the files it covers.
Bundling ==
    /\ Next1.op \in {"patch", "manifest", "copies"}
    /\ disk' = [disk EXCEPT
         ![Current].patch = IF Next1.op = "patch" THEN Only(tree, cmd.files) ELSE @,
         ![Current].copies = IF Next1.op = "copies" THEN Only(tree, cmd.files) ELSE @,
         ![Current].listed = IF Next1.op = "manifest" THEN cmd.files ELSE @,
         ![Current].print = IF Next1.op = "manifest" THEN cmd.print ELSE @]
    /\ UNCHANGED <<task, repo, tree, inbox, intent, slot, launch>>

\* Logs, the misclassified completion and the worker's output, byte for byte.
Archiving ==
    /\ Next1.op \in {"report", "handoff", "evidence", "misfile"}
    /\ disk' = [disk EXCEPT
         ![Current].evidence = @ \/ Next1.op = "evidence",
         ![Current].misfiled = @ \/ Next1.op = "misfile",
         ![cmd.owner].report = IF Next1.op = "report" THEN inbox.report ELSE @,
         ![cmd.owner].handoff = IF Next1.op = "handoff" THEN inbox.handoff ELSE @]
    /\ UNCHANGED <<task, repo, tree, inbox, intent, slot, launch>>

Resetting ==
    /\ Next1.op = "reset"
    /\ tree' = [tree EXCEPT ![Next1.file] = 0]
    /\ UNCHANGED <<task, repo, inbox, intent, slot, launch, disk>>

Releasing ==
    /\ Next1.op \in {"intent", "rmReport", "rmHandoff", "clear"}
    /\ intent' = CASE Next1.op = "intent" -> cmd.owner [] Next1.op = "clear" -> 0 [] OTHER -> intent
    /\ inbox' = [report |-> IF Next1.op = "rmReport" THEN 0 ELSE inbox.report,
                 handoff |-> IF Next1.op = "rmHandoff" THEN 0 ELSE inbox.handoff]
    /\ UNCHANGED <<task, repo, tree, slot, launch, disk>>

DroppingCompletion ==
    /\ Next1.op = "dropSlot"
    /\ slot' = 0
    /\ UNCHANGED <<task, repo, tree, inbox, intent, launch, disk>>

Checking ==
    /\ Next1.op \in {"safe", "settled"}
    /\ UNCHANGED <<task, repo, tree, inbox, intent, slot, launch, disk>>

\* What each record says of the archive it closes besides its own existence.
WithInfraRecord(a) == [a EXCEPT !.records = @ \cup {"infra"}, !.recoverable = BundleRecorded]
WithProtocolRecord(a) == [a EXCEPT !.records = @ \cup {"protocol"}]
WithAbandonment(a) == [a EXCEPT !.records = @ \cup {"abandoned"}, !.output = cmd.name = "output"]

\* writeFileOnce: the record a finished command left before is this one already.
Recording ==
    /\ Next1.op = "record"
    /\ LET a == [Archive EXCEPT !.head = repo.head]
       IN disk' = [disk EXCEPT ![Current] =
             CASE RecordKind = "infra"    -> WithInfraRecord(a)
               [] RecordKind = "protocol" -> WithProtocolRecord(a)
               [] OTHER                   -> WithAbandonment(a)]
    /\ UNCHANGED <<task, repo, tree, inbox, intent, slot, launch>>

Reopening ==
    /\ Next1.op = "reopen"
    /\ task' = [task EXCEPT !.status = "READY"]
    /\ UNCHANGED <<repo, tree, inbox, intent, slot, launch, disk>>

Rehydrating ==
    /\ Next1.op = "rehydrate"
    /\ tree' = [f \in Files |-> IF f \in cmd.files THEN Archive.patch[f] ELSE tree[f]]
    /\ UNCHANGED <<task, repo, inbox, intent, slot, launch, disk>>

\* The attempt whose pair the inbox holds, with its archive complete.
ArchivedOwners == {b \in StaleOwners(MaxAttempts) : disk[b].report = b /\ disk[b].handoff = b}

\* A mutant: a pair nobody is proven to own does not stop a launch.
HalfPairRefused == ~InboxEmpty /\ ~InboxFull /\ ~ReleaseProven
InboxRefused == /\ intent # 0 \/ ~InboxEmpty
                /\ IF InboxFull THEN ArchivedOwners = {} ELSE ~ReleaseProven

\* releaseInboxForLaunch: empty, a release to finish, or a pair whose attempt owns
\* it and has it archived; anything else refuses the launch and undoes its patch.
LaunchInbox ==
    LET rest == Tail(cmd.todo)
    IN  /\ Next1.op = "inbox"
        /\ IF InboxRefused
           THEN cmd' = IF cmd.files = {} THEN Idle ELSE [cmd EXCEPT !.todo = Resets(cmd.files)]
           ELSE cmd' = [cmd EXCEPT !.todo = (IF ArchivedOwners # {} THEN Release ELSE FinishRelease) \o rest,
                                   !.owner = IF ArchivedOwners # {} THEN CHOOSE b \in ArchivedOwners : TRUE ELSE @]
        /\ UNCHANGED <<task, repo, tree, inbox, intent, slot, launch, disk>>

\* What the LaunchRecord says: what was dirty before, and what the harness put there.
LaunchObserved ==
    [failed |-> FALSE, known |-> TRUE, foreign |-> Dirty, rehydrated |-> cmd.files]

Spawning ==
    /\ Next1.op = "spawn"
    /\ task' = [status |-> "EXECUTING", attempt |-> Current + 1]
    /\ repo' = [repo EXCEPT !.base[Current + 1] = repo.head]
    /\ launch' = LaunchObserved
    /\ UNCHANGED <<tree, inbox, intent, slot, disk>>

Write ==
    /\ cmd # Idle
    /\ UNCHANGED <<faults, made, mine>>
    /\ IF ~Admitted
       THEN Stop /\ UNCHANGED <<task, repo, tree, inbox, intent, slot, launch, disk>>
       ELSE \/ /\ Bundling \/ Archiving \/ Resetting \/ Releasing
                  \/ DroppingCompletion \/ Checking \/ Recording
                  \/ Reopening \/ Rehydrating \/ Spawning
               /\ Advance
            \/ LaunchInbox

Crash ==
    /\ cmd # Idle /\ faults < MaxFaults
    /\ faults' = faults + 1
    /\ Stop
    /\ UNCHANGED <<task, repo, tree, inbox, intent, slot, launch, disk, made, mine>>

(***************************************************************************)
(* Outside the commands.                                                   *)
(***************************************************************************)
\* The worker of the current attempt: it edits files the person did not, writes
\* neither, one or both parts of its output, and the provider may fail under it.
WorkerEnds(fs, output, failed, kind) ==
    /\ task.status = "EXECUTING"
    /\ \A f \in fs : tree[f] # Foreign
    /\ (kind # "NONE") <=> (output = {"report", "handoff"})
    /\ LET after == [f \in Files |-> IF f \in fs THEN Current ELSE tree[f]]
       IN  /\ tree' = after
           /\ made' = [made EXCEPT ![Current] =
                [kind |-> kind, output |-> output,
                 left |-> [f \in Files |-> IF after[f] = Foreign THEN 0 ELSE after[f]]]]
    /\ inbox' = [report |-> IF "report" \in output THEN Current ELSE 0,
                 handoff |-> IF "handoff" \in output THEN Current ELSE 0]
    /\ launch' = [launch EXCEPT !.failed = failed]
    \* An older harness did not classify the failure: only the stdout proves it.
    /\ \E status \in {"FINALIZING", "INFRA_ERROR"} :
         /\ status = "INFRA_ERROR" => failed
         /\ status = "FINALIZING" => ~failed \/ ~launch.known
         /\ task' = [task EXCEPT !.status = status]
    /\ UNCHANGED <<repo, intent, slot, disk, cmd, faults, mine>>

\* A person edits a file while the launch measures its preconditions.
PersonEdits(f) ==
    /\ cmd # Idle /\ Next1.op = "spawn"
    /\ f \in Foreigners /\ tree[f] = 0
    /\ tree' = [tree EXCEPT ![f] = Foreign]
    /\ mine' = mine \cup {f}
    /\ UNCHANGED <<task, repo, inbox, intent, slot, launch, disk, cmd, faults, made>>

PersonCleans(f) ==
    /\ cmd = Idle /\ f \in mine /\ tree[f] = Foreign
    /\ tree' = [tree EXCEPT ![f] = 0]
    /\ mine' = mine \ {f}
    /\ UNCHANGED <<task, repo, inbox, intent, slot, launch, disk, cmd, faults, made>>

\* A maintenance commit on top of HEAD, and its adoption: refused on a dirty tree
\* and while a task is RUNNING.
Maintain ==
    /\ cmd = Idle /\ repo.head < MaxCommits
    /\ repo' = [repo EXCEPT !.head = @ + 1]
    /\ UNCHANGED <<task, tree, inbox, intent, slot, launch, disk, cmd, faults, made, mine>>

Adopt ==
    /\ cmd = Idle /\ repo.auth < repo.head
    /\ Dirty = {} /\ task.status \notin {"EXECUTING", "FINALIZING"}
    /\ repo' = [repo EXCEPT !.auth = repo.head]
    /\ UNCHANGED <<task, tree, inbox, intent, slot, launch, disk, cmd, faults, made, mine>>

(***************************************************************************)
(* The specification.  It starts with the first attempt running; with a    *)
(* second one, whose predecessor failed validation and whose output an     *)
(* older harness left in the inbox; or with a FAIL an older harness        *)
(* recorded for what was a provider failure.                               *)
(***************************************************************************)
Nothing == [kind |-> "NONE", output |-> {}, left |-> NoPatch]

Fresh == /\ task = [status |-> "EXECUTING", attempt |-> 1]
         /\ inbox = [report |-> 0, handoff |-> 0] /\ slot = 0 /\ tree = Clean
         /\ disk = [a \in Attempts |-> NoArchive]
         /\ made = [a \in Attempts |-> Nothing]
         /\ launch.failed = FALSE

Stale == /\ MaxAttempts >= 2
         /\ task \in [status : {"FINALIZING", "INFRA_ERROR"}, attempt : {2}]
         /\ inbox = [report |-> 1, handoff |-> 1] /\ slot = 0
         /\ launch.failed = TRUE
         /\ disk = [a \in Attempts |->
                      IF a = 1 THEN [NoArchive EXCEPT !.records = {"validation"}] ELSE NoArchive]
         /\ \E fs \in SUBSET Files :
              /\ tree = Only([f \in Files |-> 2], fs)
              /\ made = [a \in Attempts |->
                   IF a = 1 THEN [Nothing EXCEPT !.output = {"report", "handoff"}]
                   ELSE IF a = 2 THEN [Nothing EXCEPT !.left = tree] ELSE Nothing]

Misfiled == /\ task = [status |-> "FAIL", attempt |-> 1]
            /\ inbox = [report |-> 0, handoff |-> 0] /\ slot = 1
            /\ launch.failed = TRUE
            /\ disk = [a \in Attempts |-> NoArchive]
            /\ \E fs \in SUBSET Files \ {{}} :
                 /\ tree = Only([f \in Files |-> 1], fs)
                 /\ made = [a \in Attempts |->
                      IF a = 1 THEN [Nothing EXCEPT !.left = tree] ELSE Nothing]

Init ==
    /\ repo = [head |-> 0, auth |-> 0, base |-> [a \in Attempts |-> 0]]
    /\ launch \in [failed : BOOLEAN, known : BOOLEAN, foreign : {{}}, rehydrated : {{}}]
    /\ intent = 0 /\ cmd = Idle /\ faults = 0 /\ mine = {}
    /\ Fresh \/ Stale \/ Misfiled

Command == \/ \E b \in BOOLEAN : Infra(b)
           \/ Protocol
           \/ Incomplete
           \/ \E b \in BOOLEAN : Retry(b)
           \/ Launch

Next == \/ Command
        \/ Write
        \/ Crash
        \/ \E fs \in SUBSET Files, output \in SUBSET {"report", "handoff"},
              failed \in BOOLEAN, kind \in OutputKinds : WorkerEnds(fs, output, failed, kind)
        \/ \E f \in Files : PersonEdits(f) \/ PersonCleans(f)
        \/ Maintain
        \/ Adopt

Spec == Init /\ [][Next]_vars

\* The command whose record is published, with the option HEAD asks for.
Resume == \/ "infra" \in Archive.records /\ \E b \in BOOLEAN : HeadAdmits(b) /\ Infra(b)
          \/ "protocol" \in Archive.records /\ Protocol
          \/ "abandoned" \in Archive.records /\ (Incomplete \/ \E b \in BOOLEAN : Retry(b))

\* An operator who repeats the recovery that did not end, and a process that goes on
\* until it ends or dies.
Repeating == WF_vars(Write) /\ SF_vars(Resume)

LiveSpec == Spec /\ Repeating

(***************************************************************************)
(* Properties.                                                             *)
(***************************************************************************)
\* What the worker of an attempt left in a file is still in the tree or in the
\* attempt's bundle, patch and manifest both, however the recovery was interrupted.
WorkKept ==
    \A a \in 1 .. Current : \A f \in Files :
        made[a].left[f] # 0 /\ (a = Current => task.status # "EXECUTING") =>
            \/ a = Current /\ tree[f] = made[a].left[f]
            \/ disk[a].patch[f] = made[a].left[f] /\ f \in disk[a].listed

\* Every byte a worker reported is in the inbox or in the archive of its attempt:
\* no release runs ahead of the archive.
OutputKept ==
    \A a \in 1 .. Current :
        /\ "report" \in made[a].output => inbox.report = a \/ disk[a].report = a
        /\ "handoff" \in made[a].output => inbox.handoff = a \/ disk[a].handoff = a

\* The worker that follows a provider failure starts from all the work the failed
\* attempt left, whether its record was written in one run or in several.
WorkContinued ==
    task.status = "EXECUTING" /\ Current > 1 /\ "infra" \in disk[Current - 1].records =>
        \A f \in Files : made[Current - 1].left[f] # 0 => tree[f] = made[Current - 1].left[f]

\* What a person edited before the spawn is never taken for the worker's: the
\* infrastructure recovery publishes none of it in its bundle, and no command but the
\* incomplete-output recovery, which does not look at the baseline, takes it away.
NothingForeignRecovered ==
    \A a \in Attempts : "infra" \in disk[a].records =>
        \A f \in disk[a].listed : disk[a].patch[f] # Foreign
PersonsFilesKept ==
    [][\A f \in mine \cap mine' : tree'[f] # tree[f] => cmd.name = "incomplete"]_vars

\* A worker starts with nothing of an earlier attempt where its output goes, and a
\* completion that is still in the slot then is at least archived.
CleanStart == task.status = "EXECUTING" =>
    InboxEmpty /\ intent = 0 /\ (slot # 0 => disk[slot].misfiled)

\* A published record is concluded by repeating the command, as long as HEAD stays.
Recorded == task.status \notin {"READY", "EXECUTING"} /\ Archive.records # {}
RecordedConcludes == Recorded ~> (~Recorded \/ repo.head # Archive.head)

=============================================================================
