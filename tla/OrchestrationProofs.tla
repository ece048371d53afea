-------------------------- MODULE OrchestrationProofs --------------------------
(***************************************************************************)
(* Proofs about the orchestration loop: its history can be read, repairs   *)
(* are bounded, grants are spent once, a review that was asked for is      *)
(* given, and work that passes is kept; for every plan, policy and number  *)
(* of attempts, faults and invocations.                                    *)
(***************************************************************************)
EXTENDS Orchestration, FiniteSetTheorems, WellFoundedInduction, TLAPS

--------------------------------------------------------------------------------
(* What the state is made of.                                              *)

Statuses == {"READY", "RUNNING", "PASS", "FAIL", "TIMED_OUT", "INFRA_ERROR"}
Phases   == {"none", "working", "finalizing", "candidate"}
Kinds    == {"validation", "review", "operational", "abandoned"}
Runs     == [profile : Profiles, closed : SUBSET Kinds]

TaskRecords ==
  [status : Statuses, phase : Phases, output : OutputKinds \cup {"none"},
   official : BOOLEAN, owed : BOOLEAN, verdict : Verdicts \cup {NoVerdict},
   runs : Seq(Runs)]

RunFields ==
  {"at", "plane", "routine", "skip", "profile", "limit", "cycle", "again", "subject",
   "pin", "second", "by", "close", "retries", "relaunch", "relaunched", "stop",
   "needs", "escalated", "prior", "refused"}

\* Of the memory of an invocation only what ends in the state has a type.
RunTypes ==
  /\ DOMAIN run = RunFields
  /\ run.by \in Profiles /\ run.profile \in Profiles
  /\ run.pin \in Profiles \cup {NoProfile}
  /\ run.escalated \in [Tasks -> Profiles \cup {NoProfile}]
  /\ run.needs \in [Tasks -> BOOLEAN]

Types ==
  /\ task \in [Tasks -> TaskRecords]
  /\ grants \in [Tasks -> Seq(Nat)]
  /\ asked \in [Tasks -> BOOLEAN]
  /\ gates \in [Tasks -> Nat]
  /\ torn = [t \in Tasks |-> torn[t]]
  /\ died \in BOOLEAN /\ faults \in Nat
  /\ RunTypes

--------------------------------------------------------------------------------
(* The inductive invariant.                                                *)

\* The record an archival of an attempt in this state may have written when it died.
Archivable(v, kind) ==
  \/ kind = "validation" /\ v.status = "FAIL" /\ v.official
  \/ kind = "review" /\ v.phase = "candidate" /\ v.verdict = "DEFECT"
  \/ kind = "operational"
       /\ \/ v.status = "INFRA_ERROR"
          \/ v.phase = "finalizing" /\ v.output \in {"malformed", "outage"}
  \/ kind = "abandoned"
       /\ \/ v.status = "FAIL" /\ ~v.official
          \/ v.phase = "finalizing" /\ v.output \in {"absent", "gaveUp", "outage"}

OneRecord(t, a) == \E k \in Kinds : Closed(t, a) = {k}

\* A task and its attempts: what is behind an attempt has one record each. Its own
\* records are those of archivals that died before they reopened its task, and the
\* only two that can meet are the two ways to give up an attempt whose provider failed.
TaskHolds(t) ==
  /\ \A a \in 1 .. Attempts(t) - 1 : OneRecord(t, a)
  /\ Status(t) = "READY" /\ Attempts(t) >= 1 =>
       \/ OneRecord(t, Attempts(t))
       \/ Closed(t, Attempts(t)) = {"abandoned", "operational"} /\ torn[t] # {}
  /\ Status(t) # "READY" =>
       /\ Attempts(t) >= 1
       /\ \A k \in Closed(t, Attempts(t)) : Archivable(task[t], k)
       /\ Closed(t, Attempts(t)) = {} \/ torn[t] # {}
  /\ task[t].phase # "none" <=> Status(t) = "RUNNING"
  /\ Status(t) = "READY" \/ task[t].phase = "working" => task[t].output = "none"

\* The capability failures of runs 1 .. n since the last abandonment, and of
\* grants the receipts of attempts that have happened and of the one to come.
FailuresOf(runs, n) ==
  {a \in 1 .. n : /\ runs[a].closed \cap Capability # {}
                  /\ \A b \in a .. n : Cardinality(runs[b].closed) = 1
                                       /\ runs[b].closed # {"abandoned"}}
Rejected(runs, n) == \E a \in FailuresOf(runs, n) : "review" \in runs[a].closed
Spent(receipts, n) == {g \in DOMAIN receipts : receipts[g] # 0 /\ receipts[g] <= n}
Waits(receipts, n) == \E g \in DOMAIN receipts : receipts[g] = n + 1

Count(t, n) == Cardinality(FailuresOf(task[t].runs, n))
Room(t) == gates[t] + Cardinality(Spent(grants[t], Attempts(t)))

\* One more failure of the task would still be within its bound.
MayLaunch(t) == Count(t, Attempts(t)) <= 1 + Room(t) \/ Waits(grants[t], Attempts(t))

\* The policy reads the history of the task to its end.
Readable(t) == \A a \in 1 .. Attempts(t) : OneRecord(t, a)

\* An attempt in progress may fail; a READY task may be out of repairs only
\* when a reviewer rejected it, which the policy sees.
BudgetHolds(t) ==
  IF Status(t) = "READY"
    THEN /\ Count(t, Attempts(t)) <= 2 + Room(t)
         /\ Rejected(task[t].runs, Attempts(t)) \/ MayLaunch(t)
    ELSE Count(t, Attempts(t) - 1) <= 1 + Room(t)

\* At most one grant is not spent, and every receipt is of another attempt.
GrantsHold(t) ==
  /\ \A g, h \in UnusedGrants(t) : g = h
  /\ \A g, h \in DOMAIN grants[t] :
       grants[t][g] = grants[t][h] /\ grants[t][g] # 0 => g = h

\* No archival has written a record of the last attempt.
Unrecorded(t) == Closed(t, Attempts(t)) = {}

\* What each step of an invocation may rely on: the attempt it has in hand is its own
\* unless it resumes what an earlier process left.
ControlHolds ==
  /\ run.at \in {"before", "launch", "wait", "close", "review", "resumed", "settle",
                 "after", "closed", "repair", "exhausted"} => run.subject \in Tasks
  /\ run.at = "reconcile" => PendingCandidates # {}
  /\ run.at = "finalize" => PendingClose # {}
  /\ run.at = "failed" => InState({"FAIL"}) # {}
  /\ run.at = "wait" =>
       Status(run.subject) = "RUNNING" /\ task[run.subject].phase = "working"
  /\ run.at = "close" =>
       Status(run.subject) = "RUNNING" /\ task[run.subject].phase \in {"finalizing", "candidate"}
  /\ run.at = "review" =>
       Status(run.subject) = "RUNNING" /\ task[run.subject].phase = "candidate"
  /\ run.at \in {"before", "launch"} /\ Status(run.subject) = "READY" =>
       MayLaunch(run.subject) /\ Readable(run.subject)
  /\ run.at \in {"wait", "settle"} \/ (run.at \in {"close", "review"} /\ run.relaunch # "resume") =>
       Unrecorded(run.subject)

\* As long as nothing died, an attempt that asked for a review is in the hands
\* of the process that remembers it until its candidate is prepared.
ReviewHolds ==
  ~died =>
    \A t \in Tasks : asked[t] =>
      /\ Status(t) = "PASS" => task[t].verdict = "ACCEPT"
      /\ task[t].phase = "working" => At("wait") /\ run.subject = t /\ run.needs[t]
      /\ task[t].phase = "finalizing" /\ task[t].output = "passes" =>
           At("close") /\ run.subject = t /\ run.needs[t]

OrchestrationInv ==
  /\ Types
  /\ \A t \in Tasks : TaskHolds(t) /\ BudgetHolds(t) /\ GrantsHold(t)
  /\ ControlHolds
  /\ ReviewHolds

--------------------------------------------------------------------------------
(* Least and greatest members.                                             *)

\* A nonempty set of naturals has a least member, which Min chooses.
LEMMA MinOf ==
  ASSUME NEW S \in SUBSET Nat, S # {}
  PROVE  Min(S) \in S /\ \A d \in S : Min(S) <= d
<1>1. PICK c \in S : \A d \in S : ~(<<d, c>> \in OpToRel(<, Nat))
  BY NatLessThanWellFounded, WFMin
<1>2. ASSUME NEW d \in S PROVE c <= d
  <2>1. ~(d < c)
    BY <1>1 DEF OpToRel
  <2> QED
    BY <2>1
<1> QED
  BY <1>2 DEF Min

\* A nonempty set below a bound has a greatest member, which Max chooses.
LEMMA MaxOf ==
  ASSUME NEW n \in Nat, NEW S \in SUBSET (0 .. n), S # {}
  PROVE  Max(S) \in S /\ \A d \in S : d <= Max(S)
<1> DEFINE T == {n - d : d \in S}
<1>1. T \in SUBSET Nat /\ T # {}
  <2>1. \A d \in S : n - d \in Nat
    OBVIOUS
  <2>2. PICK c \in S : TRUE
    OBVIOUS
  <2>3. n - c \in T
    OBVIOUS
  <2> QED
    BY <2>1, <2>3
<1>2. PICK c \in S : \A d \in S : n - c <= n - d
  <2>1. Min(T) \in T /\ \A e \in T : Min(T) <= e
    BY <1>1, MinOf
  <2> QED
    BY <2>1
<1>3. \A d \in S : c >= d
  BY <1>2
<1> QED
  BY <1>3 DEF Max

\* Tasks are counted from one.
LEMMA MinTask ==
  ASSUME NEW S \in SUBSET Tasks, S # {}
  PROVE  Min(S) \in S
  BY MinOf DEF Tasks

--------------------------------------------------------------------------------
(* What the operators of the policy read.                                  *)

\* The typed parts of a task, one by one.
LEMMA TaskParts ==
  ASSUME Types, NEW t \in Tasks
  PROVE  /\ Status(t) \in Statuses /\ task[t].phase \in Phases
         /\ task[t].output \in OutputKinds \cup {"none"}
         /\ task[t].verdict \in Verdicts \cup {NoVerdict}
         /\ task[t].official \in BOOLEAN
         /\ task[t].runs \in Seq(Runs) /\ Attempts(t) \in Nat
         /\ \A a \in 1 .. Attempts(t) : Closed(t, a) \in SUBSET Kinds /\ RanBy(t, a) \in Profiles
<1>1. task[t] \in TaskRecords
  BY DEF Types
<1>2. task[t].runs \in Seq(Runs) /\ Attempts(t) \in Nat
  BY <1>1 DEF TaskRecords, Attempts
<1>3. \A a \in 1 .. Attempts(t) : task[t].runs[a] \in Runs
  BY <1>2 DEF Attempts
<1> QED
  BY <1>1, <1>2, <1>3 DEF TaskRecords, Status, Closed, RanBy, Runs

\* The walk stops at the last attempt that stops it, or nowhere.
LEMMA LastStopIs ==
  ASSUME Types, NEW t \in Tasks, NEW n \in 0 .. Attempts(t)
  PROVE  /\ LastStop(t, n) \in 0 .. n
         /\ LastStop(t, n) # 0 => StopsWalk(t, LastStop(t, n))
         /\ \A a \in 1 .. n : StopsWalk(t, a) => a <= LastStop(t, n)
<1> DEFINE S == {a \in 1 .. n : StopsWalk(t, a)} \cup {0}
<1>1. n \in Nat
  BY TaskParts
<1>2. S \in SUBSET (0 .. n) /\ S # {}
  BY <1>1
<1>3. Max(S) \in S /\ \A a \in S : a <= Max(S)
  BY <1>1, <1>2, MaxOf
<1>4. LastStop(t, n) = Max(S)
  BY DEF LastStop
<1> HIDE DEF S
<1>5. LastStop(t, n) \in S /\ \A a \in S : a <= LastStop(t, n)
  BY <1>3, <1>4
<1> QED
  BY <1>1, <1>2, <1>5 DEF S

\* The failures the walk connects are those of the attempts after its stop.
LEMMA FailuresAre ==
  ASSUME Types, NEW t \in Tasks, NEW n \in 0 .. Attempts(t)
  PROVE  Failures(t, n) = FailuresOf(task[t].runs, n)
<1>1. n \in Nat /\ LastStop(t, n) \in 0 .. n
  BY LastStopIs, TaskParts
<1>2. ASSUME NEW a \in 1 .. n
      PROVE  a > LastStop(t, n) <=> \A b \in a .. n : ~StopsWalk(t, b)
  BY <1>1, LastStopIs
<1>3. ASSUME NEW a
      PROVE  a \in Failures(t, n) <=> a \in FailuresOf(task[t].runs, n)
  <2>1. a \in Failures(t, n) <=>
          a \in 1 .. n /\ a > LastStop(t, n) /\ Closed(t, a) \cap Capability # {}
    BY <1>1 DEF Failures
  <2>2. a \in FailuresOf(task[t].runs, n) <=>
          /\ a \in 1 .. n /\ Closed(t, a) \cap Capability # {}
          /\ \A b \in a .. n : ~StopsWalk(t, b)
    BY DEF FailuresOf, StopsWalk, Closed
  <2> QED
    BY <1>2, <2>1, <2>2
<1> QED
  BY <1>3

\* The counted sets are finite and their sizes are naturals.
LEMMA FailuresFinite ==
  ASSUME NEW runs, NEW n \in Int
  PROVE  IsFiniteSet(FailuresOf(runs, n)) /\ Cardinality(FailuresOf(runs, n)) \in Nat
<1>1. FailuresOf(runs, n) \in SUBSET (1 .. n) /\ IsFiniteSet(1 .. n)
  BY FS_Interval DEF FailuresOf
<1>2. IsFiniteSet(FailuresOf(runs, n))
  BY <1>1, FS_Subset
<1> QED
  BY <1>2, FS_CardinalityType

LEMMA SpentFinite ==
  ASSUME NEW receipts \in Seq(Nat), NEW n \in Int
  PROVE  IsFiniteSet(Spent(receipts, n)) /\ Cardinality(Spent(receipts, n)) \in Nat
<1>1. Spent(receipts, n) \in SUBSET (1 .. Len(receipts)) /\ Len(receipts) \in Int
  BY DEF Spent
<1>2. IsFiniteSet(1 .. Len(receipts))
  BY <1>1, FS_Interval
<1>3. IsFiniteSet(Spent(receipts, n))
  BY <1>1, <1>2, FS_Subset
<1> QED
  BY <1>3, FS_CardinalityType

\* A history in which every attempt has one record is read to its end.
LEMMA WalkOk ==
  ASSUME Types, NEW t \in Tasks, NEW n \in 0 .. Attempts(t),
         \A a \in 1 .. n : \E k \in Kinds : Closed(t, a) = {k}
  PROVE  WalkStatus(t, n) = "ok"
<1>1. LastStop(t, n) \in 0 .. n /\ (LastStop(t, n) # 0 => StopsWalk(t, LastStop(t, n)))
  BY LastStopIs
<1>2. CASE LastStop(t, n) = 0
  BY <1>2 DEF WalkStatus
<1>3. CASE LastStop(t, n) # 0
  <2>1. PICK k \in Kinds : Closed(t, LastStop(t, n)) = {k}
    BY <1>1, <1>3, TaskParts
  <2>2. Cardinality({k}) = 1
    BY FS_Singleton
  <2> QED
    BY <1>1, <1>3, <2>1, <2>2 DEF StopsWalk, WalkStatus
<1> QED
  BY <1>2, <1>3

\* An attempt without a record, or with two, stops whoever reads up to it.
LEMMA WalkStops ==
  ASSUME Types, NEW t \in Tasks, Attempts(t) >= 1, Cardinality(Closed(t, Attempts(t))) # 1
  PROVE  WalkStatus(t, Attempts(t)) # "ok"
<1>1. StopsWalk(t, Attempts(t)) /\ Closed(t, Attempts(t)) # {"abandoned"}
  BY FS_Singleton DEF StopsWalk
<1>2. Attempts(t) \in Nat
  BY TaskParts
<1>3. LastStop(t, Attempts(t)) = Attempts(t)
  BY <1>1, <1>2, LastStopIs
<1>4. Closed(t, LastStop(t, Attempts(t))) # {"abandoned"} /\ LastStop(t, Attempts(t)) # 0
  BY <1>1, <1>2, <1>3
<1> QED
  BY <1>4 DEF WalkStatus

\* A pair of records is not one.
LEMMA PairIs ==
  Cardinality({"abandoned", "operational"}) # 1
<1>1. IsFiniteSet({"abandoned"}) /\ Cardinality({"abandoned"}) = 1
  BY FS_Singleton
<1>2. Cardinality({"abandoned"} \cup {"operational"}) = 2
  BY <1>1, FS_AddElement
<1>3. {"abandoned"} \cup {"operational"} = {"abandoned", "operational"}
  OBVIOUS
<1> QED
  BY <1>2, <1>3

--------------------------------------------------------------------------------
(* decideAutomaticRepair over a history that can be read.                  *)

Actions == {"NOT_APPLICABLE", "REPAIR_EXHAUSTED", "BLOCKED", "REPAIR_ALLOWED"}

\* A repair the policy allows on its own is the first of the task's failures.
FirstRepair(t, d) ==
  /\ d.profile \in Profiles /\ d.granted = FALSE
  /\ \/ Status(t) = "READY" /\ Count(t, Attempts(t)) <= 1 /\ d.archival = FALSE
     \/ FailedSourceLoads(t) /\ Count(t, Attempts(t) - 1) = 0 /\ d.archival = TRUE

\* A READY task that two commands have given up is blocked. Of any other the policy
\* says nothing if it has nothing to repair, and of two failures if none of them is
\* a reviewer's rejection.
LEMMA ReadyDecided ==
  ASSUME Types, NEW t \in Tasks, TaskHolds(t), Status(t) = "READY"
  PROVE  /\ DecideCore(t).action \in Actions
         /\ DecideCore(t).action = "BLOCKED" \/ Readable(t)
         /\ DecideCore(t).action = "REPAIR_ALLOWED" => FirstRepair(t, DecideCore(t))
         /\ DecideCore(t).action = "REPAIR_EXHAUSTED" => Failures(t, Attempts(t)) # {}
         /\ DecideCore(t).action = "NOT_APPLICABLE" =>
              Count(t, Attempts(t)) = 0 \/ ~Rejected(task[t].runs, Attempts(t))
<1> DEFINE n == Attempts(t)
           F == FailuresOf(task[t].runs, n)
           rejected == \E a \in F : "review" \in Closed(t, a)
<1>1. n \in Nat /\ n \in 0 .. Attempts(t)
  BY TaskParts
<1>2. Failures(t, n) = F
  BY <1>1, FailuresAre
<1>a. CASE ~Readable(t)
  <2>1. n >= 1 /\ Closed(t, n) = {"abandoned", "operational"}
    <3>1. \A a \in 1 .. n : a = n \/ a \in 1 .. n - 1
      BY <1>1
    <3>2. n >= 1 /\ ~OneRecord(t, n)
      BY <1>1, <1>a, <3>1 DEF TaskHolds, Readable
    <3> QED
      BY <3>2 DEF TaskHolds
  <2>2. WalkStatus(t, n) # "ok"
    BY <2>1, PairIs, WalkStops
  <2>3. DecideCore(t) = Blocked(WalkStatus(t, n))
    BY <2>2 DEF DecideCore, FromReady
  <2> QED
    BY <2>3 DEF Blocked, Actions
<1>b. SUFFICES ASSUME Readable(t)
               PROVE  /\ DecideCore(t).action \in Actions
                      /\ DecideCore(t).action = "REPAIR_ALLOWED" => FirstRepair(t, DecideCore(t))
                      /\ DecideCore(t).action = "REPAIR_EXHAUSTED" => Failures(t, Attempts(t)) # {}
                      /\ DecideCore(t).action = "NOT_APPLICABLE" =>
                           Count(t, Attempts(t)) = 0 \/ ~Rejected(task[t].runs, Attempts(t))
  BY <1>a
<1>3. WalkStatus(t, n) = "ok"
  BY <1>1, <1>b, WalkOk DEF Readable, OneRecord
<1>4. /\ IsFiniteSet(F) /\ Cardinality(F) \in Nat /\ Count(t, n) = Cardinality(F)
      /\ F \in SUBSET Nat /\ F \in SUBSET (1 .. Attempts(t))
  <2>1. IsFiniteSet(F) /\ Cardinality(F) \in Nat
    BY <1>1, FailuresFinite
  <2>2. F \in SUBSET (1 .. Attempts(t))
    BY DEF FailuresOf
  <2> QED
    BY <1>1, <2>1, <2>2 DEF Count
<1>5. rejected <=> Rejected(task[t].runs, n)
  BY DEF Rejected, Closed
<1>6. DecideCore(t) = IF Cardinality(F) >= 2
                        THEN IF rejected THEN Exhausted ELSE NotApplicable
                        ELSE FromFailures(t, F, FALSE)
  BY <1>2, <1>3 DEF DecideCore, FromReady
<1> HIDE DEF F
<1>7. CASE Cardinality(F) >= 2
  <2>1. F # {}
    BY <1>7, FS_EmptySet
  <2> QED
    BY <1>2, <1>3, <1>5, <1>6, <1>7, <2>1 DEF Exhausted, NotApplicable, Actions
<1>8. CASE Cardinality(F) < 2 /\ F = {}
  <2>1. DecideCore(t) = NotApplicable /\ Cardinality(F) = 0
    BY <1>4, <1>6, <1>8, FS_EmptySet DEF FromFailures
  <2> QED
    BY <1>3, <1>4, <2>1 DEF NotApplicable, Actions
<1>9. CASE Cardinality(F) < 2 /\ F # {}
  <2>1. DecideCore(t) = Allowed(t, Min(F), FALSE)
    <3>1. ~(Cardinality(F) >= 2)
      BY <1>4, <1>9
    <3>2. DecideCore(t) = FromFailures(t, F, FALSE)
      BY <1>6, <3>1
    <3> QED
      BY <1>9, <3>1, <3>2 DEF FromFailures
  <2>3. Min(F) \in F
    BY <1>4, <1>9, MinOf
  <2>4. RanBy(t, Min(F)) \in Profiles
    BY <1>4, <2>3, TaskParts
  <2>5. FirstRepair(t, DecideCore(t)) /\ DecideCore(t).action = "REPAIR_ALLOWED"
    BY <1>4, <1>9, <2>1, <2>4 DEF Allowed, FirstRepair
  <2> QED
    BY <1>3, <2>5 DEF Actions
<1> QED
  BY <1>4, <1>7, <1>8, <1>9

\* Of a FAIL the policy allows the repair of the first; one that is not in the
\* records yet is a gap to whoever reads up to it.
LEMMA FailDecided ==
  ASSUME Types, NEW t \in Tasks, TaskHolds(t), Status(t) = "FAIL"
  PROVE  /\ DecideCore(t).action \in Actions
         /\ DecideCore(t).action = "REPAIR_ALLOWED" => FirstRepair(t, DecideCore(t))
         /\ DecideCore(t).action = "REPAIR_EXHAUSTED" /\ WalkStatus(t, Attempts(t)) = "ok" =>
              Failures(t, Attempts(t)) # {} /\ FailedSourceLoads(t)
<1> DEFINE n == Attempts(t)
           m == n - 1
           now == Closed(t, n) \ {"review"}
           F == FailuresOf(task[t].runs, m)
<1>1. /\ n \in Nat /\ n >= 1
      /\ \/ Closed(t, n) = {}
         \/ Closed(t, n) = {"validation"} /\ FailedSourceLoads(t)
         \/ Closed(t, n) = {"abandoned"} /\ ~task[t].official
  <2>1. n \in Nat /\ n >= 1 /\ \A k \in Closed(t, n) : Archivable(task[t], k)
    BY TaskParts DEF TaskHolds
  <2>2. task[t].phase = "none" /\ task[t].status = "FAIL"
    BY TaskParts DEF TaskHolds, Status
  <2>3. \A k \in Closed(t, n) : \/ k = "validation" /\ task[t].official
                                \/ k = "abandoned" /\ ~task[t].official
    BY <2>1, <2>2 DEF Archivable
  <2>4. CASE task[t].official
    BY <2>1, <2>3, <2>4 DEF FailedSourceLoads
  <2>5. CASE ~task[t].official
    BY <2>1, <2>3, <2>5
  <2> QED
    BY <2>4, <2>5
<1>2. m \in 0 .. Attempts(t) /\ m \in Nat
  BY <1>1
<1>3. /\ Failures(t, m) = F /\ IsFiniteSet(F) /\ Cardinality(F) \in Nat
      /\ Count(t, m) = Cardinality(F) /\ F \in SUBSET (1 .. m)
  <2>1. IsFiniteSet(F) /\ Cardinality(F) \in Nat
    BY <1>2, FailuresFinite
  <2>2. F \in SUBSET (1 .. m)
    BY DEF FailuresOf
  <2> QED
    BY <1>2, <2>1, <2>2, FailuresAre DEF Count
<1>4. WalkStatus(t, m) = "ok"
  <2>1. \A a \in 1 .. m : \E k \in Kinds : Closed(t, a) = {k}
    BY DEF TaskHolds, OneRecord
  <2> QED
    BY <1>2, <2>1, WalkOk
<1>5. RanBy(t, n) \in Profiles
  BY <1>1, TaskParts
<1>6. DecideCore(t) = FromFail(t)
  BY <1>1 DEF DecideCore
<1> HIDE DEF F
<1>7. CASE Closed(t, n) = {}
  <2>1. WalkStatus(t, n) # "ok"
    <3>1. Cardinality(Closed(t, n)) # 1
      BY <1>7, FS_EmptySet
    <3> QED
      BY <1>1, <3>1, WalkStops
  <2>2. DecideCore(t) = FromUnarchivedFail(t)
    <3>1. now = {} /\ Cardinality(now) = 0
      BY <1>7, FS_EmptySet
    <3> QED
      BY <1>6, <3>1 DEF FromFail
  <2>3. CASE ~task[t].official
    BY <2>1, <2>2, <2>3 DEF FromUnarchivedFail, NotApplicable, Actions
  <2>4. CASE task[t].official /\ F # {}
    <3>1. DecideCore(t) = Exhausted
      BY <1>3, <1>4, <2>2, <2>4 DEF FromUnarchivedFail
    <3> QED
      BY <2>1, <3>1 DEF Exhausted, Actions
  <2>5. CASE task[t].official /\ F = {}
    <3>1. DecideCore(t) = Allowed(t, n, TRUE)
      BY <1>3, <1>4, <2>2, <2>5 DEF FromUnarchivedFail
    <3>2. Cardinality(F) = 0
      BY <2>5, FS_EmptySet
    <3>3. FirstRepair(t, DecideCore(t)) /\ DecideCore(t).action = "REPAIR_ALLOWED"
      BY <1>3, <1>5, <2>5, <3>1, <3>2 DEF Allowed, FirstRepair, FailedSourceLoads
    <3> QED
      BY <2>1, <3>3 DEF Actions
  <2> QED
    BY <2>3, <2>4, <2>5
<1>8. CASE Closed(t, n) = {"validation"} /\ FailedSourceLoads(t)
  <2> DEFINE G == F \cup {n}
  <2>1. Closed(t, n) = {"validation"} /\ FailedSourceLoads(t)
    BY <1>8
  <2>2. n \in Failures(t, n)
    <3>2. FailuresOf(task[t].runs, n) = Failures(t, n)
      BY <1>1, FailuresAre
    <3>3. \A b \in n .. n : b = n
      BY <1>1
    <3>4. /\ task[t].runs[n].closed = {"validation"}
          /\ task[t].runs[n].closed \cap Capability # {}
          /\ Cardinality(task[t].runs[n].closed) = 1
      BY <2>1, FS_Singleton DEF Closed, Capability
    <3>5. n \in FailuresOf(task[t].runs, n)
      <4>1. task[t].runs[n].closed # {"abandoned"} /\ n \in 1 .. n
        BY <1>1, <3>4
      <4>2. \A b \in n .. n : /\ Cardinality(task[t].runs[b].closed) = 1
                              /\ task[t].runs[b].closed # {"abandoned"}
        BY <3>3, <3>4, <4>1
      <4> QED
        BY <3>4, <4>1, <4>2 DEF FailuresOf
    <3> QED
      BY <3>2, <3>5
  <2>3. DecideCore(t) = FromFailures(t, G, TRUE)
    <3>1. now = {"validation"} /\ Cardinality(now) = 1
      BY <2>1, FS_Singleton
    <3>2. now \cap {"abandoned", "operational"} = {} /\ now # {} /\ ~(Cardinality(now) > 1)
      BY <3>1
    <3> QED
      BY <1>3, <1>4, <1>6, <3>2 DEF FromFail
  <2>4. IsFiniteSet(G) /\ Cardinality(G) = Cardinality(F) + 1
    <3>1. n \notin F
      BY <1>1, <1>3
    <3> QED
      BY <1>3, <3>1, FS_AddElement
  <2>7. G \in SUBSET Nat /\ G \in SUBSET (1 .. Attempts(t)) /\ G # {}
    <3>1. \A a \in G : a \in 1 .. Attempts(t)
      BY <1>1, <1>3
    <3> QED
      BY <3>1
  <2> HIDE DEF G
  <2>5. CASE Cardinality(G) >= 2
    BY <2>1, <2>2, <2>3, <2>5 DEF FromFailures, Exhausted, Actions
  <2>6. CASE Cardinality(G) < 2
    <3>1. Cardinality(F) = 0
      BY <1>3, <2>4, <2>6
    <3>2. DecideCore(t) = Allowed(t, Min(G), TRUE)
      <4>1. ~(Cardinality(G) >= 2)
        BY <1>3, <2>4, <2>6
      <4> QED
        BY <2>3, <2>7, <4>1 DEF FromFailures

    <3>4. RanBy(t, Min(G)) \in Profiles
      <4>1. Min(G) \in G
        BY <2>7, MinOf
      <4> QED
        BY <2>7, <4>1, TaskParts
    <3>5. FirstRepair(t, DecideCore(t)) /\ DecideCore(t).action = "REPAIR_ALLOWED"
      BY <1>3, <2>1, <3>1, <3>2, <3>4 DEF Allowed, FirstRepair
    <3> QED
      BY <2>1, <2>2, <3>5 DEF Actions
  <2> QED
    BY <1>3, <2>4, <2>5, <2>6
<1>9. CASE Closed(t, n) = {"abandoned"}
  <2>1. now = {"abandoned"} /\ Cardinality(now) = 1
    BY <1>9, FS_Singleton
  <2>2. now \cap {"abandoned", "operational"} # {} /\ ~(Cardinality(now) > 1)
    BY <2>1
  <2>3. DecideCore(t) = NotApplicable
    BY <1>6, <2>2 DEF FromFail
  <2> QED
    BY <2>3 DEF NotApplicable, Actions
<1> QED
  BY <1>1, <1>7, <1>8, <1>9

\* What the decision says once the grants are looked at. "Granted" rests on the
\* records alone, hence on a FAIL only if a crash has left it in them.
LEMMA Decided ==
  ASSUME Types, NEW t \in Tasks, TaskHolds(t)
  PROVE  /\ Decide(t).action \in Actions
         /\ Status(t) = "READY" => Decide(t).action = "BLOCKED" \/ Readable(t)
         /\ Decide(t).action = "REPAIR_EXHAUSTED" => UnusedGrants(t) = {}
         /\ Decide(t).action = "REPAIR_ALLOWED" =>
              \/ FirstRepair(t, Decide(t))
              \/ /\ Decide(t).profile \in Profiles /\ Decide(t).granted = TRUE
                 /\ UnusedGrants(t) # {}
                 /\ \/ Status(t) = "READY" /\ Decide(t).archival = FALSE
                    \/ FailedSourceLoads(t) /\ Decide(t).archival = TRUE
         /\ Decide(t).action = "NOT_APPLICABLE" /\ Status(t) = "READY" =>
              Count(t, Attempts(t)) = 0 \/ ~Rejected(task[t].runs, Attempts(t))
<1> DEFINE d == DecideCore(t)
           n == Attempts(t)
           F == Failures(t, n)
<1>1. CASE Status(t) \in {"RUNNING", "PASS", "TIMED_OUT", "INFRA_ERROR"}
  <2>1. Decide(t) = NotApplicable
    BY <1>1 DEF Decide, ApplyGrant, DecideCore, NotApplicable
  <2> QED
    BY <1>1, <2>1 DEF NotApplicable, Actions
<1>2. CASE Status(t) \in {"READY", "FAIL"}
  <2>1. /\ d.action \in Actions
        /\ Status(t) = "READY" => d.action = "BLOCKED" \/ Readable(t)
        /\ d.action = "REPAIR_ALLOWED" => FirstRepair(t, d)
        /\ d.action = "REPAIR_EXHAUSTED" /\ WalkStatus(t, n) = "ok" =>
             F # {} /\ (Status(t) = "READY" \/ FailedSourceLoads(t))
        /\ d.action = "NOT_APPLICABLE" /\ Status(t) = "READY" =>
              Count(t, n) = 0 \/ ~Rejected(task[t].runs, n)
    BY <1>2, ReadyDecided, FailDecided
  <2>2. CASE d.action # "REPAIR_EXHAUSTED" \/ UnusedGrants(t) = {}
    <3>1. Decide(t) = d
      BY <2>2 DEF Decide, ApplyGrant
    <3> QED
      BY <2>1, <2>2, <3>1
  <2>3. CASE d.action = "REPAIR_EXHAUSTED" /\ UnusedGrants(t) # {}
    <3>1. CASE Cardinality(UnusedGrants(t)) > 1
      <4>1. Decide(t) = Blocked("INVALID_EVIDENCE")
        BY <2>3, <3>1 DEF Decide, ApplyGrant
      <4> QED
        BY <4>1 DEF Blocked, Actions
    <3>2. CASE ~(Cardinality(UnusedGrants(t)) > 1) /\ WalkStatus(t, n) # "ok"
      <4>1. Decide(t) = Blocked(WalkStatus(t, n))
        BY <2>3, <3>2 DEF Decide, ApplyGrant
      <4> QED
        BY <4>1 DEF Blocked, Actions
    <3>3. CASE ~(Cardinality(UnusedGrants(t)) > 1) /\ WalkStatus(t, n) = "ok"
      <4> DEFINE a == Allowed(t, Max(F), Status(t) = "FAIL")
      <4>1. F # {} /\ (Status(t) = "READY" \/ FailedSourceLoads(t))
        BY <2>1, <2>3, <3>3
      <4>2. Decide(t) = [a EXCEPT !.granted = TRUE]
        BY <2>3, <3>3, <4>1 DEF Decide, ApplyGrant
      <4>3. F \in SUBSET (1 .. n) /\ F \in SUBSET (0 .. n) /\ n \in Nat
        <5>1. n \in Nat /\ n \in 0 .. Attempts(t)
          BY TaskParts
        <5>2. F = FailuresOf(task[t].runs, n)
          BY <5>1, FailuresAre
        <5> QED
          BY <5>1, <5>2 DEF FailuresOf
      <4>4. RanBy(t, Max(F)) \in Profiles
        <5>1. Max(F) \in F
          BY <4>1, <4>3, MaxOf
        <5> QED
          BY <4>3, <5>1, TaskParts
      <4>5. /\ Decide(t).action = "REPAIR_ALLOWED" /\ Decide(t).profile = RanBy(t, Max(F))
            /\ Decide(t).granted = TRUE /\ Decide(t).archival = (Status(t) = "FAIL")
        BY <4>2 DEF Allowed
      <4>6. Status(t) = "READY" => Readable(t)
        BY <2>1, <2>3
      <4> QED
        BY <1>2, <2>3, <4>1, <4>4, <4>5, <4>6 DEF Actions, FailedSourceLoads
    <3> QED
      BY <3>1, <3>2, <3>3
  <2> QED
    BY <2>2, <2>3
<1> QED
  BY <1>1, <1>2, TaskParts DEF Statuses

--------------------------------------------------------------------------------
(* How the count of failures moves.                                        *)

\* The failures of an attempt and those before it are read from these alone.
LEMMA CountsAlike ==
  ASSUME NEW r, NEW s, NEW n \in Nat, \A a \in 1 .. n : s[a].closed = r[a].closed
  PROVE  FailuresOf(s, n) = FailuresOf(r, n)
<1>1. ASSUME NEW a \in 1 .. n
      PROVE  a \in FailuresOf(s, n) <=> a \in FailuresOf(r, n)
  <2>1. \A b \in a .. n : s[b].closed = r[b].closed
    OBVIOUS
  <2> QED
    BY <2>1 DEF FailuresOf
<1> QED
  BY <1>1 DEF FailuresOf

\* An attempt that is not closed, or twice, connects nothing.
LEMMA CountsNone ==
  ASSUME NEW r, NEW n \in Nat, n >= 1, Cardinality(r[n].closed) # 1
  PROVE  FailuresOf(r, n) = {} /\ Cardinality(FailuresOf(r, n)) = 0
<1>1. \A a \in 1 .. n : n \in a .. n
  OBVIOUS
<1>2. FailuresOf(r, n) = {}
  BY <1>1 DEF FailuresOf
<1> QED
  BY <1>2, FS_EmptySet

\* One more attempt: an abandonment forgets the failures, an operational record
\* keeps them and a capability record adds one.
LEMMA CountsOn ==
  ASSUME NEW r, NEW n \in Nat, n >= 1, NEW k \in Kinds, r[n].closed = {k}
  PROVE  /\ Cardinality(FailuresOf(r, n)) <= Cardinality(FailuresOf(r, n - 1)) + 1
         /\ k \notin Capability =>
              Cardinality(FailuresOf(r, n)) <= Cardinality(FailuresOf(r, n - 1))
         /\ k = "review" => Rejected(r, n)
<1> DEFINE F == FailuresOf(r, n - 1)
           G == FailuresOf(r, n)
<1>1. /\ IsFiniteSet(F) /\ Cardinality(F) \in Nat
      /\ IsFiniteSet(G) /\ Cardinality(G) \in Nat
  BY FailuresFinite
<1>2. Cardinality({k}) = 1
  BY FS_Singleton
<1>3. ASSUME k # "abandoned", NEW a \in 1 .. n - 1
      PROVE  a \in G <=> a \in F
  <2>1. a .. n = (a .. n - 1) \cup {n} /\ a \in 1 .. n
    OBVIOUS
  <2>2. Cardinality(r[n].closed) = 1 /\ r[n].closed # {"abandoned"}
    BY <1>2, <1>3
  <2> QED
    BY <2>1, <2>2 DEF FailuresOf
<1>4. ASSUME k \in Capability
      PROVE  n \in G
  <2>1. r[n].closed \cap Capability # {} /\ r[n].closed # {"abandoned"} /\ n \in 1 .. n
    <3>1. k \in r[n].closed \cap Capability
      BY <1>4
    <3>2. k # "abandoned"
      BY <1>4 DEF Capability
    <3> QED
      BY <3>1, <3>2
  <2>2. \A b \in n .. n : b = n
    OBVIOUS
  <2>3. \A b \in n .. n : Cardinality(r[b].closed) = 1 /\ r[b].closed # {"abandoned"}
    BY <1>2, <2>1, <2>2
  <2> QED
    BY <2>1, <2>3 DEF FailuresOf
<1>5. CASE k = "abandoned"
  <2>1. \A a \in 1 .. n : n \in a .. n
    OBVIOUS
  <2>2. G = {}
    BY <1>5, <2>1 DEF FailuresOf
  <2>3. Cardinality(G) = 0
    BY <2>2, FS_EmptySet
  <2> QED
    BY <1>1, <1>5, <2>3
<1>6. CASE k = "operational"
  <2>1. n \notin G
    BY <1>6 DEF FailuresOf, Capability
  <2>2. G \subseteq 1 .. n /\ F \subseteq 1 .. n - 1
    BY DEF FailuresOf
  <2>3. \A a \in 1 .. n : a = n \/ a \in 1 .. n - 1
    OBVIOUS
  <2> HIDE DEF F, G
  <2>4. G = F
    BY <1>3, <1>6, <2>1, <2>2, <2>3
  <2> QED
    BY <1>1, <1>6, <2>4 DEF F, G
<1>7. CASE k \in Capability
  <2>1. n \in G
    BY <1>4, <1>7
  <2>2. G \subseteq 1 .. n /\ F \subseteq 1 .. n - 1 /\ k # "abandoned"
    BY <1>7 DEF FailuresOf, Capability
  <2>3. \A a \in 1 .. n : a = n \/ a \in 1 .. n - 1
    OBVIOUS
  <2>4. k = "review" => Rejected(r, n)
    BY <2>1 DEF Rejected
  <2> HIDE DEF F, G
  <2>5. G = F \cup {n}
    BY <1>3, <2>1, <2>2, <2>3
  <2>6. Cardinality(G) <= Cardinality(F) + 1
    BY <1>1, <2>5, FS_AddElement
  <2> QED
    BY <1>7, <2>4, <2>6 DEF F, G
<1> QED
  BY <1>5, <1>6, <1>7 DEF Kinds, Capability

--------------------------------------------------------------------------------
(* What a step may do to a task, its grants and its gates.                 *)

Holds(t) == TaskHolds(t) /\ BudgetHolds(t) /\ GrantsHold(t)

StateTypes ==
  /\ task \in [Tasks -> TaskRecords]
  /\ grants \in [Tasks -> Seq(Nat)]
  /\ gates \in [Tasks -> Nat]
  /\ torn = [t \in Tasks |-> torn[t]]

\* Its worker, its close or its review moves an attempt in progress; the records it
\* has are still those an archival may have left.
Works(t) ==
  /\ Status(t) = "RUNNING"
  /\ \E v \in TaskRecords :
       /\ SetTask(t, v)
       /\ v.runs = task[t].runs /\ v.status # "READY"
       /\ v.phase # "none" <=> v.status = "RUNNING"
       /\ v.phase = "working" => v.output = "none"
       /\ \A k \in Closed(t, Attempts(t)) : Archivable(v, k)
  /\ UNCHANGED <<grants, gates>>

\* An attempt that did not fail its validation is archived and may be done again.
Reopens(t, kind) ==
  /\ Status(t) \in {"RUNNING", "INFRA_ERROR"} /\ Archivable(task[t], kind)
  /\ SetTask(t, Archived(t, kind))
  /\ UNCHANGED <<grants, gates>>

\* An escalation or a person lets a failure through.
PassesGate(t) ==
  /\ FailedSourceLoads(t)
  /\ SetTask(t, Archived(t, "validation"))
  /\ gates' = [gates EXCEPT ![t] = @ + 1]
  /\ UNCHANGED grants

\* The policy decides and the decision is applied.
Repairs(t) == Reconcile(t, Decide(t), RetriesFailed(t, Policy)) /\ UNCHANGED gates

\* The record of an archival is there, and its task not reopened; the receipt of a
\* repair comes before its record.
Records(t, kind) ==
  /\ Archivable(task[t], kind) /\ Status(t) # "READY"
  /\ SetTask(t, WithRecord(t, kind))
  /\ \E reason : torn' = [torn EXCEPT ![t] = @ \cup {[kind |-> kind, reason |-> reason]}]
Consumes(t) == UnusedGrants(t) # {} /\ Consume(t)

IsRecorded(t) ==
  /\ (\E kind \in Kinds : Records(t, kind)) \/ UNCHANGED <<task, torn>>
  /\ Consumes(t) \/ UNCHANGED grants
  /\ UNCHANGED gates

IsGranted(t) == Grant(t) /\ UNCHANGED gates

IsLaunched(t) ==
  /\ Status(t) = "READY" /\ MayLaunch(t)
  /\ \E p \in Profiles :
       SetTask(t, [task[t] EXCEPT !.status = "RUNNING", !.phase = "working",
                     !.runs = Append(@, [profile |-> p, closed |-> {}])])
  /\ torn' = [torn EXCEPT ![t] = {}]
  /\ UNCHANGED <<grants, gates>>

\* Writing a record changes the last attempt; archiving reopens the task as well.
LEMMA RecordIs ==
  ASSUME Types, NEW t \in Tasks, NEW kind \in Kinds, Attempts(t) >= 1
  PROVE  LET v == WithRecord(t, kind) IN
         /\ v \in TaskRecords
         /\ v.status = Status(t) /\ v.phase = task[t].phase /\ v.output = task[t].output
         /\ v.official = task[t].official /\ v.verdict = task[t].verdict
         /\ Len(v.runs) = Attempts(t)
         /\ \A a \in 1 .. Attempts(t) - 1 : v.runs[a] = task[t].runs[a]
         /\ v.runs[Attempts(t)].closed = Closed(t, Attempts(t)) \cup {kind}
<1> DEFINE n == Attempts(t)
           r == task[t].runs
           e == [r[n] EXCEPT !.closed = @ \cup {kind}]
           s == [r EXCEPT ![n] = e]
<1>1. task[t] \in TaskRecords /\ r \in Seq(Runs) /\ n \in 1 .. Len(r) /\ n = Len(r) /\ n \in Nat
  BY TaskParts DEF Types, Attempts
<1>2. r[n] \in Runs
  BY <1>1
<1>3. e \in Runs /\ e.closed = Closed(t, n) \cup {kind}
  BY <1>2 DEF Runs, Closed
<1>4. /\ s \in Seq(Runs) /\ Len(s) = n /\ s[n] = e
      /\ \A a \in 1 .. n - 1 : s[a] = r[a]
  <2> HIDE DEF e
  <2> QED
    BY <1>1, <1>3
<1>5. WithRecord(t, kind) = [task[t] EXCEPT !.runs = s]
  BY <1>1, <1>2 DEF WithRecord, TaskRecords, Runs
<1> HIDE DEF s
<1>6. [task[t] EXCEPT !.runs = s] \in TaskRecords
  BY <1>1, <1>4 DEF TaskRecords
<1> QED
  BY <1>1, <1>3, <1>4, <1>5, <1>6 DEF TaskRecords, Status

LEMMA ArchivedIs ==
  ASSUME Types, NEW t \in Tasks, NEW kind \in Kinds, Attempts(t) >= 1
  PROVE  LET v == Archived(t, kind) IN
         /\ v \in TaskRecords
         /\ v.status = "READY" /\ v.phase = "none" /\ v.output = "none"
         /\ Len(v.runs) = Attempts(t)
         /\ \A a \in 1 .. Attempts(t) - 1 : v.runs[a] = task[t].runs[a]
         /\ v.runs[Attempts(t)].closed = Closed(t, Attempts(t)) \cup {kind}
<1> DEFINE w == WithRecord(t, kind)
<1>1. /\ w \in TaskRecords
      /\ Len(w.runs) = Attempts(t)
      /\ \A a \in 1 .. Attempts(t) - 1 : w.runs[a] = task[t].runs[a]
      /\ w.runs[Attempts(t)].closed = Closed(t, Attempts(t)) \cup {kind}
  BY RecordIs
<1> HIDE DEF w
<1>2. Archived(t, kind) = Reopened(w)
  BY DEF Archived, w
<1>3. /\ Reopened(w) \in TaskRecords /\ Reopened(w).runs = w.runs
      /\ Reopened(w).status = "READY" /\ Reopened(w).phase = "none" /\ Reopened(w).output = "none"
  BY <1>1 DEF Reopened, TaskRecords, Statuses, Phases
<1> QED
  BY <1>1, <1>2, <1>3

\* Nothing else than the task is touched.
Elsewhere(t) ==
  \A u \in Tasks \ {t} :
    task'[u] = task[u] /\ grants'[u] = grants[u] /\ gates'[u] = gates[u] /\ torn'[u] = torn[u]

\* The sizes the budget adds up are naturals.
LEMMA Sizes ==
  ASSUME Types, NEW t \in Tasks
  PROVE  /\ Room(t) \in Nat /\ Attempts(t) \in Nat
         /\ \A n \in Int : Count(t, n) \in Nat
         /\ grants[t] \in Seq(Nat) /\ gates[t] \in Nat
         /\ Cardinality(Spent(grants[t], Attempts(t))) \in Nat
<1>1. grants[t] \in Seq(Nat) /\ gates[t] \in Nat /\ Attempts(t) \in Nat
  BY TaskParts DEF Types
<1>2. Cardinality(Spent(grants[t], Attempts(t))) \in Nat
  <2>1. Attempts(t) \in Int
    BY <1>1
  <2> QED
    BY <1>1, <2>1, SpentFinite
<1>3. \A n \in Int : Count(t, n) \in Nat
  BY FailuresFinite DEF Count
<1>4. Room(t) \in Nat
  BY <1>1, <1>2 DEF Room
<1> QED
  BY <1>1, <1>2, <1>3, <1>4

\* An attempt is archived by what may archive it: with the record there is, or the
\* second of the two ways to give it up.
LEMMA RecordsMeet ==
  ASSUME Types, NEW t \in Tasks, TaskHolds(t), NEW kind \in Kinds, Status(t) # "READY",
         Archivable(task[t], kind)
  PROVE  \/ Closed(t, Attempts(t)) \subseteq {kind}
         \/ /\ Closed(t, Attempts(t)) # {}
            /\ Closed(t, Attempts(t)) \cup {kind} = {"abandoned", "operational"}
<1> DEFINE old == Closed(t, Attempts(t))
<1>1. \A k \in old : Archivable(task[t], k)
  BY DEF TaskHolds
<1>2. task[t].phase # "none" <=> task[t].status = "RUNNING"
  BY DEF TaskHolds, Status
<1>3. ASSUME NEW k, Archivable(task[t], k), k # kind
      PROVE  {k, kind} = {"abandoned", "operational"}
  <2>1. k \in {"abandoned", "operational"} /\ kind \in {"abandoned", "operational"}
    BY <1>2, <1>3 DEF Archivable
  <2> QED
    BY <1>3, <2>1
<1> HIDE DEF old
<1>4. CASE \E k \in old : k # kind
  <2>1. PICK k \in old : k # kind
    BY <1>4
  <2>2. {k, kind} = {"abandoned", "operational"}
    BY <1>1, <1>3, <2>1
  <2>3. \A j \in old : j \in {"abandoned", "operational"}
    BY <1>1, <1>3, <2>2
  <2> QED
    BY <2>1, <2>2, <2>3 DEF old
<1>5. CASE \A k \in old : k = kind
  BY <1>5 DEF old
<1> QED
  BY <1>4, <1>5

\* A task whose last attempt is archived is READY, all its attempts have one record
\* or the last was given up twice, and one failure has come on at most.
LEMMA ArchivedHolds ==
  ASSUME Types, NEW t \in Tasks, TaskHolds(t), NEW kind \in Kinds, Status(t) # "READY",
         Archivable(task[t], kind), SetTask(t, Archived(t, kind)), torn' = torn
  PROVE  /\ task' \in [Tasks -> TaskRecords] /\ TaskHolds(t)'
         /\ Closed(t, Attempts(t)) = {} \/ kind = "validation" => Readable(t)'
         /\ Attempts(t)' = Attempts(t) /\ Status(t)' = "READY"
         /\ Count(t, Attempts(t))' <= Count(t, Attempts(t) - 1) + 1
         /\ kind \notin Capability => Count(t, Attempts(t))' <= Count(t, Attempts(t) - 1)
         /\ kind = "review" => Rejected(task'[t].runs, Attempts(t))
         /\ \A u \in Tasks \ {t} : task'[u] = task[u]
<1> DEFINE v == Archived(t, kind)
           r == task[t].runs
           n == Attempts(t)
<1>1. /\ n \in Nat /\ n >= 1 /\ (Closed(t, n) = {} \/ torn[t] # {})
      /\ \A a \in 1 .. n - 1 : \E k \in Kinds : Closed(t, a) = {k}
  BY TaskParts DEF TaskHolds, OneRecord
<1>2. /\ v \in TaskRecords /\ v.status = "READY" /\ v.phase = "none" /\ v.output = "none"
      /\ Len(v.runs) = n
      /\ \A a \in 1 .. n - 1 : v.runs[a] = r[a]
      /\ v.runs[n].closed = Closed(t, n) \cup {kind}
  BY <1>1, ArchivedIs
<1> HIDE DEF v
<1>3. /\ \/ v.runs[n].closed = {kind}
         \/ v.runs[n].closed = {"abandoned", "operational"} /\ torn[t] # {} /\ Closed(t, n) # {}
      /\ kind \in Capability => v.runs[n].closed = {kind}
  <2>1. \/ Closed(t, n) \subseteq {kind}
        \/ Closed(t, n) # {} /\ Closed(t, n) \cup {kind} = {"abandoned", "operational"}
    BY RecordsMeet
  <2>2. kind \in Capability => Closed(t, n) \cup {kind} # {"abandoned", "operational"}
    BY DEF Capability
  <2> QED
    BY <1>1, <1>2, <2>1, <2>2
<1>4. task' = [task EXCEPT ![t] = v] /\ task \in [Tasks -> TaskRecords]
  BY DEF SetTask, Types, v
<1>5. /\ task'[t] = v /\ task' \in [Tasks -> TaskRecords]
      /\ \A u \in Tasks \ {t} : task'[u] = task[u]
  BY <1>2, <1>4
<1>6. Attempts(t)' = n /\ Status(t)' = "READY"
  BY <1>2, <1>5 DEF Attempts, Status
<1>7. ASSUME NEW a \in 1 .. n - 1 PROVE \E k \in Kinds : v.runs[a].closed = {k}
  BY <1>1, <1>2 DEF Closed
<1>8. TaskHolds(t)'
  <2>1. \A a \in 1 .. n - 1 : OneRecord(t, a)'
    BY <1>5, <1>7 DEF OneRecord, Closed
  <2>2. \/ OneRecord(t, n)'
        \/ Closed(t, n)' = {"abandoned", "operational"} /\ torn'[t] # {}
    BY <1>3, <1>5, <1>6 DEF OneRecord, Closed
  <2>3. task'[t].phase = "none" /\ task'[t].output = "none"
    BY <1>2, <1>5
  <2> QED
    BY <1>6, <2>1, <2>2, <2>3 DEF TaskHolds, OneRecord, Closed
<1>a. Closed(t, n) = {} \/ kind = "validation" => Readable(t)'
  <2>1. Closed(t, n) = {} \/ kind = "validation" => v.runs[n].closed = {kind}
    BY <1>3 DEF Capability
  <2>2. \A a \in 1 .. n : a = n \/ a \in 1 .. n - 1
    BY <1>1
  <2> QED
    BY <1>5, <1>6, <1>7, <2>1, <2>2 DEF Readable, OneRecord, Closed
<1>9. FailuresOf(v.runs, n - 1) = FailuresOf(r, n - 1)
  <2>1. n - 1 \in Nat /\ \A a \in 1 .. n - 1 : v.runs[a].closed = r[a].closed
    BY <1>1, <1>2
  <2> QED
    BY <2>1, CountsAlike
<1>10. Count(t, n)' = Cardinality(FailuresOf(v.runs, n))
  BY <1>5, <1>6 DEF Count
<1>11. /\ Cardinality(FailuresOf(v.runs, n)) <= Cardinality(FailuresOf(v.runs, n - 1)) + 1
       /\ kind \notin Capability =>
            Cardinality(FailuresOf(v.runs, n)) <= Cardinality(FailuresOf(v.runs, n - 1))
       /\ kind = "review" => Rejected(v.runs, n)
  <2>1. CASE v.runs[n].closed = {kind}
    BY <1>1, <2>1, CountsOn
  <2>2. CASE v.runs[n].closed = {"abandoned", "operational"} /\ kind \notin Capability
    <3>1. Cardinality(FailuresOf(v.runs, n)) = 0
      BY <1>1, <2>2, PairIs, CountsNone
    <3>2. Cardinality(FailuresOf(v.runs, n - 1)) \in Nat
      BY <1>1, FailuresFinite
    <3> QED
      BY <2>2, <3>1, <3>2 DEF Capability
  <2> QED
    BY <1>3, <2>1, <2>2
<1> QED
  BY <1>5, <1>6, <1>8, <1>a, <1>9, <1>10, <1>11 DEF Count

\* Grants are read against the number of attempts, which archiving leaves alone.
LEMMA GrantsStay ==
  ASSUME NEW t, GrantsHold(t), grants'[t] = grants[t], Attempts(t)' = Attempts(t)
  PROVE  /\ GrantsHold(t)'
         /\ Spent(grants'[t], Attempts(t)') = Spent(grants[t], Attempts(t))
         /\ Waits(grants'[t], Attempts(t)') = Waits(grants[t], Attempts(t))
  BY DEF GrantsHold, UnusedGrants

LEMMA ReopensHolds ==
  ASSUME Types, NEW t \in Tasks, Holds(t),
         NEW kind \in {"operational", "abandoned", "review"}, Reopens(t, kind), torn' = torn
  PROVE  /\ StateTypes' /\ Holds(t)' /\ Elsewhere(t)
         /\ kind # "review" => MayLaunch(t)'
         /\ Closed(t, Attempts(t)) = {} => Readable(t)'
<1>1. Archivable(task[t], kind) /\ Status(t) # "READY" /\ kind \in Kinds
  BY DEF Reopens, Kinds
<1>2. /\ task' \in [Tasks -> TaskRecords] /\ TaskHolds(t)'
      /\ Closed(t, Attempts(t)) = {} => Readable(t)'
      /\ Attempts(t)' = Attempts(t) /\ Status(t)' = "READY"
      /\ Count(t, Attempts(t))' <= Count(t, Attempts(t) - 1) + 1
      /\ kind \notin Capability => Count(t, Attempts(t))' <= Count(t, Attempts(t) - 1)
      /\ kind = "review" => Rejected(task'[t].runs, Attempts(t))
      /\ \A u \in Tasks \ {t} : task'[u] = task[u]
  BY <1>1, ArchivedHolds DEF Holds, Reopens
<1>3. grants' = grants /\ gates' = gates
  BY DEF Reopens
<1>4. StateTypes' /\ Elsewhere(t)
  BY <1>2, <1>3 DEF StateTypes, Elsewhere, Types
<1>5. GrantsHold(t)' /\ Room(t)' = Room(t)
  BY <1>2, <1>3, GrantsStay DEF Holds, Room
<1>6. Count(t, Attempts(t) - 1) <= 1 + Room(t)
  BY <1>1 DEF Holds, BudgetHolds
<1>7. /\ Count(t, Attempts(t))' \in Nat /\ Room(t) \in Nat
      /\ Count(t, Attempts(t) - 1) \in Nat
  BY <1>2, Sizes, FailuresFinite DEF Count
<1>8. /\ Count(t, Attempts(t))' <= 2 + Room(t)'
      /\ kind # "review" => Count(t, Attempts(t))' <= 1 + Room(t)'
  BY <1>2, <1>5, <1>6, <1>7 DEF Capability
<1>9. BudgetHolds(t)' /\ (kind # "review" => MayLaunch(t)')
  BY <1>2, <1>8 DEF BudgetHolds, MayLaunch
<1> QED
  BY <1>2, <1>4, <1>5, <1>9 DEF Holds

LEMMA PassesGateHolds ==
  ASSUME Types, NEW t \in Tasks, Holds(t), PassesGate(t), torn' = torn
  PROVE  StateTypes' /\ Holds(t)' /\ Elsewhere(t)
<1>1. Archivable(task[t], "validation") /\ Status(t) # "READY" /\ "validation" \in Kinds
  BY DEF PassesGate, FailedSourceLoads, Kinds, Archivable, Status
<1>2. /\ task' \in [Tasks -> TaskRecords] /\ TaskHolds(t)'
      /\ Attempts(t)' = Attempts(t) /\ Status(t)' = "READY"
      /\ Count(t, Attempts(t))' <= Count(t, Attempts(t) - 1) + 1
      /\ \A u \in Tasks \ {t} : task'[u] = task[u]
  BY <1>1, ArchivedHolds DEF Holds, PassesGate
<1>3. grants' = grants /\ gates' = [gates EXCEPT ![t] = @ + 1] /\ gates \in [Tasks -> Nat]
  BY DEF PassesGate, Types
<1>4. StateTypes' /\ Elsewhere(t) /\ gates'[t] = gates[t] + 1
  BY <1>2, <1>3 DEF StateTypes, Elsewhere, Types
<1>5. GrantsHold(t)' /\ Spent(grants'[t], Attempts(t)') = Spent(grants[t], Attempts(t))
  BY <1>2, <1>3, GrantsStay DEF Holds
<1>6. Room(t)' = Room(t) + 1
  <2>1. gates[t] \in Nat /\ Cardinality(Spent(grants[t], Attempts(t))) \in Nat
    BY Sizes
  <2> QED
    BY <1>4, <1>5, <2>1 DEF Room
<1>7. /\ Count(t, Attempts(t))' \in Nat /\ Room(t) \in Nat
      /\ Count(t, Attempts(t) - 1) \in Nat
  BY <1>2, Sizes, FailuresFinite DEF Count
<1>8. Count(t, Attempts(t))' <= 1 + Room(t)'
  BY <1>1, <1>2, <1>6, <1>7 DEF Holds, BudgetHolds
<1>9. BudgetHolds(t)'
  <2>1. Count(t, Attempts(t))' <= 2 + Room(t)'
    BY <1>6, <1>7, <1>8
  <2> QED
    BY <1>2, <1>8, <2>1 DEF BudgetHolds, MayLaunch
<1> QED
  BY <1>2, <1>4, <1>5, <1>9 DEF Holds

\* Consuming the grant that waits writes a receipt for the attempt to come.
LEMMA ConsumeHolds ==
  ASSUME Types, NEW t \in Tasks, GrantsHold(t), UnusedGrants(t) # {}, Consume(t),
         Attempts(t)' = Attempts(t)
  PROVE  /\ grants' \in [Tasks -> Seq(Nat)] /\ GrantsHold(t)'
         /\ \A u \in Tasks \ {t} : grants'[u] = grants[u]
         /\ Spent(grants'[t], Attempts(t)') = Spent(grants[t], Attempts(t))
         /\ Waits(grants'[t], Attempts(t)')
<1> DEFINE r == grants[t]
           n == Attempts(t)
           c == CHOOSE h \in UnusedGrants(t) : TRUE
<1>1. PICK g \in UnusedGrants(t) : g = c
  OBVIOUS
<1>2. \A h \in UnusedGrants(t) : h = g
  BY <1>1 DEF GrantsHold
<1>3. n \in Nat /\ r \in Seq(Nat) /\ g \in DOMAIN r /\ (r[g] = 0 \/ r[g] > n)
      /\ grants \in [Tasks -> Seq(Nat)]
  BY <1>1, Sizes DEF UnusedGrants, Types
<1> DEFINE s == [r EXCEPT ![g] = n + 1]
<1>4. grants' = [grants EXCEPT ![t] = s]
  BY <1>1, <1>3 DEF Consume
<1>5. /\ s \in Seq(Nat) /\ DOMAIN s = DOMAIN r /\ s[g] = n + 1
      /\ \A h \in DOMAIN r \ {g} : s[h] = r[h]
  BY <1>3
<1> HIDE DEF s
<1>6. grants'[t] = s /\ grants' \in [Tasks -> Seq(Nat)] /\ \A u \in Tasks \ {t} : grants'[u] = grants[u]
  BY <1>3, <1>4, <1>5
<1>7. \A h \in DOMAIN r \ {g} : r[h] \in Nat /\ r[h] # 0 /\ r[h] <= n
  BY <1>2, <1>3 DEF UnusedGrants
<1>8. UnusedGrants(t)' = {g}
  BY <1>3, <1>5, <1>6, <1>7 DEF UnusedGrants
<1>9. \A h, i \in DOMAIN s : s[h] = s[i] /\ s[h] # 0 => h = i
  BY <1>3, <1>5, <1>7 DEF GrantsHold
<1>10. GrantsHold(t)'
  BY <1>6, <1>8, <1>9 DEF GrantsHold
<1>11. Spent(s, n) = Spent(r, n)
  <2>1. ~(s[g] <= n) /\ ~(r[g] # 0 /\ r[g] <= n)
    BY <1>3, <1>5
  <2> QED
    BY <1>5, <2>1 DEF Spent
<1>12. Waits(s, n)
  BY <1>3, <1>5 DEF Waits
<1> QED
  BY <1>6, <1>10, <1>11, <1>12

\* A task nothing touches is as it was.
LEMMA TaskStays ==
  ASSUME NEW t, TaskHolds(t), task'[t] = task[t], torn'[t] = torn[t]
  PROVE  /\ TaskHolds(t)' /\ Attempts(t)' = Attempts(t) /\ Status(t)' = Status(t)
         /\ Readable(t) => Readable(t)'
<1>1. Attempts(t)' = Attempts(t) /\ Status(t)' = Status(t)
  BY DEF Attempts, Status
<1>2. \A a : Closed(t, a)' = Closed(t, a) /\ OneRecord(t, a)' = OneRecord(t, a)
  BY DEF Closed, OneRecord
<1>3. TaskHolds(t)'
  BY <1>1, <1>2 DEF TaskHolds
<1>4. Readable(t) => Readable(t)'
  BY <1>1, <1>2 DEF Readable
<1> QED
  BY <1>1, <1>3, <1>4

\* A repair is either the first or has a grant that waits for its attempt.
LEMMA RepairsHolds ==
  ASSUME Types, NEW t \in Tasks, Holds(t), Repairs(t), torn' = torn
  PROVE  /\ StateTypes' /\ Holds(t)' /\ Elsewhere(t)
         /\ Decide(t).action \in {"REPAIR_ALLOWED", "NOT_APPLICABLE"} /\ Status(t)' = "READY"
              => MayLaunch(t)' /\ Readable(t)'
         /\ Status(t)' = Status(t) \/ FailedSourceLoads(t)
         /\ Status(t)' \in {Status(t), "READY"}
<1> DEFINE d == Decide(t)
           loads == RetriesFailed(t, Policy)
<1>1. /\ TaskHolds(t) /\ BudgetHolds(t) /\ GrantsHold(t) /\ gates' = gates
      /\ Reconcile(t, d, loads)
  BY DEF Holds, Repairs
<1>2. /\ d.action \in Actions
      /\ Status(t) = "READY" => d.action = "BLOCKED" \/ Readable(t)
      /\ d.action = "REPAIR_ALLOWED" =>
           \/ FirstRepair(t, d)
           \/ /\ d.profile \in Profiles /\ d.granted = TRUE
              /\ UnusedGrants(t) # {}
              /\ \/ Status(t) = "READY" /\ d.archival = FALSE
                 \/ FailedSourceLoads(t) /\ d.archival = TRUE
      /\ d.action = "NOT_APPLICABLE" /\ Status(t) = "READY" =>
           Count(t, Attempts(t)) = 0 \/ ~Rejected(task[t].runs, Attempts(t))
  BY <1>1, Decided
<1>3. Room(t) \in Nat /\ Attempts(t) \in Nat /\ \A n \in Int : Count(t, n) \in Nat
  BY Sizes
<1> HIDE DEF d, loads
<1>4. CASE d.action # "REPAIR_ALLOWED"
  <2>1. task' = task /\ grants' = grants
    BY <1>1, <1>4 DEF Reconcile
  <2>2. StateTypes' /\ Elsewhere(t)
    BY <1>1, <2>1 DEF StateTypes, Elsewhere, Types
  <2>3. Attempts(t)' = Attempts(t) /\ Status(t)' = Status(t) /\ TaskHolds(t)'
        /\ Count(t, Attempts(t))' = Count(t, Attempts(t)) /\ (Readable(t) => Readable(t)')
    BY <1>1, <2>1, TaskStays DEF Count
  <2>4. GrantsHold(t)' /\ Room(t)' = Room(t) /\ (MayLaunch(t)' <=> MayLaunch(t)) /\ BudgetHolds(t)'
    BY <1>1, <2>1, <2>3, GrantsStay DEF Room, MayLaunch, BudgetHolds, Count
  <2>5. d.action = "NOT_APPLICABLE" /\ Status(t) = "READY" => MayLaunch(t) /\ Readable(t)
    BY <1>1, <1>2, <1>3 DEF BudgetHolds, MayLaunch
  <2> QED
    BY <1>4, <2>2, <2>3, <2>4, <2>5 DEF Holds, d
<1>5. CASE d.action = "REPAIR_ALLOWED" /\ d.archival = FALSE
  <2>1. task' = task /\ Status(t) = "READY"
    BY <1>1, <1>2, <1>5 DEF Reconcile, FirstRepair
  <2>2. Attempts(t)' = Attempts(t) /\ Status(t)' = Status(t) /\ TaskHolds(t)' /\ Readable(t)'
        /\ Count(t, Attempts(t))' = Count(t, Attempts(t))
        /\ Rejected(task[t].runs, Attempts(t))' = Rejected(task[t].runs, Attempts(t))
    BY <1>1, <1>2, <1>5, <2>1, TaskStays DEF Count
  <2>3. CASE d.granted = TRUE
    <3>1. Consume(t) /\ UnusedGrants(t) # {}
      BY <1>1, <1>2, <1>5, <2>3 DEF Reconcile, FirstRepair
    <3>2. /\ grants' \in [Tasks -> Seq(Nat)] /\ GrantsHold(t)'
          /\ \A u \in Tasks \ {t} : grants'[u] = grants[u]
          /\ Spent(grants'[t], Attempts(t)') = Spent(grants[t], Attempts(t))
          /\ Waits(grants'[t], Attempts(t)')
      BY <1>1, <2>2, <3>1, ConsumeHolds
    <3>3. Room(t)' = Room(t) /\ MayLaunch(t)'
      BY <1>1, <3>2 DEF Room, MayLaunch
    <3>4. BudgetHolds(t)'
      BY <1>1, <2>1, <2>2, <3>3 DEF BudgetHolds
    <3>5. StateTypes' /\ Elsewhere(t)
      BY <1>1, <2>1, <3>2 DEF StateTypes, Elsewhere, Types
    <3> QED
      BY <2>2, <3>2, <3>3, <3>4, <3>5 DEF Holds
  <2>4. CASE d.granted = FALSE
    <3>1. grants' = grants /\ Count(t, Attempts(t)) <= 1
      BY <1>1, <1>2, <1>5, <2>1, <2>4 DEF Reconcile, FirstRepair, FailedSourceLoads
    <3>2. GrantsHold(t)' /\ Room(t)' = Room(t)
      BY <1>1, <2>2, <3>1, GrantsStay DEF Room
    <3>3. MayLaunch(t)'
      BY <1>3, <2>2, <3>1, <3>2 DEF MayLaunch
    <3>4. BudgetHolds(t)'
      BY <1>1, <2>1, <2>2, <3>2, <3>3 DEF BudgetHolds
    <3>5. StateTypes' /\ Elsewhere(t)
      BY <1>1, <2>1, <3>1 DEF StateTypes, Elsewhere, Types
    <3> QED
      BY <2>2, <3>2, <3>3, <3>4, <3>5 DEF Holds
  <2> QED
    BY <1>2, <1>5, <2>3, <2>4 DEF FirstRepair
<1>6. CASE d.action = "REPAIR_ALLOWED" /\ d.archival = TRUE /\ ~loads
  <2>1. task' = task /\ Status(t) = "FAIL"
    BY <1>1, <1>2, <1>6 DEF Reconcile, FirstRepair, FailedSourceLoads
  <2>2. Attempts(t)' = Attempts(t) /\ Status(t)' = Status(t) /\ TaskHolds(t)'
        /\ Count(t, Attempts(t) - 1)' = Count(t, Attempts(t) - 1)
    BY <1>1, <2>1, TaskStays DEF Count
  <2>3. grants' = grants \/ (Consume(t) /\ UnusedGrants(t) # {})
    BY <1>1, <1>2, <1>6 DEF Reconcile, FirstRepair
  <2>4. /\ grants' \in [Tasks -> Seq(Nat)] /\ GrantsHold(t)' /\ Room(t)' = Room(t)
        /\ \A u \in Tasks \ {t} : grants'[u] = grants[u]
    <3>1. CASE grants' = grants
      BY <1>1, <2>2, <3>1, GrantsStay DEF Room, Types
    <3>2. CASE Consume(t) /\ UnusedGrants(t) # {}
      BY <1>1, <2>2, <3>2, ConsumeHolds DEF Room
    <3> QED
      BY <2>3, <3>1, <3>2
  <2>5. BudgetHolds(t)'
    BY <1>1, <2>1, <2>2, <2>4 DEF BudgetHolds
  <2>6. StateTypes' /\ Elsewhere(t)
    BY <1>1, <2>1, <2>4 DEF StateTypes, Elsewhere, Types
  <2> QED
    BY <2>1, <2>2, <2>4, <2>5, <2>6 DEF Holds
<1>7. CASE d.action = "REPAIR_ALLOWED" /\ d.archival = TRUE /\ loads
  <2>1. FailedSourceLoads(t) /\ SetTask(t, Archived(t, "validation"))
    BY <1>1, <1>2, <1>7 DEF Reconcile, FirstRepair
  <2>2. /\ Archivable(task[t], "validation") /\ Status(t) # "READY" /\ "validation" \in Kinds
    BY <2>1 DEF Archivable, FailedSourceLoads, Status, Kinds
  <2>3. /\ task' \in [Tasks -> TaskRecords] /\ TaskHolds(t)' /\ Readable(t)'
        /\ Attempts(t)' = Attempts(t) /\ Status(t)' = "READY"
        /\ Count(t, Attempts(t))' <= Count(t, Attempts(t) - 1) + 1
        /\ \A u \in Tasks \ {t} : task'[u] = task[u]
    BY <1>1, <2>1, <2>2, ArchivedHolds
  <2>4. Count(t, Attempts(t))' \in Nat /\ Count(t, Attempts(t) - 1) \in Nat
    BY <1>3, <2>3, FailuresFinite DEF Count
  <2>5. Count(t, Attempts(t) - 1) <= 1 + Room(t)
    BY <1>1, <2>2 DEF BudgetHolds
  <2>6. CASE d.granted = TRUE
    <3>1. Consume(t) /\ UnusedGrants(t) # {}
      BY <1>1, <1>2, <1>7, <2>6 DEF Reconcile, FirstRepair
    <3>2. /\ grants' \in [Tasks -> Seq(Nat)] /\ GrantsHold(t)'
          /\ \A u \in Tasks \ {t} : grants'[u] = grants[u]
          /\ Spent(grants'[t], Attempts(t)') = Spent(grants[t], Attempts(t))
          /\ Waits(grants'[t], Attempts(t)')
      BY <1>1, <2>3, <3>1, ConsumeHolds
    <3>3. Room(t)' = Room(t) /\ MayLaunch(t)'
      BY <1>1, <3>2 DEF Room, MayLaunch
    <3>4. BudgetHolds(t)'
      <4>1. Count(t, Attempts(t))' <= 2 + Room(t)'
        BY <1>3, <2>3, <2>4, <2>5, <3>3
      <4> QED
        BY <2>3, <3>3, <4>1 DEF BudgetHolds
    <3>5. StateTypes' /\ Elsewhere(t)
      BY <1>1, <2>3, <3>2 DEF StateTypes, Elsewhere, Types
    <3> QED
      BY <2>1, <2>3, <3>2, <3>3, <3>4, <3>5 DEF Holds
  <2>7. CASE d.granted = FALSE
    <3>1. grants' = grants /\ Count(t, Attempts(t) - 1) = 0
      BY <1>1, <1>2, <1>7, <2>2, <2>7 DEF Reconcile, FirstRepair
    <3>2. GrantsHold(t)' /\ Room(t)' = Room(t)
      BY <1>1, <2>3, <3>1, GrantsStay DEF Room
    <3>3. Count(t, Attempts(t))' <= 1 + Room(t)' /\ Count(t, Attempts(t))' <= 2 + Room(t)'
      BY <1>3, <2>3, <2>4, <3>1, <3>2
    <3>4. BudgetHolds(t)' /\ MayLaunch(t)'
      BY <2>3, <3>3 DEF BudgetHolds, MayLaunch
    <3>5. StateTypes' /\ Elsewhere(t)
      BY <1>1, <2>3, <3>1 DEF StateTypes, Elsewhere, Types
    <3> QED
      BY <2>1, <2>3, <3>2, <3>4, <3>5 DEF Holds
  <2> QED
    BY <1>2, <1>7, <2>6, <2>7 DEF FirstRepair
<1> QED
  BY <1>2, <1>4, <1>5, <1>6, <1>7 DEF FirstRepair

\* What an attempt in progress becomes leaves its records alone.
LEMMA WorksHolds ==
  ASSUME Types, NEW t \in Tasks, Holds(t), Works(t), torn' = torn
  PROVE  StateTypes' /\ Holds(t)' /\ Elsewhere(t)
<1>1. PICK v \in TaskRecords :
        /\ SetTask(t, v)
        /\ v.runs = task[t].runs /\ v.status # "READY"
        /\ v.phase # "none" <=> v.status = "RUNNING"
        /\ v.phase = "working" => v.output = "none"
        /\ \A k \in Closed(t, Attempts(t)) : Archivable(v, k)
  BY DEF Works
<1>2. grants' = grants /\ gates' = gates /\ Status(t) = "RUNNING"
  BY DEF Works
<1>3. /\ task'[t] = v /\ task' \in [Tasks -> TaskRecords]
      /\ \A u \in Tasks \ {t} : task'[u] = task[u]
  BY <1>1 DEF SetTask, Types
<1>4. Attempts(t)' = Attempts(t) /\ Status(t)' # "READY" /\ Status(t) # "READY"
      /\ Count(t, Attempts(t) - 1)' = Count(t, Attempts(t) - 1)
  BY <1>1, <1>2, <1>3 DEF Attempts, Status, Count
<1>5. Attempts(t) >= 1 /\ (Closed(t, Attempts(t)) = {} \/ torn[t] # {})
      /\ \A a \in 1 .. Attempts(t) - 1 : OneRecord(t, a)
  BY <1>2 DEF Holds, TaskHolds
<1>6. TaskHolds(t)'
  <2>1. \A a : Closed(t, a)' = Closed(t, a) /\ OneRecord(t, a)' = OneRecord(t, a)
    BY <1>1, <1>3 DEF Closed, OneRecord
  <2>2. \A a \in 1 .. Attempts(t)' - 1 : OneRecord(t, a)'
    BY <1>4, <1>5, <2>1
  <2>3. \A k \in Closed(t, Attempts(t))' : Archivable(task'[t], k)
    BY <1>1, <1>3, <1>4, <2>1
  <2>4. Closed(t, Attempts(t))' = {} \/ torn'[t] # {}
    BY <1>2, <1>4, <1>5, <2>1
  <2> QED
    BY <1>1, <1>3, <1>4, <1>5, <2>2, <2>3, <2>4 DEF TaskHolds, Status
<1>7. GrantsHold(t)' /\ Room(t)' = Room(t)
  BY <1>2, <1>4, GrantsStay DEF Holds, Room
<1>8. BudgetHolds(t)'
  BY <1>4, <1>7 DEF Holds, BudgetHolds
<1>9. StateTypes' /\ Elsewhere(t)
  BY <1>2, <1>3 DEF StateTypes, Elsewhere, Types
<1> QED
  BY <1>6, <1>7, <1>8, <1>9 DEF Holds

\* A record that is written before a death is one of its attempt's.
LEMMA RecordsHolds ==
  ASSUME Types, NEW t \in Tasks, TaskHolds(t), NEW kind \in Kinds, Records(t, kind)
  PROVE  /\ task' \in [Tasks -> TaskRecords] /\ TaskHolds(t)'
         /\ Attempts(t)' = Attempts(t) /\ Status(t)' = Status(t) /\ Status(t) # "READY"
         /\ Count(t, Attempts(t) - 1)' = Count(t, Attempts(t) - 1)
         /\ torn' = [u \in Tasks |-> torn'[u]]
         /\ \A u \in Tasks \ {t} : task'[u] = task[u] /\ torn'[u] = torn[u]
<1> DEFINE v == WithRecord(t, kind)
           n == Attempts(t)
<1>1. /\ n \in Nat /\ n >= 1 /\ Status(t) # "READY" /\ Archivable(task[t], kind)
      /\ \A k \in Closed(t, n) : Archivable(task[t], k)
      /\ \A a \in 1 .. n - 1 : OneRecord(t, a)
      /\ task[t].phase # "none" <=> Status(t) = "RUNNING"
      /\ task[t].phase = "working" => task[t].output = "none"
  BY TaskParts DEF TaskHolds, Records
<1>2. /\ v \in TaskRecords
      /\ v.status = Status(t) /\ v.phase = task[t].phase /\ v.output = task[t].output
      /\ v.official = task[t].official /\ v.verdict = task[t].verdict
      /\ Len(v.runs) = n
      /\ \A a \in 1 .. n - 1 : v.runs[a] = task[t].runs[a]
      /\ v.runs[n].closed = Closed(t, n) \cup {kind}
  BY <1>1, RecordIs
<1>3. PICK reason :
        SetTask(t, v) /\ torn' = [torn EXCEPT ![t] = @ \cup {[kind |-> kind, reason |-> reason]}]
  BY DEF Records
<1> HIDE DEF v
<1>4. /\ task'[t] = v /\ task' \in [Tasks -> TaskRecords]
      /\ \A u \in Tasks \ {t} : task'[u] = task[u]
  BY <1>2, <1>3 DEF SetTask, Types
<1>5. /\ torn' = [u \in Tasks |-> torn'[u]] /\ \A u \in Tasks \ {t} : torn'[u] = torn[u]
      /\ torn'[t] # {}
  <2>1. torn = [u \in Tasks |-> torn[u]]
    BY DEF Types
  <2> QED
    BY <1>3, <2>1
<1>6. Attempts(t)' = n /\ Status(t)' = Status(t)
  BY <1>2, <1>4 DEF Attempts, Status
<1>7. FailuresOf(v.runs, n - 1) = FailuresOf(task[t].runs, n - 1)
  <2>1. n - 1 \in Nat /\ \A a \in 1 .. n - 1 : v.runs[a].closed = task[t].runs[a].closed
    BY <1>1, <1>2
  <2> QED
    BY <2>1, CountsAlike
<1>8. TaskHolds(t)'
  <2>1. \A a \in 1 .. n - 1 : OneRecord(t, a)'
    BY <1>1, <1>2, <1>4 DEF OneRecord, Closed
  <2>2. Closed(t, n)' = Closed(t, n) \cup {kind}
    BY <1>2, <1>4, <1>6 DEF Closed
  <2>3. \A k : Archivable(v, k) <=> Archivable(task[t], k)
    BY <1>2 DEF Archivable, Status
  <2>4. \A k \in Closed(t, n)' : Archivable(task'[t], k)
    BY <1>1, <1>4, <2>2, <2>3
  <2> QED
    BY <1>1, <1>2, <1>4, <1>5, <1>6, <2>1, <2>4 DEF TaskHolds
<1> QED
  BY <1>1, <1>4, <1>5, <1>6, <1>7, <1>8 DEF Count

LEMMA IsRecordedHolds ==
  ASSUME Types, NEW t \in Tasks, Holds(t), IsRecorded(t)
  PROVE  StateTypes' /\ Holds(t)' /\ Elsewhere(t)
<1>1. TaskHolds(t) /\ BudgetHolds(t) /\ GrantsHold(t) /\ gates' = gates
  BY DEF Holds, IsRecorded
<1>2. /\ task' \in [Tasks -> TaskRecords] /\ TaskHolds(t)'
      /\ Attempts(t)' = Attempts(t) /\ Status(t)' = Status(t)
      /\ Count(t, Attempts(t) - 1)' = Count(t, Attempts(t) - 1)
      /\ Status(t) = "READY" => task' = task
      /\ torn' = [u \in Tasks |-> torn'[u]]
      /\ \A u \in Tasks \ {t} : task'[u] = task[u] /\ torn'[u] = torn[u]
  <2>1. CASE UNCHANGED <<task, torn>>
    BY <1>1, <2>1, TaskStays DEF Count, Types
  <2>2. CASE \E kind \in Kinds : Records(t, kind)
    <3>1. PICK kind \in Kinds : Records(t, kind)
      BY <2>2
    <3> QED
      BY <1>1, <3>1, RecordsHolds
  <2> QED
    BY <2>1, <2>2 DEF IsRecorded
<1>3. /\ grants' \in [Tasks -> Seq(Nat)] /\ GrantsHold(t)' /\ Room(t)' = Room(t)
      /\ \A u \in Tasks \ {t} : grants'[u] = grants[u]
      /\ Waits(grants[t], Attempts(t)) => Waits(grants'[t], Attempts(t)')
  <2>1. CASE grants' = grants
    BY <1>1, <1>2, <2>1, GrantsStay DEF Room, Types
  <2>2. CASE Consumes(t)
    BY <1>1, <1>2, <2>2, ConsumeHolds DEF Room, Consumes
  <2> QED
    BY <2>1, <2>2 DEF IsRecorded
<1>4. BudgetHolds(t)'
  <2>1. CASE Status(t) = "READY"
    <3>1. Count(t, Attempts(t))' = Count(t, Attempts(t))
          /\ Rejected(task'[t].runs, Attempts(t)') = Rejected(task[t].runs, Attempts(t))
      BY <1>2, <2>1 DEF Count
    <3>2. MayLaunch(t) => MayLaunch(t)'
      BY <1>2, <1>3, <3>1 DEF MayLaunch
    <3> QED
      BY <1>1, <1>2, <1>3, <2>1, <3>1, <3>2 DEF BudgetHolds
  <2>2. CASE Status(t) # "READY"
    BY <1>1, <1>2, <1>3, <2>2 DEF BudgetHolds
  <2> QED
    BY <2>1, <2>2
<1>5. StateTypes' /\ Elsewhere(t)
  BY <1>1, <1>2, <1>3 DEF StateTypes, Elsewhere, Types
<1> QED
  BY <1>2, <1>3, <1>4, <1>5 DEF Holds

\* A grant is given only when none waits.
LEMMA IsGrantedHolds ==
  ASSUME Types, NEW t \in Tasks, Holds(t), IsGranted(t), torn' = torn
  PROVE  StateTypes' /\ Holds(t)' /\ Elsewhere(t)
<1> DEFINE r == grants[t]
           n == Attempts(t)
           s == Append(r, 0)
<1>1. task' = task /\ gates' = gates /\ grants' = [grants EXCEPT ![t] = s]
      /\ Decide(t).action = "REPAIR_EXHAUSTED"
  BY DEF IsGranted, Grant
<1>2. UnusedGrants(t) = {}
  BY <1>1, Decided DEF Holds
<1>3. r \in Seq(Nat) /\ n \in Nat /\ grants \in [Tasks -> Seq(Nat)]
  BY Sizes DEF Types
<1>4. /\ s \in Seq(Nat) /\ DOMAIN s = DOMAIN r \cup {Len(r) + 1} /\ s[Len(r) + 1] = 0
      /\ Len(r) + 1 \notin DOMAIN r /\ \A h \in DOMAIN r : s[h] = r[h]
  BY <1>3
<1> HIDE DEF s
<1>5. /\ grants'[t] = s /\ grants' \in [Tasks -> Seq(Nat)]
      /\ \A u \in Tasks \ {t} : grants'[u] = grants[u]
  BY <1>1, <1>3, <1>4
<1>6. Attempts(t)' = n /\ Status(t)' = Status(t) /\ TaskHolds(t)'
      /\ \A m \in Int : Count(t, m)' = Count(t, m)
  BY <1>1, TaskStays DEF Holds, Count
<1>7. \A h \in DOMAIN r : r[h] # 0 /\ ~(r[h] > n)
  BY <1>2 DEF UnusedGrants
<1>8. UnusedGrants(t)' = {Len(r) + 1}
  BY <1>4, <1>5, <1>6, <1>7 DEF UnusedGrants
<1>9. \A h, i \in DOMAIN s : s[h] = s[i] /\ s[h] # 0 => h = i
  BY <1>4 DEF Holds, GrantsHold
<1>10. GrantsHold(t)'
  BY <1>5, <1>8, <1>9 DEF GrantsHold
<1>11. Spent(s, n) = Spent(r, n) /\ (Waits(r, n) => Waits(s, n))
  BY <1>3, <1>4 DEF Spent, Waits
<1>12. Room(t)' = Room(t) /\ (MayLaunch(t) => MayLaunch(t)')
  BY <1>1, <1>3, <1>5, <1>6, <1>11 DEF Room, MayLaunch
<1>13. BudgetHolds(t)'
  BY <1>1, <1>3, <1>6, <1>12 DEF Holds, BudgetHolds
<1>14. StateTypes' /\ Elsewhere(t)
  BY <1>1, <1>5 DEF StateTypes, Elsewhere, Types
<1> QED
  BY <1>6, <1>10, <1>13, <1>14 DEF Holds

\* A launch spends the receipt that was written for it.
LEMMA IsLaunchedHolds ==
  ASSUME Types, NEW t \in Tasks, Holds(t), IsLaunched(t), Readable(t)
  PROVE  StateTypes' /\ Holds(t)' /\ Elsewhere(t)
<1> DEFINE r == task[t].runs
           n == Attempts(t)
           g == grants[t]
<1>1. PICK p \in Profiles :
        SetTask(t, [task[t] EXCEPT !.status = "RUNNING", !.phase = "working",
                      !.runs = Append(@, [profile |-> p, closed |-> {}])])
  BY DEF IsLaunched
<1> DEFINE x == [profile |-> p, closed |-> {}]
           s == Append(r, x)
           v == [task[t] EXCEPT !.status = "RUNNING", !.phase = "working", !.runs = s]
<1>2. grants' = grants /\ gates' = gates /\ Status(t) = "READY" /\ MayLaunch(t)
  BY DEF IsLaunched
<1>3. /\ task[t] \in TaskRecords /\ r \in Seq(Runs) /\ n = Len(r) /\ n \in Nat
      /\ task \in [Tasks -> TaskRecords] /\ g \in Seq(Nat)
  BY TaskParts DEF Types, Attempts
<1>4. x \in Runs /\ x.closed = {}
  BY DEF Runs
<1>5. /\ s \in Seq(Runs) /\ Len(s) = n + 1 /\ s[n + 1].closed = {}
      /\ \A a \in 1 .. n : s[a] = r[a]
  <2> HIDE DEF x
  <2> QED
    BY <1>3, <1>4
<1> HIDE DEF s
<1>6. /\ v \in TaskRecords /\ v.runs = s /\ v.status = "RUNNING" /\ v.phase = "working"
      /\ v.output = task[t].output
  BY <1>3, <1>5 DEF TaskRecords, Statuses, Phases
<1>7. task' = [task EXCEPT ![t] = v]
  BY <1>1 DEF SetTask, s
<1> HIDE DEF v
<1>8. /\ task'[t] = v /\ task' \in [Tasks -> TaskRecords]
      /\ \A u \in Tasks \ {t} : task'[u] = task[u]
  BY <1>3, <1>6, <1>7
<1>9. Attempts(t)' = n + 1 /\ Status(t)' = "RUNNING"
  BY <1>5, <1>6, <1>8 DEF Attempts, Status
<1>10. TaskHolds(t)'
  <2>1. \A a \in 1 .. n : \E k \in Kinds : s[a].closed = {k}
    BY <1>5 DEF Readable, OneRecord, Closed
  <2>2. \A a \in 1 .. n + 1 : a < n + 1 => a \in 1 .. n
    BY <1>3
  <2>3. task[t].output = "none"
    BY <1>2 DEF Holds, TaskHolds
  <2>4. \A a \in 1 .. n + 1 - 1 : OneRecord(t, a)'
    BY <1>3, <1>6, <1>8, <2>1 DEF OneRecord, Closed
  <2>5. Closed(t, Attempts(t))' = {}
    BY <1>5, <1>6, <1>8, <1>9 DEF Closed
  <2> QED
    BY <1>3, <1>6, <1>8, <1>9, <2>3, <2>4, <2>5 DEF TaskHolds
<1>11. Count(t, Attempts(t) - 1)' = Count(t, n)
  <2>1. FailuresOf(s, n) = FailuresOf(r, n)
    BY <1>3, <1>5, CountsAlike
  <2>2. (n + 1) - 1 = n
    BY <1>3
  <2> QED
    BY <1>6, <1>8, <1>9, <2>1, <2>2 DEF Count
<1>12. GrantsHold(t)'
  <2>1. UnusedGrants(t)' \subseteq UnusedGrants(t)
    BY <1>2, <1>3, <1>9 DEF UnusedGrants
  <2> QED
    BY <1>2, <2>1 DEF Holds, GrantsHold
<1>13. /\ Cardinality(Spent(g, n)) \in Nat /\ Cardinality(Spent(g, n + 1)) \in Nat
       /\ Cardinality(Spent(g, n)) <= Cardinality(Spent(g, n + 1))
       /\ Waits(g, n) => Cardinality(Spent(g, n)) + 1 <= Cardinality(Spent(g, n + 1))
  <2> DEFINE A == Spent(g, n)
             B == Spent(g, n + 1)
  <2>1. IsFiniteSet(A) /\ IsFiniteSet(B) /\ Cardinality(A) \in Nat /\ Cardinality(B) \in Nat
    <3>1. n \in Int /\ n + 1 \in Int
      BY <1>3
    <3> QED
      BY <1>3, <3>1, SpentFinite
  <2>2. A \in SUBSET B
    BY <1>3 DEF Spent
  <2>3. ASSUME Waits(g, n) PROVE A # B
    BY <1>3, <2>3 DEF Spent, Waits
  <2> HIDE DEF A, B
  <2>4. Cardinality(A) <= Cardinality(B) /\ (Cardinality(A) = Cardinality(B) => A = B)
    BY <2>1, <2>2, FS_Subset
  <2> QED
    BY <2>1, <2>3, <2>4 DEF A, B
<1>14. Room(t)' = gates[t] + Cardinality(Spent(g, n + 1))
  BY <1>2, <1>9 DEF Room
<1>15. Room(t) = gates[t] + Cardinality(Spent(g, n)) /\ gates[t] \in Nat
  BY DEF Room, Types
<1>16. Count(t, n) <= 2 + Room(t) /\ (Count(t, n) <= 1 + Room(t) \/ Waits(g, n)) /\ Count(t, n) \in Nat
  <2>1. n \in Int /\ Count(t, n) \in Nat
    <3>1. n \in Int
      BY <1>3
    <3>2. \A m \in Int : Count(t, m) \in Nat
      BY Sizes
    <3> QED
      BY <3>1, <3>2
  <2> QED
    BY <1>2, <2>1 DEF Holds, BudgetHolds, MayLaunch
<1>17. Count(t, n) <= 1 + Room(t)'
  BY <1>13, <1>14, <1>15, <1>16
<1>18. BudgetHolds(t)'
  BY <1>9, <1>11, <1>17 DEF BudgetHolds
<1>19. StateTypes' /\ Elsewhere(t)
  <2>1. torn' = [torn EXCEPT ![t] = {}] /\ torn = [u \in Tasks |-> torn[u]]
    BY DEF IsLaunched, Types
  <2>2. torn' = [u \in Tasks |-> torn'[u]] /\ \A u \in Tasks \ {t} : torn'[u] = torn[u]
    BY <2>1
  <2> QED
    BY <1>2, <1>8, <2>2 DEF StateTypes, Elsewhere, Types
<1> QED
  BY <1>10, <1>12, <1>18, <1>19 DEF Holds

--------------------------------------------------------------------------------
(* A step keeps the invariant if it keeps its parts.                       *)

Idle == UNCHANGED <<task, grants, gates>>

Moves(t) ==
  \/ IsRecorded(t)
  \/ IsLaunched(t) /\ Readable(t)
  \/ /\ torn' = torn
     /\ \/ Works(t) \/ PassesGate(t) \/ Repairs(t) \/ IsGranted(t)
        \/ \E kind \in {"operational", "abandoned", "review"} : Reopens(t, kind)

\* The state of every task is kept whatever moves one of them.
LEMMA MovesHold ==
  ASSUME OrchestrationInv, (Idle /\ torn' = torn) \/ \E t \in Tasks : Moves(t)
  PROVE  StateTypes' /\ \A u \in Tasks : Holds(u)'
<1>1. Types /\ \A u \in Tasks : Holds(u)
  BY DEF OrchestrationInv, Holds
<1>2. ASSUME NEW u \in Tasks, task'[u] = task[u], grants'[u] = grants[u], gates'[u] = gates[u],
             torn'[u] = torn[u]
      PROVE  Holds(u)'
  <2>1. Attempts(u)' = Attempts(u) /\ Status(u)' = Status(u) /\ TaskHolds(u)'
        /\ Rejected(task'[u].runs, Attempts(u)') = Rejected(task[u].runs, Attempts(u))
        /\ Count(u, Attempts(u))' = Count(u, Attempts(u))
        /\ Count(u, Attempts(u) - 1)' = Count(u, Attempts(u) - 1)
    BY <1>1, <1>2, TaskStays DEF Holds, Count
  <2>2. GrantsHold(u)' /\ Room(u)' = Room(u) /\ (MayLaunch(u)' <=> MayLaunch(u))
    BY <1>1, <1>2, <2>1, GrantsStay DEF Holds, Room, MayLaunch
  <2>3. BudgetHolds(u)'
    BY <1>1, <2>1, <2>2 DEF Holds, BudgetHolds
  <2> QED
    BY <2>1, <2>2, <2>3 DEF Holds
<1>3. CASE Idle /\ torn' = torn
  BY <1>1, <1>2, <1>3 DEF Idle, StateTypes, Types
<1>4. ASSUME NEW t \in Tasks, Moves(t) PROVE StateTypes' /\ \A u \in Tasks : Holds(u)'
  <2>1. StateTypes' /\ Holds(t)' /\ Elsewhere(t)
    BY <1>1, <1>4, WorksHolds, PassesGateHolds, RepairsHolds, IsRecordedHolds, IsGrantedHolds,
       IsLaunchedHolds, ReopensHolds DEF Moves
  <2>2. \A u \in Tasks : u # t => Holds(u)'
    BY <1>2, <2>1 DEF Elsewhere
  <2> QED
    BY <2>1, <2>2
<1> QED
  BY <1>3, <1>4

LEMMA Assembled ==
  ASSUME OrchestrationInv, (Idle /\ torn' = torn) \/ \E t \in Tasks : Moves(t),
         asked' \in [Tasks -> BOOLEAN], died' \in BOOLEAN, faults' \in Nat,
         RunTypes', ControlHolds', ReviewHolds'
  PROVE  OrchestrationInv'
<1>1. StateTypes' /\ \A u \in Tasks : Holds(u)'
  BY MovesHold
<1>2. Types'
  BY <1>1 DEF StateTypes, Types
<1> QED
  BY <1>1, <1>2 DEF OrchestrationInv, Holds

\* Unless a worker or its close is under way, no attempt waits to be reviewed: a
\* step that starts none and passes none is none of the review's concern.
LEMMA ReviewStays ==
  ASSUME ReviewHolds, run.at \notin {"wait", "close"},
         asked' = asked, died' = died,
         \A t \in Tasks :
           \/ task'[t] = task[t]
           \/ /\ Status(t)' = Status(t) /\ task'[t].phase = task[t].phase
              /\ task'[t].output = task[t].output /\ task'[t].verdict = task[t].verdict
           \/ /\ Status(t)' = "PASS" => task'[t].verdict = "ACCEPT"
              /\ task'[t].phase \notin {"working", "finalizing"}
  PROVE  ReviewHolds'
  BY DEF ReviewHolds, At, Status

\* An invocation that is over, also one that has just begun, relies on nothing.
LEMMA OffIs ==
  /\ DOMAIN Off = RunFields
  /\ Off.at = "off" /\ Off.by \in Profiles /\ Off.profile \in Profiles /\ Off.pin = NoProfile
  /\ Off.needs \in [Tasks -> BOOLEAN]
  /\ Off.escalated \in [Tasks -> Profiles \cup {NoProfile}]
<1>1. 1 \in Profiles
  BY PolicyAssumption DEF Profiles
<1>2. /\ NewMemory.needs \in [Tasks -> BOOLEAN]
      /\ NewMemory.escalated \in [Tasks -> Profiles \cup {NoProfile}]
  BY DEF NewMemory
<1>3. DOMAIN Off = RunFields
  BY DEF Off, RunFields
<1>4. /\ Off.at = "off" /\ Off.by = 1 /\ Off.profile = 1 /\ Off.pin = NoProfile
      /\ Off.needs = NewMemory.needs /\ Off.escalated = NewMemory.escalated
  BY DEF Off
<1> QED
  BY <1>1, <1>2, <1>3, <1>4

LEMMA OffHolds ==
  ASSUME run' = Off
  PROVE  RunTypes' /\ ControlHolds' /\ run'.at = "off"
<1>1. RunTypes' /\ run'.at = "off"
  BY OffIs DEF RunTypes
<1> QED
  BY <1>1 DEF ControlHolds

LEMMA StopHolds ==
  ASSUME NEW why, Stop(why)
  PROVE  RunTypes' /\ ControlHolds' /\ run'.at = "off"
<1>1. RunTypes' /\ run'.at = "off"
  BY OffIs DEF RunTypes, Stop, RunFields
<1> QED
  BY <1>1 DEF ControlHolds

\* A step that changes where the invocation is, and nothing with a type.
SameMemory ==
  /\ DOMAIN run' = RunFields /\ run'.by = run.by /\ run'.profile = run.profile
  /\ run'.pin = run.pin /\ run'.escalated = run.escalated /\ run'.needs = run.needs

Restful == {"off", "infra", "preflight", "ready", "top", "subject", "limit"}
Ending  == {"resumed", "settle", "after", "closed", "repair", "exhausted"}

LEMMA GoesHolds ==
  ASSUME RunTypes, SameMemory,
         run'.at \in Restful \/ (run'.at \in Ending /\ run'.subject \in Tasks),
         (run.at = "settle" => Unrecorded(run.subject))'
  PROVE  RunTypes' /\ ControlHolds'
<1>1. RunTypes'
  BY DEF RunTypes, SameMemory
<1> QED
  BY <1>1 DEF ControlHolds, Restful, Ending

\* A record of a task is written whole, and is that of its end unless it is archived.
LEMMA ArchivedQuiet ==
  ASSUME Types, NEW t \in Tasks, TaskHolds(t), Status(t) # "READY", NEW kind \in Kinds,
         SetTask(t, Archived(t, kind))
  PROVE  \A u \in Tasks :
           task'[u] = task[u] \/ (Status(u)' = "READY" /\ task'[u].phase = "none")
<1>1. Attempts(t) >= 1
  BY DEF TaskHolds
<1>2. Archived(t, kind).status = "READY" /\ Archived(t, kind).phase = "none"
  BY <1>1, ArchivedIs
<1>3. task' = [task EXCEPT ![t] = Archived(t, kind)] /\ task \in [Tasks -> TaskRecords]
  BY DEF SetTask, Types
<1> QED
  BY <1>2, <1>3 DEF Status

\* A step at rest: the tasks stay, the memory may end.
LEMMA IdleHolds ==
  ASSUME OrchestrationInv, Idle, UNCHANGED <<asked, outside>>, run.at \notin {"wait", "close"},
         RunTypes', ControlHolds'
  PROVE  OrchestrationInv'
<1>1. ReviewHolds'
  BY ReviewStays DEF OrchestrationInv, Idle, outside
<1>2. torn' = torn
  BY DEF outside
<1> QED
  BY <1>1, <1>2, Assembled DEF OrchestrationInv, Types, outside

\* An archival writes what it came for, or refuses.
LEMMA ArchiveIs ==
  ASSUME NEW t, NEW kind, NEW reason, Archive(t, kind, reason)
  PROVE  SetTask(t, Archived(t, kind)) \/ task' = task
  BY DEF Archive

\* A step that archives an attempt or leaves its task alone.
LEMMA ReopeningHolds ==
  ASSUME OrchestrationInv, NEW t \in Tasks, NEW kind \in {"operational", "abandoned", "review"},
         Reopens(t, kind), UNCHANGED <<asked, outside>>, run.at \notin {"wait", "close"},
         RunTypes', ControlHolds'
  PROVE  OrchestrationInv'
<1>1. Types /\ TaskHolds(t) /\ Status(t) # "READY" /\ SetTask(t, Archived(t, kind)) /\ kind \in Kinds
  BY DEF OrchestrationInv, Reopens, Kinds
<1>2. ReviewHolds'
  BY <1>1, ArchivedQuiet, ReviewStays DEF OrchestrationInv, outside
<1> QED
  BY <1>1, <1>2, Assembled DEF OrchestrationInv, Types, outside, Moves

\* A step that consults the policy and applies its decision.
LEMMA RepairingHolds ==
  ASSUME OrchestrationInv, NEW t \in Tasks, Repairs(t),
         UNCHANGED <<asked, outside>>, run.at \notin {"wait", "close"},
         RunTypes', ControlHolds'
  PROVE  OrchestrationInv'
<1>1. Types /\ TaskHolds(t) /\ Holds(t)
  BY DEF OrchestrationInv, Holds
<1>2. \/ task' = task
      \/ FailedSourceLoads(t) /\ SetTask(t, Archived(t, "validation"))
  BY DEF Repairs, Reconcile, RetriesFailed
<1>3. \A u \in Tasks : task'[u] = task[u] \/ (Status(u)' = "READY" /\ task'[u].phase = "none")
  BY <1>1, <1>2, ArchivedQuiet DEF FailedSourceLoads, Kinds
<1>4. ReviewHolds'
  BY <1>3, ReviewStays DEF OrchestrationInv, outside
<1> QED
  BY <1>4, Assembled DEF OrchestrationInv, Types, outside, Moves

--------------------------------------------------------------------------------
(* Starting, resuming and the preflight.                                   *)

\* The state is read, and stopping says why whatever asks for it.
LEMMA StopsAre ==
  ASSUME NEW why, StopConsulting(why) \/ PreflightStop(why)
  PROVE  RunTypes' /\ ControlHolds' /\ run'.at = "off"
<1>1. PICK other : Stop(other)
  BY DEF StopConsulting, PreflightStop
<1> QED
  BY <1>1, StopHolds

LEMMA Pending ==
  ASSUME Types
  PROVE  /\ PendingCandidates \subseteq Tasks /\ PendingClose \subseteq Tasks
         /\ Selected \subseteq Tasks /\ RepairSubject \subseteq Tasks
         /\ \A ss : InState(ss) \subseteq Tasks
         /\ \A t \in Selected : Status(t) = "READY"
         /\ \A t \in RepairSubject : Status(t) \in {"READY", "FAIL"}
<1>1. PendingCandidates \subseteq Tasks /\ PendingClose \subseteq Tasks
      /\ \A ss : InState(ss) \subseteq Tasks
  BY DEF PendingCandidates, PendingClose, InState
<1>2. Selectable \subseteq Tasks /\ \A t \in Selectable : Status(t) = "READY"
  BY DEF Selectable, InState
<1>3. Selected # {} => Selectable # {}
  BY DEF Selected, Selection
<1>4. Selected \subseteq Selectable
  BY <1>2, <1>3, MinTask DEF Selected
<1>5. \A t \in RepairSubject : t \in InState({"FAIL"}) \/ t \in Selected
  BY <1>1, MinTask DEF RepairSubject
<1> QED
  BY <1>1, <1>2, <1>4, <1>5 DEF InState

LEMMA StartHolds ==
  ASSUME OrchestrationInv, Start
  PROVE  OrchestrationInv'
<1>1. PICK mode \in Modes :
        run' = [Off EXCEPT !.at = FirstStage(mode.plane), !.plane = mode.plane,
                  !.routine = mode.routine, !.skip = mode.skip,
                  !.profile = mode.profile, !.limit = mode.limit]
  BY DEF Start
<1>2. mode.profile \in Profiles
  BY OrchestrationAssumption
<1>3. RunTypes' /\ run'.at = FirstStage(mode.plane)
  BY <1>1, <1>2, OffIs DEF RunTypes, RunFields
<1>4. Idle /\ UNCHANGED <<asked, outside>> /\ run.at = "off"
  BY DEF Start, Idle, At
<1>5. PendingCandidates' = PendingCandidates /\ PendingClose' = PendingClose
  BY <1>4 DEF Idle, PendingCandidates, PendingClose, InState, Status
<1>6. ControlHolds'
  BY <1>3, <1>5 DEF ControlHolds, FirstStage
<1> QED
  BY <1>3, <1>4, <1>6, IdleHolds

LEMMA ReconcileRejectionHolds ==
  ASSUME OrchestrationInv, ReconcileRejection
  PROVE  OrchestrationInv'
<1> DEFINE t == Min(PendingCandidates)
<1>1. run.at = "reconcile" /\ UNCHANGED <<grants, gates, asked, outside>>
  BY DEF ReconcileRejection, At
<1>2. Types /\ RunTypes /\ ControlHolds /\ DOMAIN run = RunFields
  BY DEF OrchestrationInv, Types, RunTypes
<1>3. t \in PendingCandidates /\ t \in Tasks /\ Status(t) = "RUNNING" /\ task[t].phase = "candidate"
  <2>1. PendingCandidates # {} /\ PendingCandidates \subseteq Tasks
    BY <1>1, <1>2, Pending DEF ControlHolds
  <2>2. t \in PendingCandidates
    BY <2>1, MinTask
  <2> QED
    BY <2>1, <2>2 DEF PendingCandidates
<1>r. RejectedForDefect # {} => task[t].verdict = "DEFECT"
  BY DEF RejectedForDefect, ReopensRejected
<1> HIDE DEF t
<1>4. CASE SetTask(t, Archived(t, "review")) /\ RejectedForDefect # {} /\ Goto("infra")
  <2>1. Reopens(t, "review")
    BY <1>1, <1>3, <1>4, <1>r DEF Reopens, Archivable
  <2>2. RunTypes' /\ ControlHolds'
    BY <1>2, <1>4, GoesHolds DEF SameMemory, Goto, RunFields, Restful
  <2> QED
    BY <1>1, <1>3, <2>1, <2>2, ReopeningHolds
<1>5. CASE task' = task /\ Stop(Human)
  BY <1>1, <1>5, StopHolds, IdleHolds DEF Idle
<1>7. CASE task' = task /\ Goto("infra")
  <2>1. RunTypes' /\ ControlHolds'
    BY <1>2, <1>7, GoesHolds DEF SameMemory, Goto, RunFields, Restful
  <2> QED
    BY <1>1, <1>7, <2>1, IdleHolds DEF Idle
<1>6. CASE task' = task /\ run' = [run EXCEPT !.at = "review", !.subject = t, !.relaunch = "resume"]
  <2>1. SameMemory /\ run'.at = "review" /\ run'.subject = t /\ run'.relaunch = "resume"
    BY <1>2, <1>6 DEF SameMemory, RunFields
  <2>2. RunTypes'
    BY <1>2, <2>1 DEF RunTypes, SameMemory
  <2>3. ControlHolds'
    BY <1>3, <1>6, <2>1 DEF ControlHolds, Status
  <2> QED
    BY <1>1, <1>6, <2>2, <2>3, IdleHolds DEF Idle
<1>8. CASE RejectedForDefect # {}
  <2>1. Archive(t, "review", Rejection) /\ Goto("infra")
    BY <1>8 DEF ReconcileRejection, t
  <2> QED
    BY <1>4, <1>7, <1>8, <2>1, ArchiveIs
<1>9. CASE RejectedForDefect = {}
  BY <1>5, <1>6, <1>9 DEF ReconcileRejection, t
<1> QED
  BY <1>8, <1>9

LEMMA ResumeFinalizationHolds ==
  ASSUME OrchestrationInv, ResumeFinalization
  PROVE  OrchestrationInv'
<1> DEFINE t == Min(PendingClose)
<1>1. run.at = "finalize" /\ Idle /\ UNCHANGED <<asked, outside>>
      /\ run' = [run EXCEPT !.at = "close", !.subject = t, !.relaunch = "resume"]
  BY DEF ResumeFinalization, At, Idle
<1>2. Types /\ RunTypes /\ ControlHolds /\ DOMAIN run = RunFields
  BY DEF OrchestrationInv, Types, RunTypes
<1>3. t \in Tasks /\ Status(t) = "RUNNING" /\ task[t].phase \in {"finalizing", "candidate"}
  <2>1. PendingClose # {} /\ PendingClose \subseteq Tasks
    BY <1>1, <1>2, Pending DEF ControlHolds
  <2>2. t \in PendingClose
    BY <2>1, MinTask
  <2> QED
    BY <2>1, <2>2 DEF PendingClose, InState
<1> HIDE DEF t
<1>4. SameMemory /\ run'.at = "close" /\ run'.subject = t /\ run'.relaunch = "resume"
  BY <1>1, <1>2 DEF SameMemory, RunFields
<1>5. RunTypes'
  BY <1>2, <1>4 DEF RunTypes, SameMemory
<1>6. ControlHolds'
  BY <1>1, <1>3, <1>4 DEF ControlHolds, Status, Idle
<1> QED
  BY <1>1, <1>5, <1>6, IdleHolds

\* A failure of the provider is that of an attempt that has not been closed.
LEMMA Proved ==
  ASSUME OrchestrationInv, NEW t \in Tasks, InfraProved(t)
  PROVE  /\ Status(t) \in {"RUNNING", "INFRA_ERROR"} /\ task[t].output = "outage"
         /\ Archivable(task[t], "operational")
  BY DEF OrchestrationInv, TaskHolds, InfraProved, Archivable, Status

LEMMA ResumeInfraHolds ==
  ASSUME OrchestrationInv, ResumeInfra \/ Resumed
  PROVE  OrchestrationInv'
<1>1. /\ run.at \in {"infra", "resumed"} /\ UNCHANGED <<grants, gates, asked, outside>>
      /\ \/ task' = task
         \/ \E t \in Tasks : InfraProved(t) /\ SetTask(t, Archived(t, "operational"))
  <2>1. CASE ResumeInfra
    <3>1. run.at = "infra" /\ UNCHANGED <<grants, gates, asked, outside>>
      BY <2>1 DEF ResumeInfra, At
    <3>2. \/ task' = task
          \/ \E t \in ResumableInfra : Archive(t, "operational", Diagnostics)
      BY <2>1 DEF ResumeInfra
    <3>3. \A t \in ResumableInfra : t \in Tasks /\ InfraProved(t)
      BY DEF ResumableInfra
    <3> QED
      BY <3>1, <3>2, <3>3, ArchiveIs
  <2>2. CASE Resumed
    <3>1. run.at = "resumed" /\ UNCHANGED <<grants, gates, asked, outside>> /\ run.subject \in Tasks
      BY <2>2 DEF Resumed, At, OrchestrationInv, ControlHolds
    <3>2. \/ task' = task
          \/ ResumedToInfra /\ Archive(run.subject, "operational", PendingClosed)
      BY <2>2 DEF Resumed
    <3> QED
      BY <3>1, <3>2, ArchiveIs DEF ResumedToInfra
  <2> QED
    BY <2>1, <2>2
<1>2. Types /\ RunTypes /\ ControlHolds /\ DOMAIN run = RunFields
  BY DEF OrchestrationInv, Types, RunTypes
<1>3. SameMemory /\ run'.at \in Restful
  BY <1>2 DEF ResumeInfra, Resumed, Goto, SameMemory, RunFields, Restful
<1>4. RunTypes' /\ ControlHolds'
  <2>1. (run.at = "settle" => Unrecorded(run.subject))'
    BY <1>3 DEF Restful
  <2> QED
    BY <1>2, <1>3, <2>1, GoesHolds
<1>5. ASSUME NEW t \in Tasks, InfraProved(t), SetTask(t, Archived(t, "operational"))
      PROVE  OrchestrationInv'
  <2>1. Reopens(t, "operational")
    BY <1>1, <1>5, Proved DEF Reopens
  <2> QED
    BY <1>1, <1>4, <2>1, ReopeningHolds
<1> QED
  BY <1>1, <1>4, <1>5, IdleHolds DEF Idle

\* A step of an attempt that neither its worker nor its close makes.
LEMMA WorkingHolds ==
  ASSUME OrchestrationInv, NEW t \in Tasks, Works(t),
         UNCHANGED <<asked, outside>>, run.at \notin {"wait", "close"},
         Status(t)' = "PASS" => task'[t].verdict = "ACCEPT",
         task'[t].phase \notin {"working", "finalizing"},
         RunTypes', ControlHolds'
  PROVE  OrchestrationInv'
<1>0. torn' = torn
  BY DEF outside
<1>1. \A u \in Tasks : u # t => task'[u] = task[u]
  BY <1>0, WorksHolds DEF OrchestrationInv, Holds, Elsewhere
<1>2. ReviewHolds'
  BY <1>1, ReviewStays DEF OrchestrationInv, outside
<1> QED
  BY <1>0, <1>2, Assembled DEF OrchestrationInv, Types, outside, Moves

\* A worker that is found dead leaves an infrastructure error.
LEMMA LostHolds ==
  ASSUME OrchestrationInv, NEW t \in Tasks, Status(t) = "RUNNING", task[t].phase = "working",
         SetTask(t, [task[t] EXCEPT !.status = "INFRA_ERROR", !.phase = "none"]),
         UNCHANGED <<grants, gates>>
  PROVE  Works(t) /\ Status(t)' = "INFRA_ERROR" /\ task'[t].phase = "none"
<1> DEFINE v == [task[t] EXCEPT !.status = "INFRA_ERROR", !.phase = "none"]
<1>1. task[t] \in TaskRecords /\ task \in [Tasks -> TaskRecords]
  BY DEF OrchestrationInv, Types
<1>2. /\ v \in TaskRecords /\ v.runs = task[t].runs /\ v.status = "INFRA_ERROR"
      /\ v.phase = "none"
  BY <1>1 DEF TaskRecords, Statuses, Phases
<1> HIDE DEF v
<1>3. task' = [task EXCEPT ![t] = v]
  BY DEF SetTask, v
<1>a. \A k \in Closed(t, Attempts(t)) : FALSE
  BY DEF OrchestrationInv, TaskHolds, Archivable, Status
<1>4. Works(t)
  BY <1>2, <1>3, <1>a DEF Works, SetTask
<1> QED
  BY <1>1, <1>2, <1>3, <1>4 DEF Status

LEMMA PreflightAttentionHolds ==
  ASSUME OrchestrationInv, PreflightAttention
  PROVE  OrchestrationInv'
<1>1. run.at = "preflight" /\ UNCHANGED <<grants, gates, asked, outside>>
  BY DEF PreflightAttention, At
<1>2. Types /\ RunTypes /\ DOMAIN run = RunFields
  BY DEF OrchestrationInv, Types, RunTypes
<1>3. PICK t \in Tasks : t = Min(InState({"RUNNING"})) /\ Status(t) = "RUNNING"
  <2>1. Min(InState({"RUNNING"})) \in InState({"RUNNING"})
    BY MinTask DEF PreflightAttention, InState
  <2> QED
    BY <2>1 DEF InState
<1>4. CASE /\ SetTask(t, [task[t] EXCEPT !.status = "INFRA_ERROR", !.phase = "none"])
           /\ task[t].phase = "working" /\ run' = run
  <2>1. Works(t) /\ Status(t)' = "INFRA_ERROR" /\ task'[t].phase = "none"
    BY <1>1, <1>3, <1>4, LostHolds
  <2>2. RunTypes' /\ ControlHolds'
    BY <1>1, <1>2, <1>4, GoesHolds DEF SameMemory, Restful
  <2> QED
    BY <1>1, <1>3, <2>1, <2>2, WorkingHolds
<1>5. CASE task' = task /\ PreflightStop("PREFLIGHT_BLOCKED")
  BY <1>1, <1>5, StopsAre, IdleHolds DEF Idle
<1> QED
  BY <1>3, <1>4, <1>5 DEF PreflightAttention

LEMMA PreflightRepairsHolds ==
  ASSUME OrchestrationInv, PreflightRepairs
  PROVE  OrchestrationInv'
<1>1. run.at = "preflight" /\ UNCHANGED <<gates, asked, outside>>
  BY DEF PreflightRepairs, At
<1>2. Types /\ RunTypes /\ DOMAIN run = RunFields
  BY DEF OrchestrationInv, Types, RunTypes
<1>3. PICK t \in RepairSubject :
        \/ StopConsulting("AUTOMATIC_REPAIR_PROFILE_MISMATCH") /\ UNCHANGED <<task, grants>>
        \/ /\ Reconcile(t, Decide(t), RetriesFailed(t, Policy))
           /\ \/ Goto("ready")
              \/ PreflightStop(HaltOf(ReconcileResult(Decide(t), RetriesFailed(t, Policy))))
  BY DEF PreflightRepairs, ConsultPolicy
<1>4. t \in Tasks
  BY <1>2, Pending
<1>5. RunTypes' /\ ControlHolds'
  <2>1. CASE Goto("ready")
    BY <1>2, <2>1, GoesHolds DEF SameMemory, Goto, RunFields, Restful
  <2> QED
    BY <1>3, <2>1, StopsAre
<1> QED
  BY <1>1, <1>3, <1>4, <1>5, IdleHolds, RepairingHolds DEF Idle, Repairs

LEMMA PreflightSelectsHolds ==
  ASSUME OrchestrationInv, PreflightSelects
  PROVE  OrchestrationInv'
<1>1. run.at \in {"preflight", "ready"} /\ Idle /\ UNCHANGED <<asked, outside>>
  BY DEF PreflightSelects, At, Idle
<1>2. Types /\ RunTypes /\ DOMAIN run = RunFields
  BY DEF OrchestrationInv, Types, RunTypes
<1>3. Goto("top") \/ Stop("ALL_DONE") \/ PreflightStop("PREFLIGHT_BLOCKED")
  BY DEF PreflightSelects
<1>4. CASE Goto("top")
  BY <1>1, <1>2, <1>4, GoesHolds, IdleHolds DEF SameMemory, Goto, RunFields, Restful
<1> QED
  BY <1>1, <1>3, <1>4, StopHolds, StopsAre, IdleHolds

--------------------------------------------------------------------------------
(* The loop up to the launch.                                              *)

LEMMA TopHolds ==
  ASSUME OrchestrationInv, Top
  PROVE  OrchestrationInv'
<1>1. run.at = "top" /\ Idle /\ UNCHANGED <<asked, outside>>
  BY DEF Top, At, Idle
<1>2. Types /\ RunTypes /\ DOMAIN run = RunFields
  BY DEF OrchestrationInv, Types, RunTypes
<1>3. /\ SameMemory /\ run'.at \in {"limit", "failed", "subject"}
      /\ run'.at = "failed" => InState({"FAIL"}) # {}
  BY <1>2 DEF Top, Goto, SameMemory, RunFields
<1>4. InState({"FAIL"})' = InState({"FAIL"})
  BY <1>1 DEF Idle, InState, Status
<1>5. RunTypes'
  BY <1>2, <1>3 DEF RunTypes, SameMemory
<1>6. ControlHolds'
  BY <1>3, <1>4 DEF ControlHolds
<1> QED
  BY <1>1, <1>5, <1>6, IdleHolds

LEMMA FailedAtTopHolds ==
  ASSUME OrchestrationInv, FailedAtTop
  PROVE  OrchestrationInv'
<1> DEFINE t == Min(InState({"FAIL"}))
           d == ReconcileResult(Decide(t), RetriesFailed(t, Policy))
<1>1. run.at = "failed" /\ UNCHANGED <<gates, asked, outside>>
  BY DEF FailedAtTop, At
<1>2. Types /\ RunTypes /\ DOMAIN run = RunFields
  BY DEF OrchestrationInv, Types, RunTypes
<1>3. t \in Tasks
  BY <1>1, MinTask DEF OrchestrationInv, ControlHolds, InState
<1>4. \/ StopConsulting("AUTOMATIC_REPAIR_PROFILE_MISMATCH") /\ UNCHANGED <<task, grants>>
      \/ /\ Reconcile(t, Decide(t), RetriesFailed(t, Policy))
         /\ \/ run' = [run EXCEPT !.at = "exhausted", !.subject = t, !.stop = HaltOf(d)]
            \/ Goto("subject")
            \/ Stop("FAIL")
  BY DEF FailedAtTop, ConsultPolicy
<1> HIDE DEF t, d
<1>5. RunTypes' /\ ControlHolds'
  <2>1. CASE run' = [run EXCEPT !.at = "exhausted", !.subject = t, !.stop = HaltOf(d)]
    BY <1>2, <1>3, <2>1, GoesHolds DEF SameMemory, RunFields, Ending
  <2>2. CASE Goto("subject")
    BY <1>2, <2>2, GoesHolds DEF SameMemory, Goto, RunFields, Restful
  <2> QED
    BY <1>4, <2>1, <2>2, StopsAre, StopHolds
<1> QED
  BY <1>1, <1>3, <1>4, <1>5, IdleHolds, RepairingHolds DEF Idle, Repairs

\* What blocks the policy has a name.
LEMMA BlockedSays ==
  ASSUME NEW t, Decide(t).action = "BLOCKED"
  PROVE  Decide(t).code # "none"
<1>1. \A n : WalkStatus(t, n) # "none"
  BY DEF WalkStatus
<1>2. DecideCore(t).action = "BLOCKED" => DecideCore(t).code # "none"
  <2>1. \A fs, b : FromFailures(t, fs, b).action # "BLOCKED"
    BY DEF FromFailures, Exhausted, NotApplicable, Allowed
  <2>2. FromUnarchivedFail(t).action = "BLOCKED" => FromUnarchivedFail(t).code # "none"
    BY <1>1 DEF FromUnarchivedFail, Exhausted, NotApplicable, Allowed, Blocked
  <2>3. FromFail(t).action = "BLOCKED" => FromFail(t).code # "none"
    BY <1>1, <2>1, <2>2 DEF FromFail, NotApplicable, Blocked
  <2>4. FromReady(t).action = "BLOCKED" => FromReady(t).code # "none"
    BY <1>1, <2>1 DEF FromReady, Exhausted, NotApplicable, Blocked
  <2> QED
    BY <2>3, <2>4 DEF DecideCore, NotApplicable
<1> QED
  BY <1>1, <1>2 DEF Decide, ApplyGrant, Blocked, Allowed

\* What comes of the decision on the repair of a task.
Outcome(t) == ReconcileResult(Decide(t), RetriesFailed(t, Policy))

\* A decision that stops nobody is a repair or nothing to repair.
LEMMA GoesOn ==
  ASSUME Types, NEW t \in Tasks, TaskHolds(t), HaltOf(Outcome(t)) = "none"
  PROVE  /\ Outcome(t) = Decide(t)
         /\ Decide(t).action \in {"REPAIR_ALLOWED", "NOT_APPLICABLE"}
         /\ Decide(t).action = "REPAIR_ALLOWED" =>
              Decide(t).profile \in Profiles /\ Status(t) \in {"READY", "FAIL"}
<1>1. Decide(t).action \in Actions
  BY Decided
<1>2. Outcome(t) = Decide(t)
  BY DEF Outcome, ReconcileResult, HaltOf, Blocked
<1>3. Decide(t).action \in {"REPAIR_ALLOWED", "NOT_APPLICABLE"}
  BY <1>1, <1>2, BlockedSays DEF HaltOf, Actions
<1> QED
  BY <1>2, <1>3, Decided DEF FirstRepair, FailedSourceLoads

\* What the policy lets go on may be launched: the attempt that comes next can fail
\* and still be within the bound of its task.
LEMMA RepairedMayLaunch ==
  ASSUME OrchestrationInv, NEW t \in Tasks, Repairs(t), torn' = torn,
         HaltOf(Outcome(t)) = "none",
         RunTypes', run'.at \in {"before", "launch"}, run'.subject = t
  PROVE  ControlHolds'
<1>1. Types /\ TaskHolds(t) /\ Holds(t)
  BY DEF OrchestrationInv, Holds
<1>2. Decide(t).action \in {"REPAIR_ALLOWED", "NOT_APPLICABLE"}
  BY <1>1, GoesOn
<1>3. Status(t)' = "READY" => MayLaunch(t)' /\ Readable(t)'
  BY <1>1, <1>2, RepairsHolds
<1> QED
  BY <1>3 DEF ControlHolds, MayLaunch, Status, Count, Room, Attempts, Spent, Waits,
              Readable, OneRecord, Closed

LEMMA SubjectHolds ==
  ASSUME OrchestrationInv, Subject
  PROVE  OrchestrationInv'
<1>1. run.at = "subject" /\ UNCHANGED <<gates, asked, outside>>
  BY DEF Subject, At
<1>2. Types /\ RunTypes /\ DOMAIN run = RunFields
  BY DEF OrchestrationInv, Types, RunTypes
<1>3. PICK t \in Selected :
        \/ StopConsulting("AUTOMATIC_REPAIR_PROFILE_MISMATCH") /\ UNCHANGED <<task, grants>>
        \/ /\ Reconcile(t, Decide(t), RetriesFailed(t, Policy))
           /\ HaltOf(Outcome(t)) # "none"
           /\ Stop(HaltOf(Outcome(t)))
        \/ /\ Reconcile(t, Decide(t), RetriesFailed(t, Policy))
           /\ HaltOf(Outcome(t)) = "none"
           /\ LET d == Outcome(t)
                  repairs == d.action = "REPAIR_ALLOWED"
              IN run' = [run EXCEPT !.at = IF run.plane THEN "before" ELSE "launch",
                                    !.subject = t, !.second = FALSE,
                                    !.pin = IF repairs THEN d.profile ELSE NoProfile,
                                    !.by = IF repairs THEN d.profile ELSE run.profile]
  BY DEF Subject, ConsultPolicy, Outcome
<1>4. t \in Tasks
  BY <1>2, Pending
<1>5. CASE StopConsulting("AUTOMATIC_REPAIR_PROFILE_MISMATCH") /\ UNCHANGED <<task, grants>>
  BY <1>1, <1>5, StopsAre, IdleHolds DEF Idle
<1>6. CASE Reconcile(t, Decide(t), RetriesFailed(t, Policy)) /\ Stop(HaltOf(Outcome(t)))
  BY <1>1, <1>4, <1>6, StopHolds, RepairingHolds DEF Repairs
<1>7. CASE /\ Reconcile(t, Decide(t), RetriesFailed(t, Policy))
           /\ HaltOf(Outcome(t)) = "none"
           /\ LET d == Outcome(t)
                  repairs == d.action = "REPAIR_ALLOWED"
              IN run' = [run EXCEPT !.at = IF run.plane THEN "before" ELSE "launch",
                                    !.subject = t, !.second = FALSE,
                                    !.pin = IF repairs THEN d.profile ELSE NoProfile,
                                    !.by = IF repairs THEN d.profile ELSE run.profile]
  <2> DEFINE d == Outcome(t)
  <2>1. d.action = "REPAIR_ALLOWED" => d.profile \in Profiles
    BY <1>2, <1>4, <1>7, GoesOn DEF OrchestrationInv
  <2> HIDE DEF d
  <2>2. run' = [run EXCEPT !.at = IF run.plane THEN "before" ELSE "launch",
                  !.subject = t, !.second = FALSE,
                  !.pin = IF d.action = "REPAIR_ALLOWED" THEN d.profile ELSE NoProfile,
                  !.by = IF d.action = "REPAIR_ALLOWED" THEN d.profile ELSE run.profile]
    BY <1>7 DEF d
  <2>3. RunTypes' /\ run'.at \in {"before", "launch"} /\ run'.subject = t
    BY <1>2, <2>1, <2>2 DEF RunTypes, RunFields
  <2>4. Repairs(t)
    BY <1>1, <1>7 DEF Repairs
  <2>5. ControlHolds'
    <3>1. torn' = torn
      BY <1>1 DEF outside
    <3> QED
      BY <1>4, <1>7, <2>3, <2>4, <3>1, RepairedMayLaunch
  <2> QED
    BY <1>1, <1>4, <2>3, <2>4, <2>5, RepairingHolds
<1> QED
  BY <1>3, <1>5, <1>6, <1>7

LEMMA BetweenTasksHolds ==
  ASSUME OrchestrationInv, NoSubject \/ BeforeRefuses \/ LimitReached
  PROVE  OrchestrationInv'
<1>1. /\ run.at \in {"subject", "before", "limit"} /\ Idle /\ UNCHANGED <<asked, outside>>
      /\ \E why : Stop(why)
  BY DEF NoSubject, BeforeRefuses, LimitReached, At, Idle
<1> QED
  BY <1>1, StopHolds, IdleHolds

\* The control plane routes the work unit to a profile, and remembers its review.
LEMMA BeforeWorkUnitHolds ==
  ASSUME OrchestrationInv, BeforeWorkUnit
  PROVE  OrchestrationInv'
<1> DEFINE t == run.subject
<1>1. run.at = "before" /\ Idle /\ UNCHANGED <<asked, outside>>
  BY DEF BeforeWorkUnit, At, Idle
<1>2. Types /\ RunTypes /\ ControlHolds /\ DOMAIN run = RunFields /\ t \in Tasks
  BY <1>1 DEF OrchestrationInv, Types, RunTypes, ControlHolds
<1>3. PICK spent \in SUBSET Profiles, asks \in {FALSE} \cup {run.subject \in MayReview} :
        IF Eligible(t, run.pin, spent) = {}
          THEN Stop(Technical)
          ELSE \E p \in Eligible(t, run.pin, spent) :
                 run' = [Assessed(t, asks) EXCEPT !.at = "launch", !.pin = NoProfile,
                                                  !.by = IF run.second THEN @ ELSE p]
  BY Zenon DEF BeforeWorkUnit
<1>4. CASE Stop(Technical)
  BY <1>1, <1>4, StopHolds, IdleHolds
<1>5. ASSUME NEW p \in Eligible(t, run.pin, spent),
             run' = [Assessed(t, asks) EXCEPT !.at = "launch", !.pin = NoProfile,
                                              !.by = IF run.second THEN @ ELSE p]
      PROVE  OrchestrationInv'
  <2> DEFINE asking == NeedsReview(t, asks)
             needs == [run.needs EXCEPT ![t] = asking]
             memory == [run EXCEPT !.refused = "none", !.needs = needs]
  <2>1. p \in Profiles
    <3>1. Pin(t, run.pin, spent) \in Profiles \cup {NoProfile}
      BY <1>2 DEF Pin, RunTypes
    <3> QED
      BY <3>1 DEF Eligible
  <2>2. asking \in BOOLEAN
    BY <1>3 DEF NeedsReview, UnansweredReject
  <2>3. needs \in [Tasks -> BOOLEAN]
    BY <1>2, <2>2 DEF RunTypes
  <2>4. Assessed(t, asks) = memory
    BY <1>2 DEF Assessed, RunTypes, RunFields
  <2> HIDE DEF needs
  <2>5. /\ DOMAIN memory = RunFields /\ memory.needs = needs /\ memory.by = run.by
        /\ memory.profile = run.profile /\ memory.escalated = run.escalated
        /\ memory.subject = run.subject
    BY <1>2 DEF RunFields
  <2> HIDE DEF memory
  <2>6. /\ RunTypes' /\ run'.at = "launch" /\ run'.subject = run.subject
    BY <1>2, <1>5, <2>1, <2>3, <2>4, <2>5 DEF RunTypes, RunFields
  <2>7. ControlHolds'
    BY <1>1, <1>2, <2>6 DEF ControlHolds, Idle, Status, MayLaunch, Count, Room, Attempts,
                            Readable, OneRecord, Closed
  <2> QED
    BY <1>1, <2>6, <2>7, IdleHolds
<1> QED
  BY <1>3, <1>4, <1>5

--------------------------------------------------------------------------------
(* An attempt, from its launch to its close.                               *)

LEMMA RefusedHolds ==
  ASSUME OrchestrationInv, LaunchRefused \/ RelaunchRefused \/ RetrySpent
  PROVE  OrchestrationInv'
<1>1. /\ run.at \in {"launch", "settle"} /\ Idle /\ UNCHANGED <<asked, outside>>
      /\ \E why : Stop(why)
  BY DEF LaunchRefused, RelaunchRefused, RetrySpent, At, Idle
<1> QED
  BY <1>1, StopHolds, IdleHolds

\* Records stay what they are while the runs of the task do.
LEMMA UnrecordedStays ==
  ASSUME NEW t, Unrecorded(t), task'[t].runs = task[t].runs
  PROVE  Unrecorded(t)'
  BY DEF Unrecorded, Closed, Attempts

\* The worker of a launch is in the hands of the process that made it.
LEMMA LaunchHolds ==
  ASSUME OrchestrationInv, Launch
  PROVE  OrchestrationInv'
<1>1. PICK t \in Tasks : t = run.subject
  BY DEF OrchestrationInv, ControlHolds, Launch, At
<1>2. /\ run.at = "launch" /\ Selected = {t} /\ UNCHANGED <<grants, gates, died, faults>>
      /\ torn' = [torn EXCEPT ![t] = {}]
      /\ SetTask(t, [task[t] EXCEPT !.status = "RUNNING", !.phase = "working",
                       !.runs = Append(@, [profile |-> run.by, closed |-> {}])])
      /\ asked' = [asked EXCEPT ![t] = run.needs[t]]
      /\ run' = [run EXCEPT !.at = "wait",
                            !.relaunched = @ + (IF run.relaunch = "none" THEN 0 ELSE 1)]
  BY <1>1 DEF Launch, At
<1>3. /\ Types /\ RunTypes /\ ControlHolds /\ ReviewHolds /\ DOMAIN run = RunFields
      /\ asked \in [Tasks -> BOOLEAN] /\ task \in [Tasks -> TaskRecords]
      /\ died \in BOOLEAN /\ faults \in Nat
  BY DEF OrchestrationInv, Types, RunTypes
<1>4. Status(t) = "READY" /\ MayLaunch(t) /\ Readable(t)
  BY <1>1, <1>2, <1>3, Pending DEF ControlHolds
<1>5. run.by \in Profiles /\ run.needs[t] \in BOOLEAN
  BY <1>3 DEF RunTypes
<1>6. IsLaunched(t)
  BY <1>2, <1>4, <1>5 DEF IsLaunched
<1>7. SameMemory /\ run'.at = "wait" /\ run'.subject = t
  BY <1>1, <1>2, <1>3 DEF SameMemory, RunFields
<1>8. RunTypes'
  BY <1>3, <1>7 DEF RunTypes, SameMemory
<1>9. /\ Status(t)' = "RUNNING" /\ task'[t].phase = "working" /\ Unrecorded(t)'
      /\ \A u \in Tasks \ {t} : task'[u] = task[u]
  <2> DEFINE x == [profile |-> run.by, closed |-> {}]
             s == Append(task[t].runs, x)
             v == [task[t] EXCEPT !.status = "RUNNING", !.phase = "working", !.runs = s]
  <2>0. x \in Runs /\ x.closed = {} /\ task[t].runs \in Seq(Runs)
    BY <1>3, <1>5, TaskParts DEF Runs
  <2>1. task' = [task EXCEPT ![t] = v]
    BY <1>2 DEF SetTask
  <2> HIDE DEF x
  <2>2. s[Len(s)].closed = {}
    BY <2>0
  <2> HIDE DEF s
  <2>3. v.status = "RUNNING" /\ v.phase = "working" /\ v.runs = s
    BY <1>3 DEF TaskRecords
  <2> HIDE DEF v
  <2>4. task'[t] = v /\ \A u \in Tasks \ {t} : task'[u] = task[u]
    BY <1>3, <2>1
  <2> QED
    BY <2>2, <2>3, <2>4 DEF Status, Unrecorded, Closed, Attempts
<1>10. ControlHolds'
  BY <1>7, <1>9 DEF ControlHolds, Status, Unrecorded, Closed, Attempts
<1>11. asked' \in [Tasks -> BOOLEAN] /\ asked'[t] = run.needs[t]
       /\ \A u \in Tasks \ {t} : asked'[u] = asked[u]
  BY <1>2, <1>3, <1>5
<1>12. ReviewHolds'
  <2>1. run'.needs = run.needs /\ died' = died
    BY <1>2, <1>7 DEF SameMemory
  <2> QED
    BY <1>2, <1>3, <1>7, <1>9, <1>11, <2>1 DEF ReviewHolds, At, Status
<1> QED
  BY <1>2, <1>3, <1>4, <1>6, <1>8, <1>10, <1>11, <1>12, Assembled DEF Moves

\* Of the attempts nobody but the process that asked for a review has in hand, its
\* subject is the only one that waits for its worker or its close.
LEMMA ReviewMoves ==
  ASSUME ReviewHolds, NEW t \in Tasks, run.subject = t, asked' = asked, died' = died,
         \A u \in Tasks : u # t => task'[u] = task[u],
         ~died /\ asked[t] =>
           /\ Status(t)' = "PASS" => task'[t].verdict = "ACCEPT"
           /\ task'[t].phase # "working"
           /\ task'[t].phase = "finalizing" /\ task'[t].output = "passes" =>
                run'.at = "close" /\ run'.subject = t /\ run'.needs[t]
  PROVE  ReviewHolds'
  BY DEF ReviewHolds, At, Status

LEMMA WorkerHolds ==
  ASSUME OrchestrationInv, WorkerFinishes \/ WorkerLost
  PROVE  OrchestrationInv'
<1>1. PICK t \in Tasks : t = run.subject
  BY DEF OrchestrationInv, ControlHolds, WorkerFinishes, WorkerLost, At
<1>2. run.at = "wait" /\ UNCHANGED <<grants, gates, asked, outside>>
  BY DEF WorkerFinishes, WorkerLost, At
<1>3. /\ Types /\ RunTypes /\ ControlHolds /\ ReviewHolds /\ DOMAIN run = RunFields
      /\ task \in [Tasks -> TaskRecords] /\ task[t] \in TaskRecords
      /\ Status(t) = "RUNNING" /\ task[t].phase = "working" /\ Unrecorded(t)
  BY <1>1, <1>2 DEF OrchestrationInv, Types, RunTypes, ControlHolds
<1>4. PICK v \in TaskRecords :
        /\ SetTask(t, v) /\ v.runs = task[t].runs
        /\ \/ /\ v.status = "RUNNING" /\ v.phase = "finalizing"
              /\ run' = [run EXCEPT !.at = "close"]
           \/ /\ v.status \in {"TIMED_OUT", "INFRA_ERROR"} /\ v.phase = "none"
              /\ \E end : run' = [run EXCEPT !.at = "settle", !.close = end]
  <2>1. CASE WorkerFinishes
    <3>1. PICK output \in OutputKinds :
            SetTask(t, [task[t] EXCEPT !.phase = "finalizing", !.output = output])
            /\ run' = [run EXCEPT !.at = "close"]
      BY <1>1, <2>1, OrchestrationAssumption DEF WorkerFinishes, Goto
    <3> DEFINE v == [task[t] EXCEPT !.phase = "finalizing", !.output = output]
    <3>2. /\ v \in TaskRecords /\ v.runs = task[t].runs
          /\ v.status = "RUNNING" /\ v.phase = "finalizing"
      BY <1>3 DEF TaskRecords, Phases, Status
    <3> QED
      BY <3>1, <3>2
  <2>2. CASE WorkerLost
    <3>1. PICK end \in {"TIMED_OUT", "INFRA_ERROR"}, output \in OutputKinds \cup {"none"} :
            /\ SetTask(t, [task[t] EXCEPT !.status = end, !.phase = "none", !.output = output])
            /\ run' = [run EXCEPT !.at = "settle", !.close = end]
      BY <1>1, <2>2 DEF WorkerLost, OutputKinds
    <3> DEFINE v == [task[t] EXCEPT !.status = end, !.phase = "none", !.output = output]
    <3>2. /\ v \in TaskRecords /\ v.runs = task[t].runs
          /\ v.status = end /\ v.phase = "none"
      BY <1>3 DEF TaskRecords, Phases, Statuses
    <3> QED
      BY <3>1, <3>2
  <2> QED
    BY <2>1, <2>2
<1>5. /\ task'[t] = v /\ \A u \in Tasks : u # t => task'[u] = task[u]
  BY <1>3, <1>4 DEF SetTask
<1>6. Works(t) /\ Unrecorded(t)'
  <2>1. \A k \in Closed(t, Attempts(t)) : Archivable(v, k)
    BY <1>3 DEF Unrecorded
  <2> QED
    BY <1>2, <1>3, <1>4, <1>5, <2>1, UnrecordedStays DEF Works
<1>7. SameMemory /\ run'.at \in {"close", "settle"} /\ run'.subject = t
      /\ (run'.at = "close" => v.status = "RUNNING" /\ v.phase = "finalizing")
      /\ (v.phase = "finalizing" => run'.at = "close")
  BY <1>1, <1>3, <1>4 DEF SameMemory, RunFields
<1>8. RunTypes'
  BY <1>3, <1>7 DEF RunTypes, SameMemory
<1>9. ControlHolds'
  BY <1>5, <1>6, <1>7 DEF ControlHolds, Status, Unrecorded, Closed, Attempts
<1>10. ReviewHolds'
  <2>1. ~died /\ asked[t] => run.needs[t]
    BY <1>2, <1>3 DEF ReviewHolds
  <2>2. v.phase # "working" /\ v.status # "PASS" /\ run'.needs = run.needs
    BY <1>4, <1>7 DEF SameMemory
  <2> QED
    BY <1>1, <1>2, <1>3, <1>5, <1>7, <2>1, <2>2, ReviewMoves DEF outside, Status
<1> QED
  BY <1>2, <1>6, <1>8, <1>9, <1>10, Assembled DEF OrchestrationInv, Types, Moves, outside

\* A close passes only a task whose review nobody asked this process for.
LEMMA CloseHolds ==
  ASSUME OrchestrationInv, Close
  PROVE  OrchestrationInv'
<1>1. PICK t \in Tasks : t = run.subject
  BY DEF OrchestrationInv, ControlHolds, Close, At
<1>2. run.at = "close" /\ UNCHANGED <<grants, gates, asked, outside>>
  BY DEF Close, At
<1>3. /\ Types /\ RunTypes /\ ControlHolds /\ ReviewHolds /\ DOMAIN run = RunFields
      /\ task \in [Tasks -> TaskRecords] /\ task[t] \in TaskRecords
      /\ Status(t) = "RUNNING" /\ task[t].phase \in {"finalizing", "candidate"}
  BY <1>1, <1>2 DEF OrchestrationInv, Types, RunTypes, ControlHolds
<1> DEFINE kind == CloseKind(t)
<1>4. PICK next \in {"resumed", "settle"} :
        /\ next = "settle" => run.relaunch # "resume"
        /\ \/ /\ kind = "PASS"
              /\ SetTask(t, [task[t] EXCEPT !.status = "PASS", !.phase = "none"])
           \/ /\ kind = "FAIL"
              /\ SetTask(t, [task[t] EXCEPT !.status = "FAIL", !.phase = "none",
                               !.official = task[t].output = "fails"])
           \/ /\ kind = "prepare"
              /\ SetTask(t, [task[t] EXCEPT !.phase = "candidate", !.owed = TRUE])
           \/ kind \in {"candidate", "PENDING"} /\ UNCHANGED task
        /\ run' = [run EXCEPT
                     !.at = IF kind \in {"prepare", "candidate"} THEN "review" ELSE next,
                     !.close = IF kind \in {"PASS", "FAIL"} THEN kind ELSE "PENDING"]
  BY <1>1 DEF Close
<1>5. /\ kind = "PASS" => task[t].phase = "finalizing" /\ task[t].output = "passes" /\ ~run.needs[t]
      /\ kind = "FAIL" => task[t].phase = "finalizing" /\ task[t].output \in {"fails", "gaveUp"}
      /\ kind = "prepare" => task[t].phase = "finalizing" /\ task[t].output = "passes"
      /\ kind = "PENDING" => ~(task[t].phase = "finalizing" /\ task[t].output = "passes")
      /\ kind = "candidate" => task[t].phase = "candidate"
  BY <1>3 DEF CloseKind
<1>r. /\ \A k \in Closed(t, Attempts(t)) : Archivable(task[t], k)
      /\ task[t].phase = "finalizing" /\ task[t].output \in {"passes", "fails"} =>
           Closed(t, Attempts(t)) = {}
      /\ task[t].phase = "finalizing" /\ task[t].output = "gaveUp" =>
           \A k \in Closed(t, Attempts(t)) : k = "abandoned"
  <2>1. \A k \in Closed(t, Attempts(t)) : Archivable(task[t], k)
    BY <1>3 DEF OrchestrationInv, TaskHolds
  <2> QED
    BY <1>3, <2>1 DEF Archivable, Status
<1> HIDE DEF kind
<1>6. PICK v \in TaskRecords :
        /\ SetTask(t, v) /\ v.runs = task[t].runs /\ v.phase # "working"
        /\ \A k \in Closed(t, Attempts(t)) : Archivable(v, k)
        /\ \/ kind = "PASS" /\ v.status = "PASS" /\ v.phase = "none"
           \/ kind = "FAIL" /\ v.status = "FAIL" /\ v.phase = "none"
           \/ kind = "prepare" /\ v.status = "RUNNING" /\ v.phase = "candidate"
           \/ kind \in {"candidate", "PENDING"} /\ v = task[t]
  <2>1. CASE kind = "PASS"
    <3> DEFINE v == [task[t] EXCEPT !.status = "PASS", !.phase = "none"]
    <3>1. /\ v \in TaskRecords /\ v.runs = task[t].runs /\ v.status = "PASS" /\ v.phase = "none"
      BY <1>3 DEF TaskRecords, Phases, Statuses
    <3>2. SetTask(t, v)
      BY <1>4, <2>1
    <3> QED
      BY <1>5, <1>r, <2>1, <3>1, <3>2
  <2>2. CASE kind = "FAIL"
    <3> DEFINE v == [task[t] EXCEPT !.status = "FAIL", !.phase = "none",
                               !.official = task[t].output = "fails"]
    <3>1. /\ v \in TaskRecords /\ v.runs = task[t].runs /\ v.status = "FAIL" /\ v.phase = "none"
          /\ v.official = (task[t].output = "fails")
      BY <1>3 DEF TaskRecords, Phases, Statuses
    <3>2. SetTask(t, v)
      BY <1>4, <2>2
    <3>3. \A k \in Closed(t, Attempts(t)) : k = "abandoned" /\ task[t].output = "gaveUp"
      BY <1>5, <1>r, <2>2
    <3>4. \A k \in Closed(t, Attempts(t)) : Archivable(v, k)
      BY <3>1, <3>3 DEF Archivable
    <3> QED
      BY <2>2, <3>1, <3>2, <3>4
  <2>3. CASE kind = "prepare"
    <3> DEFINE v == [task[t] EXCEPT !.phase = "candidate", !.owed = TRUE]
    <3>1. /\ v \in TaskRecords /\ v.runs = task[t].runs /\ v.status = "RUNNING"
          /\ v.phase = "candidate"
      BY <1>3 DEF TaskRecords, Phases, Statuses, Status
    <3>2. SetTask(t, v)
      BY <1>4, <2>3
    <3> QED
      BY <1>5, <1>r, <2>3, <3>1, <3>2
  <2>4. CASE kind \in {"candidate", "PENDING"} /\ UNCHANGED task
    <3>1. SetTask(t, task[t])
      BY <1>3, <2>4 DEF SetTask
    <3> QED
      BY <1>3, <1>r, <2>4, <3>1
  <2> QED
    BY <1>4, <2>1, <2>2, <2>3, <2>4
<1>7. /\ task'[t] = v /\ \A u \in Tasks : u # t => task'[u] = task[u]
  BY <1>3, <1>6 DEF SetTask
<1>8. Works(t)
  BY <1>2, <1>3, <1>6 DEF Works, Status
<1>9. /\ SameMemory /\ run'.subject = t /\ run'.relaunch = run.relaunch
      /\ run'.at = IF kind \in {"prepare", "candidate"} THEN "review" ELSE next
  BY <1>1, <1>3, <1>4 DEF SameMemory, RunFields
<1>10. RunTypes'
  BY <1>3, <1>9 DEF RunTypes, SameMemory
<1>11. ControlHolds'
  <2>1. run'.at \in {"review", "resumed", "settle"}
    BY <1>9
  <2>2. run'.at = "review" => Status(t)' = "RUNNING" /\ task'[t].phase = "candidate"
    BY <1>3, <1>5, <1>6, <1>7, <1>9 DEF Status
  <2>3. run.relaunch # "resume" => Unrecorded(t)'
    <3>1. run.relaunch # "resume" => Unrecorded(t)
      BY <1>1, <1>2, <1>3 DEF ControlHolds
    <3> QED
      BY <1>6, <1>7, <3>1, UnrecordedStays
  <2>4. run'.at = "settle" => run.relaunch # "resume"
    BY <1>4, <1>9
  <2> QED
    BY <1>9, <2>1, <2>2, <2>3, <2>4 DEF ControlHolds, Status, Unrecorded, Closed, Attempts
<1>12. ReviewHolds'
  <2>1. ~died /\ asked[t] /\ task[t].phase = "finalizing" /\ task[t].output = "passes" =>
          run.needs[t]
    BY <1>3 DEF ReviewHolds
  <2>2. ~died /\ asked[t] => kind # "PASS"
    BY <1>5, <2>1
  <2>3. ~(v.phase = "finalizing" /\ v.output = "passes")
    BY <1>5, <1>6
  <2>4. v.status = "PASS" => kind = "PASS"
    BY <1>3, <1>6 DEF Status
  <2> QED
    BY <1>1, <1>2, <1>3, <1>6, <1>7, <2>2, <2>3, <2>4, ReviewMoves DEF outside, Status
<1> QED
  BY <1>2, <1>8, <1>10, <1>11, <1>12, Assembled DEF OrchestrationInv, Types, Moves, outside

--------------------------------------------------------------------------------
(* The review of a candidate, and what follows a close.                    *)

\* Only the rejection of a candidate is recorded while it waits.
LEMMA CandidateUnrecorded ==
  ASSUME OrchestrationInv, NEW t \in Tasks, Status(t) = "RUNNING", task[t].phase = "candidate",
         task[t].verdict # "DEFECT"
  PROVE  Unrecorded(t)
  BY DEF OrchestrationInv, TaskHolds, Archivable, Unrecorded, Status

\* A verdict is written and a candidate promoted while it waits for its review.
LEMMA ReviewedHolds ==
  ASSUME OrchestrationInv, Review \/ Promote
  PROVE  OrchestrationInv'
<1>1. PICK t \in Tasks : t = run.subject
  BY DEF OrchestrationInv, ControlHolds, Review, Promote, At
<1>2. run.at = "review" /\ UNCHANGED <<grants, gates, asked, outside>>
  BY DEF Review, Promote, At
<1>3. /\ Types /\ RunTypes /\ ControlHolds /\ DOMAIN run = RunFields
      /\ task \in [Tasks -> TaskRecords] /\ task[t] \in TaskRecords
      /\ Status(t) = "RUNNING" /\ task[t].phase = "candidate"
  BY <1>1, <1>2 DEF OrchestrationInv, Types, RunTypes, ControlHolds
<1>4. PICK v \in TaskRecords :
        /\ SetTask(t, v) /\ v.runs = task[t].runs
        /\ \/ v.status = "RUNNING" /\ v.phase = "candidate" /\ run' = run
           \/ /\ v.status = "PASS" /\ v.phase = "none" /\ v.verdict = "ACCEPT"
              /\ \E next \in {"resumed", "settle"} :
                   run' = [run EXCEPT !.close = "PASS", !.at = next]
  <2>1. CASE Review
    <3>1. PICK verdict \in Verdicts :
            SetTask(t, [task[t] EXCEPT !.verdict = verdict]) /\ run' = run
      BY <1>1, <2>1 DEF Review
    <3> DEFINE v == [task[t] EXCEPT !.verdict = verdict]
    <3>2. /\ v \in TaskRecords /\ v.runs = task[t].runs
          /\ v.status = "RUNNING" /\ v.phase = "candidate"
      BY <1>3 DEF TaskRecords, Status
    <3> QED
      BY <3>1, <3>2
  <2>2. CASE Promote
    <3> DEFINE v == [task[t] EXCEPT !.status = "PASS", !.phase = "none"]
    <3>1. /\ v \in TaskRecords /\ v.runs = task[t].runs
          /\ v.status = "PASS" /\ v.phase = "none" /\ v.verdict = "ACCEPT"
      BY <1>1, <1>3, <2>2 DEF TaskRecords, Phases, Statuses, Promote, Promotable
    <3>2. /\ SetTask(t, v)
          /\ \E next \in {"resumed", "settle"} : run' = [run EXCEPT !.close = "PASS", !.at = next]
      BY <1>1, <2>2 DEF Promote
    <3> QED
      BY <3>1, <3>2
  <2> QED
    BY <2>1, <2>2
<1>5. task'[t] = v
  BY <1>3, <1>4 DEF SetTask
<1>u. Unrecorded(t)
  <2>1. task[t].verdict # "DEFECT"
    BY <1>1 DEF Review, Promote, Promotable, NoVerdict
  <2> QED
    BY <1>3, <2>1, CandidateUnrecorded
<1>6. Works(t) /\ Unrecorded(t)'
  <2>1. \A k \in Closed(t, Attempts(t)) : Archivable(v, k)
    BY <1>u DEF Unrecorded
  <2> QED
    BY <1>2, <1>3, <1>4, <1>5, <1>u, <2>1, UnrecordedStays DEF Works
<1>7. /\ SameMemory /\ run'.subject = t /\ run'.at \in {"review", "resumed", "settle"}
      /\ run'.at = "review" => v.status = "RUNNING" /\ v.phase = "candidate"
  BY <1>1, <1>2, <1>3, <1>4 DEF SameMemory, RunFields
<1>8. RunTypes'
  BY <1>3, <1>7 DEF RunTypes, SameMemory
<1>9. ControlHolds'
  BY <1>5, <1>6, <1>7 DEF ControlHolds, Status, Unrecorded, Closed, Attempts
<1> QED
  BY <1>2, <1>4, <1>5, <1>6, <1>8, <1>9, WorkingHolds DEF Status

\* Nothing but the memory of the invocation says how a review ended without a verdict.
LEMMA UnreviewedHolds ==
  ASSUME OrchestrationInv, ReviewUnavailable \/ ReviewNobody \/ Reject \/ Settled
  PROVE  OrchestrationInv'
<1>1. run.at \in {"review", "settle"} /\ Idle /\ UNCHANGED <<asked, outside>>
  BY DEF ReviewUnavailable, ReviewNobody, Reject, Settled, At, Idle
<1>2. Types /\ RunTypes /\ ControlHolds /\ DOMAIN run = RunFields /\ run.subject \in Tasks
  BY <1>1 DEF OrchestrationInv, Types, RunTypes, ControlHolds
<1>3. \/ \E why : Stop(why)
      \/ /\ SameMemory /\ run'.subject = run.subject
         /\ run'.at \in {"settle", "resumed", "after", "closed"}
         /\ run'.at = "settle" => run.at = "review" /\ run.relaunch # "resume"
  <2>1. CASE ReviewUnavailable
    BY <1>2, <2>1 DEF ReviewUnavailable, Refuse, SameMemory, RunFields, At
  <2>2. CASE ReviewNobody
    BY <1>2, <2>2 DEF ReviewNobody, Goto, SameMemory, RunFields, At
  <2>3. CASE Reject
    BY <1>2, <2>3 DEF Reject, OnVerdict, Refuse, SameMemory, RunFields, At
  <2>4. CASE Settled
    BY <1>2, <2>4 DEF Settled, SameMemory, RunFields
  <2> QED
    BY <2>1, <2>2, <2>3, <2>4
<1>4. CASE \E why : Stop(why)
  BY <1>1, <1>4, StopHolds, IdleHolds
<1>5. CASE ~\E why : Stop(why)
  <2>1. run.at = "review" /\ run.relaunch # "resume" => Unrecorded(run.subject)'
    <3>1. run.at = "review" /\ run.relaunch # "resume" => Unrecorded(run.subject)
      BY <1>2 DEF ControlHolds
    <3>2. \A t : Unrecorded(t) => Unrecorded(t)'
      BY <1>1, UnrecordedStays DEF Idle
    <3> QED
      BY <1>3, <1>5, <3>1, <3>2
  <2>2. (run.at = "settle" => Unrecorded(run.subject))'
    BY <1>3, <1>5, <2>1
  <2>3. RunTypes' /\ ControlHolds'
    BY <1>2, <1>3, <1>5, <2>2, GoesHolds DEF Ending
  <2> QED
    BY <1>1, <2>3, IdleHolds
<1> QED
  BY <1>4, <1>5

\* The retry of a recipe launches the attempt that was still due when it began.
LEMMA SettleHolds ==
  ASSUME OrchestrationInv, Settle
  PROVE  OrchestrationInv'
<1>1. PICK t \in Tasks : t = run.subject
  BY DEF OrchestrationInv, ControlHolds, Settle, At
<1>2. run.at = "settle" /\ UNCHANGED <<grants, gates, asked, outside>>
  BY DEF Settle, At
<1>3. Types /\ RunTypes /\ DOMAIN run = RunFields /\ Holds(t) /\ Unrecorded(t)
  BY <1>1, <1>2 DEF OrchestrationInv, Types, RunTypes, Holds, ControlHolds
<1> DEFINE kind == RecipeRecord(t)
<1>4. /\ kind # "none" /\ Archive(t, kind, Recipe)
      /\ \/ Stop(Technical)
         \/ \E how : run' = [run EXCEPT !.at = "launch", !.retries = 0, !.relaunch = how]
  BY <1>1 DEF Settle, SettlesByRecipe
<1>5. /\ kind \in {"operational", "abandoned"} /\ Status(t) \in {"RUNNING", "INFRA_ERROR"}
      /\ Archivable(task[t], kind)
  BY <1>4 DEF RecipeRecord, InfraProved, Archivable, Status
<1> HIDE DEF kind
<1>6. task' = task \/ Reopens(t, kind)
  BY <1>2, <1>4, <1>5, ArchiveIs DEF Reopens
<1>7. Status(t)' = "READY" => MayLaunch(t)' /\ Readable(t)'
  <2>1. CASE task' = task
    BY <1>5, <2>1 DEF Status
  <2>2. CASE Reopens(t, kind)
    <3>1. torn' = torn /\ Closed(t, Attempts(t)) = {}
      BY <1>2, <1>3 DEF outside, Unrecorded
    <3> QED
      BY <1>3, <1>5, <2>2, <3>1, ReopensHolds
  <2> QED
    BY <1>6, <2>1, <2>2
<1>8. RunTypes' /\ ControlHolds'
  <2>1. CASE Stop(Technical)
    BY <2>1, StopHolds
  <2>2. ASSUME NEW how, run' = [run EXCEPT !.at = "launch", !.retries = 0, !.relaunch = how]
        PROVE  RunTypes' /\ ControlHolds'
    <3>1. SameMemory /\ run'.at = "launch" /\ run'.subject = t
      BY <1>1, <1>3, <2>2 DEF SameMemory, RunFields
    <3>2. RunTypes'
      BY <1>3, <3>1 DEF RunTypes, SameMemory
    <3>3. ControlHolds'
      BY <1>7, <3>1 DEF ControlHolds, MayLaunch, Count, Room, Attempts, Status,
                        Readable, OneRecord, Closed
    <3> QED
      BY <3>2, <3>3
  <2> QED
    BY <1>4, <2>1, <2>2
<1> QED
  BY <1>2, <1>5, <1>6, <1>8, ReopeningHolds, IdleHolds DEF Idle

LEMMA AfterWorkUnitHolds ==
  ASSUME OrchestrationInv, AfterWorkUnit
  PROVE  OrchestrationInv'
<1>1. run.at = "after" /\ UNCHANGED <<grants, gates, asked, outside>>
  BY DEF AfterWorkUnit, At
<1>2. Types /\ RunTypes /\ DOMAIN run = RunFields /\ run.subject \in Tasks
  BY <1>1 DEF OrchestrationInv, Types, RunTypes, ControlHolds
<1>3. \/ task' = task /\ ((\E why : Stop(why)) \/ Goto("closed"))
      \/ \E t \in RejectedForDefect : Archive(t, "review", Rejection) /\ Goto("repair")
  BY DEF AfterWorkUnit, RejectedForDefect
<1>4. CASE task' = task /\ ((\E why : Stop(why)) \/ Goto("closed") \/ Goto("repair"))
  <2>1. Goto("closed") \/ Goto("repair") => RunTypes' /\ ControlHolds'
    BY <1>2, GoesHolds DEF Goto, SameMemory, RunFields, Ending
  <2> QED
    BY <1>1, <1>4, <2>1, StopHolds, IdleHolds DEF Idle
<1>5. ASSUME NEW t \in RejectedForDefect, SetTask(t, Archived(t, "review")), Goto("repair")
      PROVE  OrchestrationInv'
  <2>2. Reopens(t, "review") /\ t \in Tasks
    BY <1>1, <1>5 DEF Reopens, RejectedForDefect, ReopensRejected, PendingCandidates, Archivable
  <2>3. RunTypes' /\ ControlHolds'
    BY <1>2, <1>5, GoesHolds DEF Goto, SameMemory, RunFields, Ending
  <2> QED
    BY <1>1, <2>2, <2>3, ReopeningHolds
<1> QED
  BY <1>3, <1>4, <1>5, ArchiveIs

\* A cycle starts with nothing that the one before has routed.
LEMMA NextCycleIs ==
  ASSUME RunTypes
  PROVE  /\ DOMAIN NextCycle = RunFields /\ NextCycle.at = "top"
         /\ NextCycle.by \in Profiles /\ NextCycle.profile = run.profile
         /\ NextCycle.pin = NoProfile /\ NextCycle.prior = run.prior
         /\ NextCycle.escalated = run.escalated /\ NextCycle.needs = run.needs
<1>1. 1 \in Profiles
  BY PolicyAssumption DEF Profiles
<1> QED
  BY <1>1 DEF RunTypes, NextCycle, RunFields

LEMMA ClosingHolds ==
  ASSUME OrchestrationInv, Closing \/ RepairFailed
  PROVE  OrchestrationInv'
<1>1. run.at \in {"closed", "repair"} /\ Idle /\ UNCHANGED <<asked, outside>>
  BY DEF Closing, RepairFailed, At, Idle
<1>2. RunTypes /\ DOMAIN run = RunFields /\ run.subject \in Tasks
  BY <1>1 DEF OrchestrationInv, Types, RunTypes, ControlHolds
<1>3. \/ run' = NextCycle
      \/ Goto("repair")
      \/ \E why : Stop(why)
      \/ \E why : run' = [run EXCEPT !.at = "exhausted", !.stop = why]
  BY DEF Closing, RepairFailed
<1>4. CASE run' = NextCycle
  <2>1. RunTypes' /\ run'.at = "top"
    BY <1>2, <1>4, NextCycleIs DEF RunTypes
  <2>2. ControlHolds'
    BY <2>1 DEF ControlHolds
  <2> QED
    BY <1>1, <2>1, <2>2, IdleHolds
<1>5. CASE Goto("repair") \/ \E why : run' = [run EXCEPT !.at = "exhausted", !.stop = why]
  <2>1. SameMemory /\ run'.at \in {"repair", "exhausted"} /\ run'.subject = run.subject
    BY <1>2, <1>5 DEF Goto, SameMemory, RunFields
  <2>2. RunTypes' /\ ControlHolds'
    BY <1>2, <2>1, GoesHolds DEF Ending
  <2> QED
    BY <1>1, <2>2, IdleHolds
<1> QED
  BY <1>1, <1>3, <1>4, <1>5, StopHolds, IdleHolds

\* The ladder selects a step of its own.
LEMMA SelectedStep ==
  ASSUME NEW n \in Nat, NEW S \in SUBSET (1 .. n), S # {}
  PROVE  Ladder!Min(S) \in S
<1>1. Ladder!Min(S) = Min(S)
  BY DEF Ladder!Min, Min
<1>2. S \in SUBSET Nat
  OBVIOUS
<1> QED
  BY <1>1, <1>2, MinOf

\* Whoever an escalation authorizes is a profile of the ladder.
LEMMA EscalatesTo ==
  ASSUME NEW t, NEW spent, Escalation(t, spent).outcome = "ESCALATE"
  PROVE  Escalation(t, spent).to \in Profiles
<1> DEFINE ladder == [p \in Profiles |-> p]
           initial == RanBy(t, Attempts(t) - 1)
           current == Ladder!CurrentProfile(initial, run.prior)
           decision == Ladder!DecideEscalation(Diagnosis(t),
                         [initial |-> initial, repair |-> initial],
                         ladder, Catalog, LadderPolicy, run.prior,
                         FALSE, NoProfile, Preflights(spent))
           next == Ladder!NextStep(ladder, current, Catalog, LadderPolicy, NoProfile,
                     Preflights(spent))
<1>1. Escalation(t, spent) = decision /\ decision.outcome = "ESCALATE"
  BY DEF Escalation, Technical, Human
<1>2. decision = next /\ next.outcome = "ESCALATE"
  BY <1>1 DEF Ladder!DecideEscalation, Ladder!Technical, Ladder!Human
<1>3. \E i \in DOMAIN ladder : next = Ladder!Authorization(ladder, Catalog, current, i)
  <2>1. ladder \in Seq(Profiles) /\ Len(ladder) \in Nat /\ DOMAIN ladder = 1 .. Len(ladder)
    BY PolicyAssumption DEF Profiles
  <2> DEFINE Above == {i \in 1 .. Len(ladder) :
                        /\ Ladder!StepOf(ladder, ladder[i]) > Ladder!StepOf(ladder, current)
                        /\ Ladder!StepFate(ladder[Ladder!StepOf(ladder, ladder[i])], current,
                             Catalog, LadderPolicy, NoProfile, Preflights(spent)) # "discarded"}
             above == IF Above # {} THEN Ladder!Min(Above) ELSE 0
  <2>2. above # 0 => above \in DOMAIN ladder
    BY <2>1, SelectedStep
  <2>3. above # 0 /\ next = Ladder!Authorization(ladder, Catalog, current, above)
    <3> HIDE DEF ladder, current
    <3> QED
      BY <1>2 DEF Ladder!NextStep, Ladder!Human, Ladder!SelectInSeq
  <2> QED
    BY <2>2, <2>3
<1>4. \A i \in DOMAIN ladder : Ladder!Authorization(ladder, Catalog, current, i).to = ladder[i]
  BY DEF Ladder!Authorization
<1> QED
  BY <1>1, <1>2, <1>3, <1>4

LEMMA RepairInLoopHolds ==
  ASSUME OrchestrationInv, RepairInLoop
  PROVE  OrchestrationInv'
<1>1. PICK t \in Tasks : t = run.subject
  BY DEF OrchestrationInv, ControlHolds, RepairInLoop, At
<1> DEFINE d == Outcome(t)
<1>2. run.at = "repair" /\ UNCHANGED <<gates, asked, outside>>
  BY DEF RepairInLoop, At
<1>3. Types /\ RunTypes /\ TaskHolds(t) /\ DOMAIN run = RunFields
  BY DEF OrchestrationInv, Types, RunTypes
<1>4. \/ StopConsulting("AUTOMATIC_REPAIR_PROFILE_MISMATCH") /\ UNCHANGED <<task, grants>>
      \/ Reconcile(t, Decide(t), RetriesFailed(t, Policy)) /\ \E why : Stop(why)
      \/ /\ Reconcile(t, Decide(t), RetriesFailed(t, Policy))
         /\ HaltOf(d) = "none" /\ d.action = "REPAIR_ALLOWED"
         /\ run' = [run EXCEPT !.at = IF run.plane THEN "before" ELSE "launch",
                               !.second = TRUE, !.pin = d.profile, !.by = d.profile,
                               !.retries = 2, !.relaunched = 0, !.close = "none"]
  BY <1>1 DEF RepairInLoop, ConsultPolicy, Outcome
<1>5. HaltOf(d) = "none" /\ d.action = "REPAIR_ALLOWED" => d.profile \in Profiles
  BY <1>3, GoesOn
<1>6. CASE StopConsulting("AUTOMATIC_REPAIR_PROFILE_MISMATCH") /\ UNCHANGED <<task, grants>>
  BY <1>2, <1>6, StopsAre, IdleHolds DEF Idle
<1>7. CASE Reconcile(t, Decide(t), RetriesFailed(t, Policy)) /\ \E why : Stop(why)
  BY <1>2, <1>7, StopHolds, RepairingHolds DEF Repairs
<1>8. CASE /\ Reconcile(t, Decide(t), RetriesFailed(t, Policy))
           /\ HaltOf(d) = "none" /\ d.action = "REPAIR_ALLOWED"
           /\ run' = [run EXCEPT !.at = IF run.plane THEN "before" ELSE "launch",
                                 !.second = TRUE, !.pin = d.profile, !.by = d.profile,
                                 !.retries = 2, !.relaunched = 0, !.close = "none"]
  <2>1. Repairs(t)
    BY <1>2, <1>8 DEF Repairs
  <2>2. HaltOf(Outcome(t)) = "none"
    BY <1>8
  <2> HIDE DEF d
  <2>3. RunTypes' /\ run'.at \in {"before", "launch"} /\ run'.subject = t
    BY <1>1, <1>3, <1>5, <1>8 DEF RunTypes, RunFields
  <2>4. ControlHolds'
    <3>1. torn' = torn
      BY <1>2 DEF outside
    <3> QED
      BY <2>1, <2>2, <2>3, <3>1, RepairedMayLaunch
  <2> QED
    BY <1>2, <2>1, <2>3, <2>4, RepairingHolds
<1> QED
  BY <1>4, <1>6, <1>7, <1>8

\* A failure that a gate lets through is archived, and its task may be done again.
LEMMA GateHolds ==
  ASSUME OrchestrationInv, NEW t \in Tasks, PassesGate(t), torn' = torn,
         asked' = asked, died' = died, faults' \in Nat, run.at \notin {"wait", "close"},
         RunTypes', ControlHolds'
  PROVE  OrchestrationInv'
<1>1. Types /\ TaskHolds(t) /\ Status(t) # "READY" /\ SetTask(t, Archived(t, "validation"))
  BY DEF OrchestrationInv, PassesGate, FailedSourceLoads
<1>2. \A u \in Tasks : task'[u] = task[u] \/ (Status(u)' = "READY" /\ task'[u].phase = "none")
  BY <1>1, ArchivedQuiet DEF Kinds
<1>3. ReviewHolds'
  BY <1>2, ReviewStays DEF OrchestrationInv
<1> QED
  BY <1>3, Assembled DEF OrchestrationInv, Types, Moves

LEMMA EscalateOrHaltHolds ==
  ASSUME OrchestrationInv, EscalateOrHalt
  PROVE  OrchestrationInv'
<1>1. PICK t \in Tasks : t = run.subject
  BY DEF OrchestrationInv, ControlHolds, EscalateOrHalt, At
<1>2. run.at = "exhausted" /\ UNCHANGED <<grants, asked, outside>>
  BY DEF EscalateOrHalt, At
<1>3. RunTypes /\ torn' = torn /\ died' = died /\ faults' \in Nat
  BY <1>2 DEF OrchestrationInv, Types, outside
<1>4. \/ UNCHANGED <<task, gates>> /\ \E why : Stop(why)
      \/ \E spent \in SUBSET Profiles :
           /\ Escalation(t, spent).outcome = "ESCALATE" /\ FailedSourceLoads(t)
           /\ SetTask(t, Archived(t, "validation"))
           /\ gates' = [gates EXCEPT ![t] = @ + 1]
           /\ run' = Escalate([NextCycle EXCEPT !.again = TRUE], t, Escalation(t, spent))
  BY <1>1 DEF EscalateOrHalt, RetriesFailed
<1>5. CASE UNCHANGED <<task, gates>> /\ \E why : Stop(why)
  BY <1>2, <1>5, StopHolds, IdleHolds DEF Idle
<1>6. ASSUME NEW spent \in SUBSET Profiles,
             Escalation(t, spent).outcome = "ESCALATE", FailedSourceLoads(t),
             SetTask(t, Archived(t, "validation")),
             gates' = [gates EXCEPT ![t] = @ + 1],
             run' = Escalate([NextCycle EXCEPT !.again = TRUE], t, Escalation(t, spent))
      PROVE  OrchestrationInv'
  <2> DEFINE e == Escalation(t, spent)
             cycle == [NextCycle EXCEPT !.again = TRUE]
             escalated == [run.escalated EXCEPT ![t] = e.to]
             prior == Append(run.prior, [from |-> e.from, to |-> e.to, step |-> e.step])
  <2>1. e.to \in Profiles
    BY <1>6, EscalatesTo
  <2>2. /\ DOMAIN cycle = RunFields /\ cycle.at = "top"
        /\ cycle.by \in Profiles /\ cycle.profile \in Profiles /\ cycle.pin = NoProfile
        /\ cycle.escalated = run.escalated /\ cycle.needs \in [Tasks -> BOOLEAN]
        /\ cycle.prior = run.prior
    <3> HIDE DEF e
    <3> QED
      BY <1>3, NextCycleIs DEF RunTypes, RunFields
  <2> HIDE DEF cycle
  <2>3. run' = [cycle EXCEPT !.prior = prior, !.escalated = escalated]
    BY <1>6, <2>2 DEF Escalate, RunFields, cycle
  <2>4. escalated \in [Tasks -> Profiles \cup {NoProfile}]
    BY <1>3, <2>1 DEF RunTypes
  <2> HIDE DEF escalated, prior, e
  <2>5. RunTypes' /\ run'.at = "top"
    BY <2>2, <2>3, <2>4 DEF RunTypes, RunFields
  <2>6. ControlHolds'
    BY <2>5 DEF ControlHolds
  <2>7. PassesGate(t)
    BY <1>2, <1>6 DEF PassesGate
  <2> QED
    BY <1>2, <1>3, <2>5, <2>6, <2>7, GateHolds
<1> QED
  BY <1>4, <1>5, <1>6

--------------------------------------------------------------------------------
(* The death of the process, and the person between two invocations.       *)

\* An archival that dies half-way has written the record of its attempt.
LEMMA HalfRecords ==
  ASSUME OrchestrationInv, NEW t \in Tasks, NEW kind, NEW reason,
         Archivable(task[t], kind), ArchiveHalf(t, kind, reason)
  PROVE  Records(t, kind)
<1>1. Status(t) # "READY"
  BY DEF OrchestrationInv, TaskHolds, Archivable, Status
<1> QED
  BY <1>1 DEF ArchiveHalf, Records

LEMMA DiesArchiving ==
  ASSUME OrchestrationInv, NEW t \in Tasks, ArchivesHalf(t)
  PROVE  \E kind \in Kinds : Records(t, kind)
<1>1. ASSUME NEW kind \in Kinds, NEW reason, Archivable(task[t], kind), ArchiveHalf(t, kind, reason)
      PROVE  \E k \in Kinds : Records(t, k)
  BY <1>1, HalfRecords
<1>2. CASE t \in RejectedForDefect /\ ArchiveHalf(t, "review", Rejection)
  <2>1. Archivable(task[t], "review")
    BY <1>2 DEF RejectedForDefect, PendingCandidates, ReopensRejected, Archivable
  <2> QED
    BY <1>1, <1>2, <2>1 DEF Kinds
<1>3. CASE \E reason : InfraProved(t) /\ ArchiveHalf(t, "operational", reason)
  BY <1>1, <1>3, Proved DEF Kinds
<1>4. CASE RecipeRecord(t) # "none" /\ ArchiveHalf(t, RecipeRecord(t), Recipe)
  <2>1. RecipeRecord(t) \in Kinds /\ Archivable(task[t], RecipeRecord(t))
    BY <1>4 DEF RecipeRecord, InfraProved, Archivable, Status, Kinds
  <2> QED
    BY <1>1, <1>4, <2>1
<1>5. CASE \E reason : FailedSourceLoads(t) /\ ArchiveHalf(t, "validation", reason)
  <2>1. Archivable(task[t], "validation")
    BY <1>5 DEF FailedSourceLoads, Archivable, Status
  <2> QED
    BY <1>1, <1>5, <2>1 DEF Kinds
<1>6. \/ t \in RejectedForDefect /\ ArchiveHalf(t, "review", Rejection)
      \/ \E reason : InfraProved(t) /\ ArchiveHalf(t, "operational", reason)
      \/ RecipeRecord(t) # "none" /\ ArchiveHalf(t, RecipeRecord(t), Recipe)
      \/ \E reason : FailedSourceLoads(t) /\ ArchiveHalf(t, "validation", reason)
  BY DEF ArchivesHalf, ResumableInfra, ResumedToInfra, SettlesByRecipe
<1> QED
  BY <1>2, <1>3, <1>4, <1>5, <1>6

LEMMA DiesRepairing ==
  ASSUME OrchestrationInv, NEW t \in Tasks, CrashRepairing(t)
  PROVE  IsRecorded(t)
<1>1. Decide(t).action = "REPAIR_ALLOWED" /\ gates' = gates
  BY DEF CrashRepairing, Reconciled
<1>2. Decide(t).granted => UnusedGrants(t) # {}
  BY <1>1, Decided DEF OrchestrationInv, FirstRepair
<1>3. Consumes(t) \/ UNCHANGED grants
  BY <1>2 DEF CrashRepairing, Consumes
<1>4. UNCHANGED <<task, torn>> \/ Records(t, "validation")
  <2>1. FailedSourceLoads(t) => Archivable(task[t], "validation")
    BY DEF FailedSourceLoads, Archivable, Status
  <2> QED
    BY <2>1, HalfRecords DEF CrashRepairing
<1> QED
  BY <1>1, <1>3, <1>4 DEF IsRecorded, Kinds

LEMMA CrashHolds ==
  ASSUME OrchestrationInv, CrashStep
  PROVE  OrchestrationInv'
<1>1. /\ died' = TRUE /\ faults' = faults + 1 /\ run' = Off
      /\ UNCHANGED asked /\ asked \in [Tasks -> BOOLEAN] /\ faults \in Nat
  BY DEF CrashStep, Crash, CrashArchiving, CrashRepairing, OrchestrationInv, Types
<1>2. RunTypes' /\ ControlHolds' /\ ReviewHolds'
  BY <1>1, OffHolds DEF ReviewHolds
<1>3. CASE Crash
  BY <1>1, <1>2, <1>3, Assembled DEF Crash, Idle
<1>4. ASSUME NEW t \in Tasks, CrashArchiving(t) \/ CrashRepairing(t)
      PROVE  OrchestrationInv'
  <2>1. IsRecorded(t)
    BY <1>4, DiesArchiving, DiesRepairing DEF CrashArchiving, IsRecorded
  <2> QED
    BY <1>1, <1>2, <2>1, Assembled DEF Moves
<1> QED
  BY <1>3, <1>4 DEF CrashStep

\* A person's command writes no more of a task than its record before it dies.
LEMMA RecordingHolds ==
  ASSUME OrchestrationInv, NEW t \in Tasks, NEW kind \in Kinds, Records(t, kind),
         UNCHANGED <<grants, gates, asked, died>>, faults' \in Nat,
         run.at \notin {"wait", "close"}, RunTypes', ControlHolds'
  PROVE  OrchestrationInv'
<1>1. Types /\ TaskHolds(t) /\ Attempts(t) >= 1 /\ ReviewHolds
  BY DEF OrchestrationInv, TaskHolds, Records
<1> DEFINE v == WithRecord(t, kind)
<1>2. /\ v.status = Status(t) /\ v.phase = task[t].phase /\ v.output = task[t].output
      /\ v.verdict = task[t].verdict
  BY <1>1, RecordIs
<1>3. SetTask(t, v)
  BY DEF Records
<1> HIDE DEF v
<1>4. task'[t] = v /\ \A u \in Tasks : u # t => task'[u] = task[u]
  BY <1>1, <1>3 DEF SetTask, Types
<1>5. ReviewHolds'
  BY <1>1, <1>2, <1>4, ReviewStays DEF Status
<1>6. IsRecorded(t)
  BY DEF IsRecorded
<1> QED
  BY <1>1, <1>5, <1>6, Assembled DEF Types, Moves

\* A command that archives an attempt writes its record, and may reopen its task.
LEMMA CommandHolds ==
  ASSUME OrchestrationInv, NEW t \in Tasks, NEW kind \in {"operational", "abandoned"},
         Archivable(task[t], kind), NEW whole, CommandArchives(t, kind, whole),
         Status(t) \in {"RUNNING", "INFRA_ERROR"},
         UNCHANGED <<grants, gates, asked, died>>, faults' \in Nat,
         run.at \notin {"wait", "close"}, RunTypes', ControlHolds'
  PROVE  OrchestrationInv'
<1>1. Types /\ TaskHolds(t) /\ kind \in Kinds
  BY DEF OrchestrationInv, Kinds
<1>2. CASE SetTask(t, Archived(t, kind)) /\ torn' = torn
  <2>1. Reopens(t, kind)
    BY <1>2 DEF Reopens
  <2>2. \A u \in Tasks : task'[u] = task[u] \/ (Status(u)' = "READY" /\ task'[u].phase = "none")
    BY <1>1, <1>2, ArchivedQuiet
  <2>3. ReviewHolds'
    BY <2>2, ReviewStays DEF OrchestrationInv
  <2> QED
    BY <1>1, <1>2, <2>1, <2>3, Assembled DEF Types, Moves
<1>3. CASE ArchiveHalf(t, kind, ByHuman)
  BY <1>1, <1>3, HalfRecords, RecordingHolds
<1> QED
  BY <1>2, <1>3 DEF CommandArchives

LEMMA HumanHolds ==
  ASSUME OrchestrationInv, HumanStep
  PROVE  OrchestrationInv'
<1>1. PICK t \in Tasks :
        \/ HumanRecovers(t) \/ HumanRetriesFailed(t) \/ HumanAbandons(t)
        \/ HumanRecoversAttempt(t) \/ HumanGrants(t)
  BY DEF HumanStep
<1>2. /\ run.at = "off" /\ run' = run /\ asked' = asked /\ died' = died
      /\ faults' = faults + 1
  BY <1>1 DEF HumanRecovers, HumanRetriesFailed, HumanAbandons, HumanRecoversAttempt, HumanGrants,
              Intervene, At
<1>3. /\ Types /\ RunTypes /\ TaskHolds(t) /\ DOMAIN run = RunFields /\ ReviewHolds
      /\ asked \in [Tasks -> BOOLEAN] /\ died \in BOOLEAN /\ faults' \in Nat
  BY <1>2 DEF OrchestrationInv, Types, RunTypes
<1>4. RunTypes' /\ ControlHolds'
  BY <1>2, <1>3, GoesHolds DEF SameMemory, Restful
<1>5. CASE HumanRetriesFailed(t)
  <2>1. PICK whole \in BOOLEAN :
          /\ CommandArchives(t, "validation", whole)
          /\ gates' = IF whole THEN [gates EXCEPT ![t] = @ + 1] ELSE gates
    BY <1>5 DEF HumanRetriesFailed
  <2>2. FailedSourceLoads(t) /\ grants' = grants /\ Archivable(task[t], "validation")
    BY <1>5 DEF HumanRetriesFailed, FailedSourceLoads, Archivable, Status
  <2>3. CASE whole
    <3>1. PassesGate(t) /\ torn' = torn
      BY <2>1, <2>2, <2>3 DEF PassesGate, CommandArchives
    <3> QED
      BY <1>2, <1>3, <1>4, <3>1, GateHolds
  <2>4. CASE ~whole
    <3>1. Records(t, "validation") /\ gates' = gates /\ "validation" \in Kinds
      BY <2>1, <2>2, <2>4, HalfRecords DEF CommandArchives, Kinds
    <3> QED
      BY <1>2, <1>3, <1>4, <2>2, <3>1, RecordingHolds
  <2> QED
    BY <2>3, <2>4
<1>6. CASE HumanRecovers(t)
  <2>1. Works(t) /\ Status(t)' = "INFRA_ERROR" /\ task'[t].phase = "none"
    BY <1>6, LostHolds DEF HumanRecovers
  <2>2. torn' = torn
    BY <1>6 DEF HumanRecovers
  <2>3. \A u \in Tasks : u # t => task'[u] = task[u]
    BY <2>1, <2>2, WorksHolds DEF OrchestrationInv, Holds, Elsewhere
  <2>4. ReviewHolds'
    BY <1>2, <1>3, <2>1, <2>3, ReviewStays
  <2> QED
    BY <1>2, <1>3, <1>4, <2>1, <2>2, <2>4, Assembled DEF Moves
<1>7. CASE HumanAbandons(t)
  <2>1. PICK whole \in BOOLEAN : CommandArchives(t, "abandoned", whole)
    BY <1>7 DEF HumanAbandons
  <2>2. /\ UNCHANGED <<grants, gates>> /\ Status(t) = "RUNNING"
        /\ Archivable(task[t], "abandoned")
    BY <1>7 DEF HumanAbandons, Archivable
  <2> QED
    BY <1>2, <1>3, <1>4, <2>1, <2>2, CommandHolds
<1>9. CASE HumanRecoversAttempt(t)
  <2>1. PICK whole \in BOOLEAN : CommandArchives(t, "operational", whole)
    BY <1>9 DEF HumanRecoversAttempt
  <2>2. /\ UNCHANGED <<grants, gates>> /\ Status(t) \in {"RUNNING", "INFRA_ERROR"}
        /\ Archivable(task[t], "operational")
    BY <1>9, Proved DEF HumanRecoversAttempt, Archivable
  <2> QED
    BY <1>2, <1>3, <1>4, <2>1, <2>2, CommandHolds
<1>8. CASE HumanGrants(t)
  <2>1. IsGranted(t) /\ task' = task /\ torn' = torn
    BY <1>8 DEF HumanGrants, IsGranted, Grant
  <2>2. ReviewHolds'
    BY <1>2, <1>3, <2>1, ReviewStays
  <2> QED
    BY <1>2, <1>3, <1>4, <2>1, <2>2, Assembled DEF Moves
<1> QED
  BY <1>1, <1>5, <1>6, <1>7, <1>8, <1>9

--------------------------------------------------------------------------------
(* The invariant.                                                          *)

LEMMA InitHolds ==
  ASSUME Init
  PROVE  OrchestrationInv
<1>1. task = [t \in Tasks |-> NewTask] /\ NewTask \in TaskRecords
  BY DEF Init, NewTask, TaskRecords, Statuses, Phases
<1>2. RunTypes /\ run.at = "off"
  BY OffIs DEF Init, RunTypes
<1>3. Types
  <2>1. died \in BOOLEAN
    BY DEF Init
  <2>2. /\ grants = [t \in Tasks |-> <<>>] /\ asked = [t \in Tasks |-> FALSE]
        /\ gates = [t \in Tasks |-> 0] /\ torn = [t \in Tasks |-> {}] /\ faults = 0
    BY DEF Init
  <2> QED
    BY <1>1, <1>2, <2>1, <2>2 DEF Types
<1>4. ASSUME NEW t \in Tasks PROVE TaskHolds(t) /\ BudgetHolds(t) /\ GrantsHold(t)
  <2>1. /\ task[t] = NewTask /\ Attempts(t) = 0 /\ Status(t) = "READY" /\ grants[t] = <<>>
        /\ task[t].phase = "none" /\ task[t].output = "none"
    BY <1>1, <1>4 DEF Init, Attempts, Status, NewTask
  <2>2. TaskHolds(t)
    BY <2>1 DEF TaskHolds
  <2>3. GrantsHold(t)
    BY <2>1 DEF GrantsHold, UnusedGrants
  <2>4. Count(t, 0) = 0
    <3>1. FailuresOf(task[t].runs, 0) = {}
      BY DEF FailuresOf
    <3> QED
      BY <3>1, FS_EmptySet DEF Count
  <2>5. Room(t) \in Nat
    BY <1>3, Sizes
  <2>6. Count(t, Attempts(t)) <= 1 + Room(t) /\ Count(t, Attempts(t)) <= 2 + Room(t)
    BY <2>1, <2>4, <2>5
  <2> QED
    BY <2>1, <2>2, <2>3, <2>6 DEF BudgetHolds, MayLaunch
<1>5. ControlHolds
  BY <1>2 DEF ControlHolds
<1>6. ReviewHolds
  BY DEF Init, ReviewHolds
<1> QED
  BY <1>3, <1>4, <1>5, <1>6 DEF OrchestrationInv

LEMMA StutterHolds ==
  ASSUME OrchestrationInv, UNCHANGED vars
  PROVE  OrchestrationInv'
<1>1. Idle /\ UNCHANGED <<run, asked, outside>>
  BY DEF vars, Idle, outside
<1>2. RunTypes' /\ ControlHolds'
  <2>1. Types /\ ControlHolds
    BY DEF OrchestrationInv
  <2> QED
    BY <1>1, <2>1 DEF Types, RunTypes, ControlHolds, Idle, PendingCandidates, PendingClose,
                      InState, Status, MayLaunch, Count, Room, Attempts,
                      Readable, OneRecord, Closed, Unrecorded
<1>3. ReviewHolds'
  BY <1>1 DEF OrchestrationInv, ReviewHolds, Idle, outside, Status, At
<1> QED
  BY <1>1, <1>2, <1>3, Assembled DEF OrchestrationInv, Types, outside

LEMMA StepHolds ==
  ASSUME OrchestrationInv, [Next]_vars
  PROVE  OrchestrationInv'
<1>1. CASE Step
  BY <1>1, ReconcileRejectionHolds, ResumeFinalizationHolds, ResumeInfraHolds,
     PreflightAttentionHolds, PreflightRepairsHolds, PreflightSelectsHolds, TopHolds,
     FailedAtTopHolds, SubjectHolds, BetweenTasksHolds, BeforeWorkUnitHolds, LaunchHolds,
     RefusedHolds, WorkerHolds, CloseHolds, ReviewedHolds, UnreviewedHolds, SettleHolds,
     AfterWorkUnitHolds, ClosingHolds, RepairInLoopHolds, EscalateOrHaltHolds DEF Step
<1>2. CASE Next
  BY <1>1, <1>2, StartHolds, CrashHolds, HumanHolds DEF Next
<1> QED
  BY <1>2, StutterHolds

\* Whatever the plan, the policy and the profiles, however often the process dies
\* and whatever a person does between two invocations, a task has the records, the
\* failures and the grants the policy can go on from, and each step of an
\* invocation finds what it relies on.
THEOREM OrchestrationHolds == Spec => []OrchestrationInv
<1>1. Init => OrchestrationInv
  BY InitHolds
<1>2. OrchestrationInv /\ [Next]_vars => OrchestrationInv'
  BY StepHolds
<1> QED
  BY <1>1, <1>2, PTL DEF Spec

--------------------------------------------------------------------------------
(* What it gives.                                                          *)

\* No attempt is behind its task without a record, and two only when an abandonment
\* and a recovery of the same provider failure have met over the death of one of
\* them (retryAbandonedAttempt, recoverInfraAttempt, read by walkValidationFails).
THEOREM HistoryIsReadable == Spec => []HistoryReadable
<1>1. ASSUME OrchestrationInv, NEW t \in Tasks, NEW a \in Behind(t)
      PROVE  \/ Cardinality(Closed(t, a)) = 1
             \/ Closed(t, a) = {"abandoned", "operational"} /\ torn[t] # {}
  <2>1. TaskHolds(t) /\ Attempts(t) \in Nat
    BY <1>1, TaskParts DEF OrchestrationInv
  <2>2. a \in 1 .. Attempts(t) - 1 \/ (Status(t) = "READY" /\ Attempts(t) >= 1 /\ a = Attempts(t))
    BY <2>1 DEF Behind
  <2>3. \/ OneRecord(t, a)
        \/ Closed(t, a) = {"abandoned", "operational"} /\ torn[t] # {}
    BY <2>1, <2>2 DEF TaskHolds
  <2> QED
    BY <2>3, FS_Singleton DEF OneRecord
<1>2. OrchestrationInv => HistoryReadable
  BY <1>1 DEF HistoryReadable
<1> QED
  BY <1>2, OrchestrationHolds, PTL

\* A grant opens one attempt (consumeAdditionalRepairAuthorization).
THEOREM GrantsAreSpentOnce == Spec => []GrantsSpentOnce
<1>1. OrchestrationInv => GrantsSpentOnce
  <2> SUFFICES ASSUME OrchestrationInv, NEW t \in Tasks
               PROVE  /\ Cardinality({g \in DOMAIN grants[t] : grants[t][g] = 0}) <= 1
                      /\ \A g, h \in DOMAIN grants[t] :
                           grants[t][g] = grants[t][h] /\ grants[t][g] # 0 => g = h
    BY DEF GrantsSpentOnce
  <2> DEFINE U == {g \in DOMAIN grants[t] : grants[t][g] = 0}
  <2>1. GrantsHold(t)
    BY DEF OrchestrationInv
  <2>2. \A g, h \in U : g = h
    BY <2>1 DEF GrantsHold, UnusedGrants
  <2>3. CASE U = {}
    BY <2>3, FS_EmptySet, <2>1 DEF GrantsHold
  <2>4. CASE U # {}
    <3>1. PICK g \in U : TRUE
      BY <2>4
    <3>2. U = {g}
      BY <2>2, <3>1
    <3>3. Cardinality({g}) = 1
      BY FS_Singleton
    <3> HIDE DEF U
    <3>4. Cardinality(U) <= 1
      BY <3>2, <3>3
    <3> QED
      BY <2>1, <3>4 DEF GrantsHold, U
  <2> QED
    BY <2>3, <2>4
<1> QED
  BY <1>1, OrchestrationHolds, PTL

\* Unless the process died, no task passes whose attempt asked for a review that
\* did not accept it (closeTaskByLaunchPolicy, acceptValidatedCandidate).
THEOREM ReviewedUnlessDead == Spec => []ReviewedWhileAlive
<1>1. OrchestrationInv => ReviewedWhileAlive
  BY DEF OrchestrationInv, ReviewHolds, ReviewedWhileAlive, ReviewedBeforePass
<1> QED
  BY <1>1, OrchestrationHolds, PTL

\* Beyond the first pass and its repair every failure of a task had a gate of its
\* own: a grant, an escalation or a dev-retry-failed (decideAutomaticRepair).
THEOREM RepairIsBounded == Spec => []BoundedRepair
<1>1. ASSUME OrchestrationInv, NEW t \in Tasks
      PROVE  GrantsUsed(t) = Cardinality(Spent(grants[t], Attempts(t)))
  <2> DEFINE D == DOMAIN grants[t]
             U == UnusedGrants(t)
  <2>1. grants[t] \in Seq(Nat) /\ Attempts(t) \in Nat
    BY <1>1, Sizes DEF OrchestrationInv
  <2>2. IsFiniteSet(D)
    <3>1. D = 1 .. Len(grants[t]) /\ Len(grants[t]) \in Int
      BY <2>1
    <3> HIDE DEF D
    <3> QED
      BY <3>1, FS_Interval
  <2>3. D \cap U = U /\ D \ U = Spent(grants[t], Attempts(t))
    BY <2>1 DEF UnusedGrants, Spent
  <2>4. IsFiniteSet(U)
    BY <2>2, FS_Subset DEF UnusedGrants
  <2> HIDE DEF D, U
  <2>5. Cardinality(D \ U) = Cardinality(D) - Cardinality(D \cap U)
    BY <2>2, <2>4, FS_Difference
  <2> QED
    BY <2>3, <2>5 DEF GrantsUsed, D, U
<1>2. OrchestrationInv => BoundedRepair
  <2> SUFFICES ASSUME OrchestrationInv, NEW t \in Tasks, Attempts(t) > 0
               PROVE  OfficialFails(t) <= 2 + gates[t] + GrantsUsed(t)
    BY DEF BoundedRepair
  <2> DEFINE n == Attempts(t)
             open == Status(t) = "FAIL" /\ task[t].official /\ Closed(t, n) = {}
  <2>1. /\ Types /\ TaskHolds(t) /\ BudgetHolds(t) /\ n \in Nat /\ n >= 1
        /\ Room(t) \in Nat /\ \A m \in Int : Count(t, m) \in Nat
    BY Sizes DEF OrchestrationInv
  <2>2. 2 + gates[t] + GrantsUsed(t) = 2 + Room(t)
    <3>1. GrantsUsed(t) = Cardinality(Spent(grants[t], n))
      BY <1>1
    <3>2. gates[t] \in Nat /\ Cardinality(Spent(grants[t], n)) \in Nat
      BY <2>1, Sizes
    <3>3. Room(t) = gates[t] + Cardinality(Spent(grants[t], n))
      BY DEF Room
    <3> QED
      BY <3>1, <3>2, <3>3
  <2>3. Failures(t, n) = FailuresOf(task[t].runs, n) /\ n \in Int
        /\ Failures(t, n - 1) = FailuresOf(task[t].runs, n - 1) /\ n - 1 \in Int
    <3>1. n \in 0 .. Attempts(t) /\ n - 1 \in 0 .. Attempts(t)
      BY <2>1
    <3> QED
      BY <2>1, <3>1, FailuresAre
  <2>4. OfficialFails(t) = IF open THEN Count(t, n - 1) + 1 ELSE Count(t, n)
    <3>1. CASE open
      BY <2>3, <3>1 DEF OfficialFails, Count
    <3>2. CASE ~open
      <4>1. OfficialFails(t) = Cardinality(Failures(t, n - 0)) + 0 /\ n - 0 = n
        BY <2>1, <3>2 DEF OfficialFails
      <4>2. Count(t, n) \in Nat /\ Count(t, n) = Cardinality(Failures(t, n))
        BY <2>1, <2>3 DEF Count
      <4> QED
        BY <3>2, <4>1, <4>2
    <3> QED
      BY <3>1, <3>2
  <2>5. CASE Status(t) = "READY"
    BY <2>1, <2>2, <2>4, <2>5 DEF BudgetHolds
  <2>6. CASE Status(t) # "READY" /\ open
    BY <2>1, <2>2, <2>3, <2>4, <2>6 DEF BudgetHolds
  <2>7. CASE Status(t) # "READY" /\ ~open
    <3>1. Count(t, n - 1) <= 1 + Room(t) /\ Count(t, n) \in Nat /\ Count(t, n - 1) \in Nat
      BY <2>1, <2>3, <2>7 DEF BudgetHolds
    <3>2. Count(t, n) <= Count(t, n - 1) + 1
      <4>1. ASSUME Cardinality(Closed(t, n)) # 1
            PROVE  Count(t, n) <= Count(t, n - 1) + 1
        <5>1. Count(t, n) = 0
          BY <2>1, <4>1, CountsNone DEF Closed, Count
        <5> QED
          BY <3>1, <5>1
      <4>2. CASE Closed(t, n) = {}
        BY <4>1, <4>2, FS_EmptySet
      <4>3. ASSUME NEW k \in Closed(t, n)
            PROVE  Count(t, n) <= Count(t, n - 1) + 1
        <5>1. k \in Kinds /\ Archivable(task[t], k)
          BY <2>1, <2>7, <4>3, TaskParts DEF TaskHolds
        <5>2. Closed(t, n) = {k} \/ Closed(t, n) = {"abandoned", "operational"}
          BY <2>1, <2>7, <4>3, <5>1, RecordsMeet
        <5>3. CASE Closed(t, n) = {k}
          BY <2>1, <5>1, <5>3, CountsOn DEF Closed, Count
        <5> QED
          BY <4>1, <5>2, <5>3, PairIs
      <4> QED
        BY <4>2, <4>3
    <3> QED
      BY <2>1, <2>2, <2>4, <2>7, <3>1, <3>2
  <2> QED
    BY <2>5, <2>6, <2>7
<1> QED
  BY <1>2, OrchestrationHolds, PTL

--------------------------------------------------------------------------------
(* Work that passes, and what a launch has read.                           *)

Kept(t) ==
  Status(t) = "RUNNING" /\ task[t].output = "passes" /\ Status(t)' # "RUNNING" =>
    \/ Status(t)' = "PASS"
    \/ task[t].verdict = "DEFECT" /\ Status(t)' = "READY"
ReadFirst(t) == Attempts(t)' > Attempts(t) => WalkStatus(t, Attempts(t)) = "ok"

\* A task that becomes v was not at work on a patch that passes, is so still, or
\* passes, or a reviewer has found its defect; it has another attempt only over a
\* history that can be read.
Fair(t, v) ==
  /\ \/ Status(t) # "RUNNING" \/ task[t].output # "passes"
     \/ v.status \in {"RUNNING", "PASS"}
     \/ task[t].verdict = "DEFECT" /\ v.status = "READY"
  /\ Len(v.runs) = Attempts(t) \/ WalkStatus(t, Attempts(t)) = "ok"

LEMMA FairKeeps ==
  ASSUME Types, task' = task \/ \E t \in Tasks : \E v : SetTask(t, v) /\ Fair(t, v)
  PROVE  \A t \in Tasks : Kept(t) /\ ReadFirst(t)
<1>1. \A t \in Tasks : Attempts(t) \in Nat
  BY TaskParts
<1>2. ASSUME NEW t \in Tasks, task'[t] = task[t] PROVE Kept(t) /\ ReadFirst(t)
  <2>1. Status(t)' = Status(t) /\ Attempts(t)' = Attempts(t)
    BY <1>2 DEF Status, Attempts
  <2> QED
    BY <1>1, <2>1 DEF Kept, ReadFirst
<1>3. ASSUME NEW t \in Tasks, NEW v, task'[t] = v, Fair(t, v) PROVE Kept(t) /\ ReadFirst(t)
  <2>1. Status(t)' = v.status /\ Attempts(t)' = Len(v.runs)
    BY <1>3 DEF Status, Attempts
  <2> QED
    BY <1>1, <1>3, <2>1 DEF Kept, ReadFirst, Fair
<1>4. ASSUME NEW t \in Tasks, NEW v, SetTask(t, v), Fair(t, v)
      PROVE  \A u \in Tasks : Kept(u) /\ ReadFirst(u)
  <2>1. task'[t] = v /\ \A u \in Tasks : u # t => task'[u] = task[u]
    BY <1>4 DEF SetTask, Types
  <2> QED
    BY <1>2, <1>3, <1>4, <2>1
<1> QED
  BY <1>2, <1>4

\* An attempt is reopened for a reviewer's reason or because it has nothing to pass.
LEMMA ReopenedFairly ==
  ASSUME Types, NEW t \in Tasks, TaskHolds(t), Status(t) # "READY", NEW kind \in Kinds,
         SetTask(t, Archived(t, kind)),
         Status(t) # "RUNNING" \/ task[t].output # "passes" \/ task[t].verdict = "DEFECT"
  PROVE  \E u \in Tasks : \E v : SetTask(u, v) /\ Fair(u, v)
<1>1. Archived(t, kind).status = "READY" /\ Len(Archived(t, kind).runs) = Attempts(t)
  BY ArchivedIs DEF TaskHolds
<1> QED
  BY <1>1 DEF Fair

\* A record alone changes neither the status of a task nor its attempts.
LEMMA RecordedFairly ==
  ASSUME Types, NEW t \in Tasks, TaskHolds(t), NEW kind \in Kinds, Records(t, kind)
  PROVE  \E u \in Tasks : \E v : SetTask(u, v) /\ Fair(u, v)
<1>1. Attempts(t) >= 1 /\ SetTask(t, WithRecord(t, kind))
  BY DEF Records, TaskHolds
<1>2. /\ WithRecord(t, kind).status = Status(t)
      /\ Len(WithRecord(t, kind).runs) = Attempts(t)
  BY <1>1, RecordIs
<1> QED
  BY <1>1, <1>2 DEF Fair

\* The steps of an invocation and of a person, by what they do to a task.
LEMMA WorkIsKept ==
  ASSUME OrchestrationInv, [Next]_vars
  PROVE  \A t \in Tasks : Kept(t) /\ ReadFirst(t)
<1> DEFINE Good == task' = task \/ \E t \in Tasks : \E v : SetTask(t, v) /\ Fair(t, v)
<1>1. Types /\ ControlHolds /\ task \in [Tasks -> TaskRecords]
      /\ \A t \in Tasks : TaskHolds(t) /\ task[t] \in TaskRecords
  BY DEF OrchestrationInv, Types
<1> SUFFICES Good
  BY <1>1, FairKeeps
<1>2. ASSUME NEW t \in Tasks, FailedSourceLoads(t), SetTask(t, Archived(t, "validation"))
      PROVE  Good
  BY <1>1, <1>2, ReopenedFairly DEF FailedSourceLoads, Kinds
<1>3. ASSUME NEW t, Reconcile(t, Decide(t), RetriesFailed(t, Policy)), t \in Tasks PROVE Good
  BY <1>2, <1>3 DEF Reconcile, RetriesFailed
<1>4. ASSUME NEW t \in Tasks, InfraProved(t), SetTask(t, Archived(t, "operational"))
      PROVE  Good
  BY <1>1, <1>4, Proved, ReopenedFairly DEF Kinds
<1>5. ASSUME NEW t \in RejectedForDefect, SetTask(t, Archived(t, "review"))
      PROVE  Good
  <2>1. t \in Tasks /\ Status(t) = "RUNNING" /\ task[t].verdict = "DEFECT"
    BY <1>1, <1>5 DEF RejectedForDefect, PendingCandidates, ReopensRejected, TaskHolds
  <2> QED
    BY <1>1, <1>5, <2>1, ReopenedFairly DEF Kinds
<1>6. ASSUME NEW t \in Tasks, task[t].phase = "working", NEW v, SetTask(t, v),
             Len(v.runs) = Attempts(t)
      PROVE  Good
  BY <1>1, <1>6 DEF TaskHolds, Fair
<1>r. ASSUME NEW t \in Tasks, NEW kind \in Kinds, Records(t, kind) PROVE Good
  BY <1>1, <1>r, RecordedFairly
<1>t. ASSUME NEW t \in Tasks, NEW v, SetTask(t, v), Fair(t, v)
      PROVE  Good
  BY <1>t
<1>u. task' = task => Good
  OBVIOUS
<1> HIDE DEF Good
<1>7. CASE ReconcileRejection \/ AfterWorkUnit
  <2>1. PICK t : t = Min(PendingCandidates)
    OBVIOUS
  <2>2. RejectedForDefect # {} => t \in RejectedForDefect
    BY <2>1 DEF RejectedForDefect
  <2>3. \/ task' = task
        \/ RejectedForDefect # {} /\ Archive(t, "review", Rejection)
    BY <1>7, <2>1 DEF ReconcileRejection, AfterWorkUnit
  <2> QED
    BY <1>5, <1>u, <2>2, <2>3, ArchiveIs
<1>8. CASE ResumeInfra \/ Resumed
  <2>1. \A t \in ResumableInfra : t \in Tasks /\ InfraProved(t)
    BY DEF ResumableInfra
  <2>2. Resumed => run.subject \in Tasks
    BY <1>1 DEF Resumed, ControlHolds, At
  <2>3. \/ task' = task
        \/ \E t \in Tasks : \E reason : InfraProved(t) /\ Archive(t, "operational", reason)
    BY <1>8, <2>1, <2>2 DEF ResumeInfra, Resumed, ResumedToInfra
  <2> QED
    BY <1>4, <1>u, <2>3, ArchiveIs
<1>9. CASE PreflightAttention
  <2>1. PICK t \in Tasks : t = Min(InState({"RUNNING"}))
    BY <1>9, MinTask DEF PreflightAttention, InState
  <2>2. \/ task' = task
        \/ task[t].phase = "working"
             /\ SetTask(t, [task[t] EXCEPT !.status = "INFRA_ERROR", !.phase = "none"])
    BY <1>9, <2>1 DEF PreflightAttention
  <2>3. Len([task[t] EXCEPT !.status = "INFRA_ERROR", !.phase = "none"].runs) = Attempts(t)
    BY <1>1 DEF TaskRecords, Attempts
  <2> QED
    BY <1>6, <1>u, <2>2, <2>3
<1>10. CASE PreflightRepairs \/ FailedAtTop \/ Subject \/ RepairInLoop
  <2>1. RepairSubject \subseteq Tasks /\ Selected \subseteq Tasks
    BY <1>1, Pending
  <2>2. FailedAtTop => Min(InState({"FAIL"})) \in Tasks
    BY <1>1, MinTask DEF FailedAtTop, ControlHolds, InState, At
  <2>3. RepairInLoop => run.subject \in Tasks
    BY <1>1 DEF RepairInLoop, ControlHolds, At
  <2>4. CASE PreflightRepairs
    <3>1. \E t \in RepairSubject : Reconcile(t, Decide(t), RetriesFailed(t, Policy)) \/ task' = task
      BY <2>4 DEF PreflightRepairs, ConsultPolicy
    <3> QED
      BY <1>3, <1>u, <2>1, <3>1
  <2>5. CASE FailedAtTop
    <3>1. PICK t \in Tasks : t = Min(InState({"FAIL"}))
      BY <2>2, <2>5
    <3>2. Reconcile(t, Decide(t), RetriesFailed(t, Policy)) \/ task' = task
      BY <2>5, <3>1 DEF FailedAtTop, ConsultPolicy
    <3> QED
      BY <1>3, <1>u, <3>2
  <2>6. CASE Subject
    <3>1. \E t \in Selected : Reconcile(t, Decide(t), RetriesFailed(t, Policy)) \/ task' = task
      BY <2>6 DEF Subject, ConsultPolicy
    <3> QED
      BY <1>3, <1>u, <2>1, <3>1
  <2>7. CASE RepairInLoop
    <3>1. PICK t \in Tasks : t = run.subject
      BY <2>3, <2>7
    <3>2. Reconcile(t, Decide(t), RetriesFailed(t, Policy)) \/ task' = task
      BY <2>7, <3>1 DEF RepairInLoop, ConsultPolicy
    <3> QED
      BY <1>3, <1>u, <3>2
  <2> QED
    BY <1>10, <2>4, <2>5, <2>6, <2>7
<1>11. CASE Launch
  <2>1. PICK t \in Tasks : t = run.subject
    BY <1>1, <1>11 DEF Launch, ControlHolds, At
  <2>2. Status(t) = "READY"
    BY <1>1, <1>11, <2>1, Pending DEF Launch
  <2>3. Readable(t) /\ Attempts(t) \in Nat
    BY <1>1, <1>11, <2>1, <2>2, TaskParts DEF Launch, ControlHolds, At
  <2>4. WalkStatus(t, Attempts(t)) = "ok"
    BY <1>1, <2>3, WalkOk DEF Readable, OneRecord
  <2>5. \E v : SetTask(t, v)
    BY <1>11, <2>1 DEF Launch
  <2> QED
    BY <1>t, <2>2, <2>4, <2>5 DEF Fair
<1>w. CASE WorkerFinishes \/ WorkerLost
  <2>1. PICK t \in Tasks : t = run.subject /\ task[t].phase = "working"
    BY <1>1, <1>w DEF WorkerFinishes, WorkerLost, ControlHolds, At
  <2>2. PICK s, p, o : SetTask(t, [task[t] EXCEPT !.status = s, !.phase = p, !.output = o])
                       \/ SetTask(t, [task[t] EXCEPT !.phase = p, !.output = o])
    BY <1>w, <2>1 DEF WorkerFinishes, WorkerLost
  <2>3. /\ Len([task[t] EXCEPT !.status = s, !.phase = p, !.output = o].runs) = Attempts(t)
        /\ Len([task[t] EXCEPT !.phase = p, !.output = o].runs) = Attempts(t)
    BY <1>1 DEF TaskRecords, Attempts
  <2> QED
    BY <1>6, <2>1, <2>2, <2>3
<1>12. CASE Close
  <2>1. PICK t \in Tasks : t = run.subject
    BY <1>1, <1>12 DEF Close, ControlHolds, At
  <2>2. CloseKind(t) = "FAIL" => task[t].output # "passes"
    BY DEF CloseKind
  <2>3. task[t].status = "RUNNING"
    BY <1>1, <1>12, <2>1 DEF Close, ControlHolds, At, Status
  <2>4. task[t] \in TaskRecords
    BY <1>1
  <2>5. CASE task' = task
    BY <1>u, <2>5
  <2>6. CASE SetTask(t, [task[t] EXCEPT !.status = "PASS", !.phase = "none"])
    <3> DEFINE v == [task[t] EXCEPT !.status = "PASS", !.phase = "none"]
    <3>1. v.status = "PASS" /\ Len(v.runs) = Attempts(t)
      BY <2>4 DEF TaskRecords, Attempts
    <3> QED
      BY <1>t, <2>6, <3>1 DEF Fair
  <2>7. CASE CloseKind(t) = "FAIL"
             /\ \E o : SetTask(t, [task[t] EXCEPT !.status = "FAIL", !.phase = "none", !.official = o])
    <3>1. PICK o : SetTask(t, [task[t] EXCEPT !.status = "FAIL", !.phase = "none", !.official = o])
      BY <2>7
    <3> DEFINE v == [task[t] EXCEPT !.status = "FAIL", !.phase = "none", !.official = o]
    <3>2. Len(v.runs) = Attempts(t)
      BY <2>4 DEF TaskRecords, Attempts
    <3> QED
      BY <1>t, <2>2, <2>7, <3>1, <3>2 DEF Fair
  <2>8. CASE SetTask(t, [task[t] EXCEPT !.phase = "candidate", !.owed = TRUE])
    <3> DEFINE v == [task[t] EXCEPT !.phase = "candidate", !.owed = TRUE]
    <3>1. v.status = "RUNNING" /\ Len(v.runs) = Attempts(t)
      BY <2>3, <2>4 DEF TaskRecords, Attempts
    <3> QED
      BY <1>t, <2>8, <3>1 DEF Fair
  <2> QED
    BY <1>12, <2>1, <2>5, <2>6, <2>7, <2>8 DEF Close
<1>13. CASE Review \/ Promote
  <2>1. PICK t \in Tasks : t = run.subject /\ task[t].status = "RUNNING" /\ task[t] \in TaskRecords
    BY <1>1, <1>13 DEF Review, Promote, ControlHolds, At, Status
  <2>2. CASE \E d : SetTask(t, [task[t] EXCEPT !.verdict = d])
    <3>1. PICK d : SetTask(t, [task[t] EXCEPT !.verdict = d])
      BY <2>2
    <3> DEFINE v == [task[t] EXCEPT !.verdict = d]
    <3>2. v.status = "RUNNING" /\ Len(v.runs) = Attempts(t)
      BY <2>1 DEF TaskRecords, Attempts
    <3> QED
      BY <1>t, <3>1, <3>2 DEF Fair
  <2>3. CASE SetTask(t, [task[t] EXCEPT !.status = "PASS", !.phase = "none"])
    <3> DEFINE v == [task[t] EXCEPT !.status = "PASS", !.phase = "none"]
    <3>1. v.status = "PASS" /\ Len(v.runs) = Attempts(t)
      BY <2>1 DEF TaskRecords, Attempts
    <3> QED
      BY <1>t, <2>3, <3>1 DEF Fair
  <2> QED
    BY <1>13, <2>1, <2>2, <2>3 DEF Review, Promote
<1>14. CASE Settle
  <2>1. PICK t \in Tasks : t = run.subject
    BY <1>1, <1>14 DEF Settle, ControlHolds, At
  <2>2. RecipeRecord(t) # "none" /\ Archive(t, RecipeRecord(t), Recipe)
    BY <1>14, <2>1 DEF Settle, SettlesByRecipe
  <2>3. RecipeRecord(t) \in Kinds /\ Status(t) # "READY" /\ task[t].output # "passes"
    BY <2>2 DEF RecipeRecord, InfraProved, Kinds
  <2>4. CASE SetTask(t, Archived(t, RecipeRecord(t)))
    BY <1>1, <2>3, <2>4, ReopenedFairly DEF Good
  <2> QED
    BY <1>u, <2>2, <2>4, ArchiveIs
<1>15. CASE EscalateOrHalt
  <2>1. run.subject \in Tasks
    BY <1>1, <1>15 DEF EscalateOrHalt, ControlHolds, At
  <2>2. task' = task \/ (FailedSourceLoads(run.subject)
                         /\ SetTask(run.subject, Archived(run.subject, "validation")))
    BY <1>15 DEF EscalateOrHalt, RetriesFailed
  <2> QED
    BY <1>2, <1>u, <2>1, <2>2
<1>16. CASE CrashStep
  <2>1. ASSUME NEW t \in Tasks, CrashArchiving(t) PROVE Good
    BY <1>r, <2>1, DiesArchiving DEF CrashArchiving
  <2>2. ASSUME NEW t \in Tasks, CrashRepairing(t) PROVE Good
    BY <1>r, <1>u, <2>2, DiesRepairing DEF IsRecorded
  <2> QED
    BY <1>16, <1>u, <2>1, <2>2 DEF CrashStep, Crash
<1>17. ASSUME NEW t \in Tasks, NEW kind \in Kinds, NEW whole, CommandArchives(t, kind, whole),
              Archivable(task[t], kind), Status(t) # "READY", task[t].output # "passes"
       PROVE  Good
  <2>1. CASE SetTask(t, Archived(t, kind))
    BY <1>1, <1>17, <2>1, ReopenedFairly DEF Good
  <2>2. CASE ArchiveHalf(t, kind, ByHuman)
    BY <1>17, <1>r, <2>2, HalfRecords
  <2> QED
    BY <1>17, <2>1, <2>2 DEF CommandArchives
<1>h. CASE HumanStep
  <2>1. PICK t \in Tasks :
          \/ HumanRecovers(t) \/ HumanRetriesFailed(t) \/ HumanAbandons(t)
          \/ HumanRecoversAttempt(t) \/ HumanGrants(t)
    BY <1>h DEF HumanStep
  <2>2. CASE HumanRecovers(t)
    <3> DEFINE v == [task[t] EXCEPT !.status = "INFRA_ERROR", !.phase = "none"]
    <3>1. Len(v.runs) = Attempts(t)
      BY <1>1 DEF TaskRecords, Attempts
    <3> QED
      BY <1>6, <2>2, <3>1 DEF HumanRecovers
  <2>3. CASE HumanRetriesFailed(t)
    <3>1. PICK whole : CommandArchives(t, "validation", whole)
      BY <2>3 DEF HumanRetriesFailed
    <3>2. FailedSourceLoads(t) /\ Archivable(task[t], "validation")
      BY <2>3 DEF HumanRetriesFailed, FailedSourceLoads, Archivable, Status
    <3>3. CASE SetTask(t, Archived(t, "validation"))
      BY <1>2, <3>2, <3>3
    <3>4. CASE ArchiveHalf(t, "validation", ByHuman)
      BY <1>r, <3>2, <3>4, HalfRecords DEF Kinds
    <3> QED
      BY <3>1, <3>3, <3>4 DEF CommandArchives
  <2>4. CASE HumanAbandons(t)
    <3>1. /\ Archivable(task[t], "abandoned") /\ Status(t) # "READY" /\ task[t].output # "passes"
          /\ \E whole : CommandArchives(t, "abandoned", whole)
      BY <2>4 DEF HumanAbandons, Archivable
    <3> QED
      BY <1>17, <3>1 DEF Kinds
  <2>5. CASE HumanRecoversAttempt(t)
    <3>1. /\ Archivable(task[t], "operational") /\ Status(t) # "READY" /\ task[t].output # "passes"
          /\ \E whole : CommandArchives(t, "operational", whole)
      BY <2>5, Proved DEF HumanRecoversAttempt, Archivable
    <3> QED
      BY <1>17, <3>1 DEF Kinds
  <2>6. CASE HumanGrants(t)
    BY <1>u, <2>6 DEF HumanGrants, Grant
  <2> QED
    BY <2>1, <2>2, <2>3, <2>4, <2>5, <2>6
<1>18. CASE \/ Start \/ ResumeFinalization \/ PreflightSelects \/ Top \/ NoSubject
            \/ BeforeWorkUnit \/ BeforeRefuses \/ LimitReached \/ LaunchRefused
            \/ RelaunchRefused \/ ReviewUnavailable \/ ReviewNobody \/ Reject \/ Settled
            \/ RetrySpent \/ Closing \/ RepairFailed \/ UNCHANGED vars
  BY <1>18, <1>u DEF Start, ResumeFinalization, PreflightSelects, Top, NoSubject, BeforeWorkUnit,
     BeforeRefuses, LimitReached, LaunchRefused, RelaunchRefused, ReviewUnavailable,
     ReviewNobody, Reject, Settled, RetrySpent, Closing, RepairFailed, vars
<1> QED
  BY <1>7, <1>8, <1>9, <1>10, <1>11, <1>w, <1>12, <1>13, <1>14, <1>15, <1>16, <1>h, <1>18
  DEF Next, Step

\* A patch that passes its validation is thrown away by nothing but a reviewer's
\* rejection: no recovery, resume, retry, escalation or death reopens its task.
THEOREM PassingIsKept == Spec => PassingWorkKept
<1>1. OrchestrationInv /\ [Next]_vars =>
        [\A t \in Tasks :
           Status(t) = "RUNNING" /\ task[t].output = "passes" /\ Status(t)' # "RUNNING" =>
             \/ Status(t)' = "PASS"
             \/ task[t].verdict = "DEFECT" /\ Status(t)' = "READY"]_vars
  BY WorkIsKept DEF Kept
<1> QED
  BY <1>1, OrchestrationHolds, PTL DEF Spec, PassingWorkKept

\* However the archivals before it died, and whoever gave or recovered the attempt
\* before it, an attempt is launched only over a history the policy reads to its end.
THEOREM LaunchesHaveRead == Spec => ReadBeforeLaunch
<1>1. OrchestrationInv /\ [Next]_vars =>
        [\A t \in Tasks :
           Attempts(t)' > Attempts(t) => WalkStatus(t, Attempts(t)) = "ok"]_vars
  BY WorkIsKept DEF ReadFirst
<1> QED
  BY <1>1, OrchestrationHolds, PTL DEF Spec, ReadBeforeLaunch
================================================================================
