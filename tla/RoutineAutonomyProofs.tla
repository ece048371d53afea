-------------------------- MODULE RoutineAutonomyProofs --------------------------
(***************************************************************************)
(* The two safety properties of RoutineAutonomy, for every number of       *)
(* candidates, attempts, commits and faults: what reaches HEAD or origin   *)
(* was reviewed, and what is adopted was published. They rest on what the  *)
(* write-once events of an incident say of its commits, which survives     *)
(* every death of the process, and on HEAD, origin and the authorized base *)
(* moving along the lines of the commits.                                  *)
(***************************************************************************)
EXTENDS RoutineAutonomy, WellFoundedInduction, TLAPS

Verdicts == AllTroubles \cup {"none", "maintenance"}
Decisions == {"none", "ACCEPT", "REJECT", "HUMAN_REQUIRED"}
Answers == Verdicts \cup {"unasked"}
Cycles == 1..MaxMaintenanceCycles

Commit == 0..Len(commits)
Blockers == {"none", "MAINTENANCE_BLOCKED", "RECOVERY_ATTENTION", "HISTORICAL_GAP",
             "INCONSISTENT_EVIDENCE", "AUTOMATIC_REPAIR_PROFILE_MISMATCH", "SELECTION_BLOCKED"}
Ids == Nat \X Nat \X Blockers

Incidents ==
  [told : Verdicts, recovered : BOOLEAN, made : [Cycles -> Nat],
   said : [Cycles -> Decisions], adopted : BOOLEAN, again : Answers,
   closed : {"none", "blocked", "recovered"}]

\* Steps at which the candidate of the run is committed, then saved, then accepted.
Accepting == {"adopt", "pushed", "merged", "adopted"}
Places == {"off", "preflight", "resolve", "recover", "recovered", "maintain", "maintained",
           "review", "reviewed", "retry", "retried", "conclude", "loop", "working"}
          \cup Accepting

CommitRecords == [parent : Nat, work : 0..Len(Facts), incident : Ids]

RepoTyped == repo \in [head : Commit, origin : Commit, authorized : Commit]
RunTyped ==
  /\ run \in [at : Places, verdict : Verdicts, id : Ids, cycle : Cycles,
              candidate : Commit, decision : Decisions, again : Answers]
  /\ BaseOf(run.id) \in Commit
RestTyped ==
  /\ clones \subseteq Commit /\ trouble \in Verdicts
  /\ attempt \in 0..MaxAttempts /\ faults \in 0..MaxFaults
EventsTyped ==
  DOMAIN incidents \subseteq Ids /\ \A i \in DOMAIN incidents : incidents[i] \in Incidents

TypeOK ==
  /\ commits \in Seq(CommitRecords)
  /\ RepoTyped /\ RunTyped /\ RestTyped /\ EventsTyped

\* A commit comes after its parent.
History == \A c \in 1..Len(commits) : Parent(c) < c

\* What the events of an incident say of its commits.
Candidate(i, c) == c \in Maintained /\ commits[c].incident = i
Truthful(i, e) ==
  \A n \in Cycles :
    /\ e.made[n] # 0 => Candidate(i, e.made[n])
    /\ e.said[n] # "none" => e.made[n] # 0 /\ Acceptable(e.made[n])
EventsTruthful == \A i \in DOMAIN incidents : Truthful(i, incidents[i])

\* What the run holds of its candidate at each step.
RunHolds ==
  /\ At("maintained") =>
       Candidate(run.id, run.candidate) /\ Incident.made[run.cycle] = 0
  /\ run.at \in {"review", "reviewed"} \cup Accepting =>
       run.candidate # 0 /\ Incident.made[run.cycle] = run.candidate
  /\ At("reviewed") => Incident.said[run.cycle] = "none"
                       /\ Acceptable(run.candidate)
  /\ run.at \in Accepting => Incident.said[run.cycle] = "ACCEPT"

\* The three references of the repository: what is in HEAD or authorized and a
\* maintainer's is at origin, and so is what this run has pushed.
RefsInLine ==
  /\ Maintained \cap Line(repo.head) \subseteq Line(repo.origin)
  /\ At("pushed") => run.candidate \in Line(repo.origin)

RoutineInv ==
  /\ TypeOK /\ History /\ EventsTruthful /\ RunHolds /\ RefsInLine
  /\ PublishedIsReviewed /\ AdoptedIsPublished

\* The events of an incident are write-once, and no commit is rewritten.
EventsKept ==
  \A i \in Ids, n \in Cycles :
    /\ Event(i).made[n] # 0 => Event(i)'.made[n] = Event(i).made[n]
    /\ Event(i).said[n] # "none" => Event(i)'.said[n] = Event(i).said[n]
CommitsKept ==
  Len(commits) <= Len(commits') /\ \A c \in 1..Len(commits) : commits'[c] = commits[c]

\* What every step keeps.
StepKept == RoutineInv' /\ EventsKept /\ CommitsKept

--------------------------------------------------------------------------------
(* The lines of the commits.                                               *)

Ordered == Len(commits) \in Nat /\ \A c \in 1..Len(commits) : Parent(c) \in 0..c - 1

\* A nonempty set of naturals has a least member.
LEMMA Smallest ==
  ASSUME NEW S \in SUBSET Nat, S # {}
  PROVE  \E c \in S : \A d \in S : c <= d
<1>1. PICK c \in S : \A d \in S : ~(<<d, c>> \in OpToRel(<, Nat))
  BY NatLessThanWellFounded, WFMin
<1>2. ASSUME NEW d \in S PROVE ~(d < c)
  BY <1>1 DEF OpToRel
<1> QED
  BY <1>2

\* The line of the baseline is itself; a commit's is it and its parent's.
LinesUnfold ==
  /\ Line(0) = {0}
  /\ \A c \in 1..Len(commits), p \in Commit : p = Parent(c) => Line(c) = {c} \cup Line(p)

LEMMA LineUnfolds == Ordered => LinesUnfold
<1> SUFFICES ASSUME Ordered PROVE LinesUnfold
  OBVIOUS
<1> DEFINE Body(f, k) == IF k = 0 THEN {0} ELSE {k} \cup f[Parent(k)]
           Unfolds(f, n) == f = [k \in 0..n |-> Body(f, k)]
           Bad == {n \in Commit : ~\E f : Unfolds(f, n)}
<1>1. Bad = {}
  <2>1. SUFFICES ASSUME Bad # {} PROVE FALSE
    OBVIOUS
  <2>2. Bad \in SUBSET Nat
    BY DEF Commit, Ordered
  <2>3. PICK n \in Bad : \A m \in Bad : n <= m
    BY <2>1, <2>2, Smallest
  <2>4. n \in 0..Len(commits) /\ ~\E f : Unfolds(f, n)
    BY DEF Commit
  <2>5. CASE n = 0
    <3>1. Unfolds([k \in 0..0 |-> {0}], 0)
      OBVIOUS
    <3> QED
      BY <2>4, <2>5, <3>1
  <2>6. CASE n # 0
    <3>1. n - 1 \in Commit /\ n - 1 \notin Bad
      <4> HIDE DEF Bad
      <4>1. n \in Nat /\ n - 1 \in Commit /\ ~(n <= n - 1)
        BY <2>4, <2>6 DEF Commit, Ordered
      <4> QED
        BY <2>3, <4>1
    <3>2. PICK f : Unfolds(f, n - 1)
      BY <3>1
    <3> DEFINE g == [k \in 0..n |-> IF k = n THEN {n} \cup f[Parent(n)] ELSE f[k]]
    <3>3. n \in 1..Len(commits) /\ Parent(n) \in 0..n - 1
      BY <2>4, <2>6 DEF Ordered
    <3>4. ASSUME NEW k \in 0..n PROVE g[k] = Body(g, k)
      <4>1. CASE k = n
        BY <3>3, <4>1
      <4>2. CASE k # n /\ k # 0
        <5>1. k \in 0..n - 1 /\ Parent(k) \in 0..k - 1
          BY <3>3, <4>2 DEF Ordered
        <5>2. f[k] = Body(f, k)
          BY <3>2, <5>1
        <5>3. g[k] = f[k] /\ g[Parent(k)] = f[Parent(k)]
          BY <3>3, <4>2, <5>1
        <5> QED
          BY <4>2, <5>2, <5>3
      <4>3. CASE k # n /\ k = 0
        <5>1. k \in 0..n - 1
          BY <3>3, <4>3
        <5>2. f[k] = {0}
          BY <3>2, <4>3, <5>1
        <5> QED
          BY <4>3, <5>2
      <4> QED
        BY <4>1, <4>2, <4>3
    <3>5. Unfolds(g, n)
      <4>1. g = [k \in 0..n |-> g[k]]
        OBVIOUS
      <4> HIDE DEF g
      <4> QED
        BY <3>4, <4>1
    <3> QED
      BY <2>4, <3>5
  <2> QED
    BY <2>5, <2>6
<1> DEFINE L == CHOOSE f : Unfolds(f, Len(commits))
<1>2. Unfolds(L, Len(commits))
  <2>1. Len(commits) \in Commit
    BY DEF Commit, Ordered
  <2>2. \E f : Unfolds(f, Len(commits))
    BY <1>1, <2>1
  <2> QED
    BY <2>2
<1>3. \A c \in Commit : Line(c) = L[c]
  BY DEF Line
<1> HIDE DEF L
<1>4. L[0] = {0}
  BY <1>2 DEF Ordered
<1>5. ASSUME NEW c \in 1..Len(commits) PROVE Line(c) = {c} \cup Line(Parent(c))
  <2>1. c \in 0..Len(commits) /\ c # 0 /\ Parent(c) \in 0..Len(commits)
    BY DEF Ordered
  <2>2. L[c] = {c} \cup L[Parent(c)]
    BY <1>2, <2>1
  <2> QED
    BY <1>3, <2>1, <2>2 DEF Commit
<1> QED
  BY <1>3, <1>4, <1>5 DEF Commit, Ordered, LinesUnfold

\* A line stays within the commits up to its own and holds it.
LEMMA LineBounded ==
  ASSUME Ordered, NEW c \in Commit
  PROVE  c \in Line(c) /\ Line(c) \subseteq 0..c
<1> DEFINE Bad == {n \in Commit : ~(n \in Line(n) /\ Line(n) \subseteq 0..n)}
<1>1. Bad = {}
  <2>1. SUFFICES ASSUME Bad # {} PROVE FALSE
    OBVIOUS
  <2>2. Bad \in SUBSET Nat
    BY DEF Commit, Ordered
  <2>3. PICK n \in Bad : \A m \in Bad : n <= m
    <3> HIDE DEF Bad
    <3> QED
      BY <2>1, <2>2, Smallest
  <2>4. n \in 0..Len(commits) /\ Len(commits) \in Nat /\ n # 0
    BY LineUnfolds DEF Commit, Ordered, LinesUnfold
  <2>5. Parent(n) \in Commit /\ Parent(n) \in 0..n - 1
    BY <2>4 DEF Commit, Ordered
  <2>6. Parent(n) \notin Bad
    <3> HIDE DEF Bad
    <3>1. ~(n <= Parent(n))
      BY <2>4, <2>5
    <3> QED
      BY <2>3, <3>1
  <2>7. Line(Parent(n)) \subseteq 0..n - 1
    BY <2>4, <2>5, <2>6
  <2>8. Line(n) = {n} \cup Line(Parent(n))
    BY <2>4, <2>5, LineUnfolds DEF LinesUnfold
  <2>9. n \in Line(n) /\ Line(n) \subseteq 0..n
    BY <2>4, <2>7, <2>8
  <2> QED
    BY <2>9
<1> QED
  BY <1>1

\* A commit on a line has its own line on it.
LEMMA LineNested ==
  ASSUME Ordered, NEW c \in Commit, NEW b \in Line(c)
  PROVE  Line(b) \subseteq Line(c)
<1> DEFINE Bad == {n \in Commit : \E m \in Line(n) : ~(Line(m) \subseteq Line(n))}
<1>1. Bad = {}
  <2>1. SUFFICES ASSUME Bad # {} PROVE FALSE
    OBVIOUS
  <2>2. Bad \in SUBSET Nat
    BY DEF Commit, Ordered
  <2>3. PICK n \in Bad : \A k \in Bad : n <= k
    <3> HIDE DEF Bad
    <3> QED
      BY <2>1, <2>2, Smallest
  <2>4. n \in 0..Len(commits) /\ Len(commits) \in Nat /\ n # 0
    BY LineUnfolds DEF Commit, Ordered, LinesUnfold
  <2>5. Parent(n) \in Commit /\ Parent(n) \in 0..n - 1
    BY <2>4 DEF Commit, Ordered
  <2>6. Parent(n) \notin Bad
    <3> HIDE DEF Bad
    <3>1. ~(n <= Parent(n))
      BY <2>4, <2>5
    <3> QED
      BY <2>3, <3>1
  <2>7. Line(n) = {n} \cup Line(Parent(n))
    BY <2>4, <2>5, LineUnfolds DEF LinesUnfold
  <2>8. ASSUME NEW m \in Line(n) PROVE Line(m) \subseteq Line(n)
    BY <2>5, <2>6, <2>7
  <2> QED
    BY <2>8
<1> QED
  BY <1>1

\* A commit added leaves the lines there are and begins one over its parent.
LEMMA LineGrows ==
  ASSUME Ordered, NEW e, e.parent \in Commit, commits' = Append(commits, e),
         NEW S, commits \in Seq(S), e \in S, NEW n, n = Len(commits) + 1
  PROVE  /\ Ordered' /\ Len(commits') = n
         /\ \A c \in Commit : Line(c)' = Line(c)
         /\ Line(n)' = {n} \cup Line(e.parent)
<1>1. /\ Len(commits) \in Nat /\ Len(commits') = n
      /\ \A c \in 1..Len(commits) : commits'[c] = commits[c]
      /\ commits'[n] = e
  OBVIOUS
<1>2. Parent(n)' = e.parent /\ \A c \in 1..Len(commits) : Parent(c)' = Parent(c)
  BY <1>1 DEF Parent
<1>3. Ordered'
  <2>1. ASSUME NEW c \in 1..Len(commits') PROVE Parent(c)' \in 0..c - 1
    <3>1. CASE c \in 1..Len(commits)
      BY <1>2, <3>1 DEF Ordered
    <3>2. CASE c = n
      BY <1>1, <1>2, <3>2 DEF Commit
    <3> QED
      BY <1>1, <3>1, <3>2
  <2> QED
    BY <1>1, <2>1 DEF Ordered
<1> DEFINE Bad == {b \in Commit : Line(b)' # Line(b)}
<1>4. Bad = {}
  <2>1. SUFFICES ASSUME Bad # {} PROVE FALSE
    OBVIOUS
  <2>2. Bad \in SUBSET Nat
    BY DEF Commit, Ordered
  <2>3. PICK m \in Bad : \A k \in Bad : m <= k
    <3> HIDE DEF Bad
    <3> QED
      BY <2>1, <2>2, Smallest
  <2> LinesUnfold /\ LinesUnfold'
    BY <1>3, LineUnfolds, PTL
  <2>4. Line(0) = {0} /\ Line(0)' = {0}
    BY DEF LinesUnfold
  <2>5. m \in 0..Len(commits) /\ m # 0 /\ m \in 1..Len(commits')
    <3>1. m \in 0..Len(commits)
      BY DEF Commit
    <3>2. m # 0
      <4>1. Line(0)' = Line(0)
        BY <2>4
      <4>2. 0 \notin Bad
        BY <4>1
      <4> QED
        BY <4>2
    <3> QED
      BY <1>1, <3>1, <3>2
  <2>6. PICK p \in Commit : p = Parent(m) /\ p \in 0..m - 1
    BY <1>1, <2>5 DEF Commit, Ordered
  <2>7. p \notin Bad
    <3> HIDE DEF Bad
    <3>1. ~(m <= p)
      BY <1>1, <2>5, <2>6
    <3> QED
      BY <2>3, <3>1
  <2>8. Line(m) = {m} \cup Line(p)
    BY <1>1, <2>5, <2>6 DEF LinesUnfold
  <2>9. p = Parent(m)' /\ p \in Commit'
    BY <1>1, <1>2, <2>5, <2>6 DEF Commit
  <2>10. Line(m)' = {m} \cup Line(p)'
    BY <2>5, <2>9 DEF LinesUnfold
  <2>11. Line(p)' = Line(p)
    BY <2>7
  <2>12. Line(m)' # Line(m)
    OBVIOUS
  <2> QED
    BY <2>8, <2>10, <2>11, <2>12
<1>5. Line(n)' = {n} \cup Line(e.parent)
  <2> LinesUnfold'
    BY <1>3, LineUnfolds, PTL
  <2>1. \A c \in 1..Len(commits'), p \in Commit' :
          p = Parent(c)' => Line(c)' = {c} \cup Line(p)'
    BY DEF LinesUnfold
  <2>2. e.parent \in Commit' /\ n \in 1..Len(commits')
    BY <1>1 DEF Commit
  <2>3. \A p \in Commit : Line(p)' = Line(p)
    BY <1>4
  <2> QED
    BY <1>2, <2>1, <2>2, <2>3
<1> QED
  BY <1>1, <1>3, <1>4, <1>5

--------------------------------------------------------------------------------
(* What is on record.                                                      *)

\* History orders the commits.
LEMMA Orders == TypeOK /\ History => Ordered
<1> SUFFICES ASSUME TypeOK, History PROVE Ordered
  OBVIOUS
<1>1. Len(commits) \in Nat /\ \A c \in 1..Len(commits) : commits[c] \in CommitRecords
  BY DEF TypeOK
<1>2. ASSUME NEW c \in 1..Len(commits) PROVE Parent(c) \in 0..c - 1
  BY <1>1, <1>2 DEF History, Parent, CommitRecords
<1> QED
  BY <1>1, <1>2 DEF Ordered

\* An incident nobody has heard of tells the truth as well.
LEMMA EventHolds ==
  ASSUME TypeOK, EventsTruthful, NEW i
  PROVE  Event(i) \in Incidents /\ Truthful(i, Event(i))
<1>1. Unheard \in Incidents
  BY DEF Unheard, Incidents, Verdicts, Decisions, Answers, Cycles, MaxMaintenanceCycles
<1>2. Truthful(i, Unheard)
  BY DEF Truthful, Unheard, Cycles, MaxMaintenanceCycles
<1> QED
  BY <1>1, <1>2 DEF Event, TypeOK, EventsTyped, EventsTruthful

\* Writing the incident of the run leaves all others.
LEMMA WriteKeeps ==
  ASSUME NEW e, Write(e), NEW i
  PROVE  /\ Event(i)' = (IF i = run.id THEN e ELSE Event(i))
         /\ DOMAIN incidents' = DOMAIN incidents \cup {run.id}
         /\ i \in DOMAIN incidents' => incidents'[i] = IF i = run.id THEN e ELSE incidents[i]
  BY DEF Write, Event

\* What a commit carries that a maintainer wrote and a review accepted.
Reviewed(c) ==
  LET e == Event(commits[c].incident)
  IN /\ \E n \in Cycles : e.made[n] = c /\ e.said[n] = "ACCEPT"
     /\ Acceptable(c)
     /\ Parent(c) = BaseOf(commits[c].incident)

\* A review on record stays on record.
LEMMA ReviewStays ==
  ASSUME TypeOK, EventsKept, CommitsKept, NEW c \in Maintained, Reviewed(c)
  PROVE  c \in Maintained' /\ Reviewed(c)'
<1>1. /\ c \in 1..Len(commits) /\ commits[c].work # 0 /\ commits[c].incident \in Ids
      /\ c # 0
  <2>1. c \in 1..Len(commits) /\ commits[c].work # 0 /\ Len(commits) \in Nat
    BY DEF Maintained, TypeOK
  <2>2. commits[c] \in CommitRecords
    BY <2>1 DEF TypeOK
  <2> QED
    BY <2>1, <2>2 DEF CommitRecords
<1>2. commits'[c] = commits[c] /\ c \in 1..Len(commits')
  BY <1>1 DEF CommitsKept, TypeOK
<1> PICK i \in Ids : i = commits[c].incident
  BY <1>1
<1>3. PICK n \in Cycles : Event(i).made[n] = c /\ Event(i).said[n] = "ACCEPT"
  BY DEF Reviewed
<1>4. Event(i)'.made[n] = c /\ Event(i)'.said[n] = "ACCEPT"
  <2>1. i \in Ids /\ Event(i).made[n] # 0 /\ Event(i).said[n] # "none"
    BY <1>1, <1>3
  <2>2. /\ Event(i)'.made[n] = Event(i).made[n]
        /\ Event(i)'.said[n] = Event(i).said[n]
    BY <2>1 DEF EventsKept
  <2> QED
    BY <1>3, <2>2
<1>5. Event(commits[c].incident)' = Event(i)'
  BY <1>2
<1>6. Acceptable(c)'
  BY <1>2 DEF Reviewed, Acceptable, Parent
<1> QED
  BY <1>1, <1>2, <1>3, <1>4, <1>6 DEF Maintained, Reviewed, Parent

--------------------------------------------------------------------------------
(* Steps by what they write.                                               *)

\* An event written keeps those there were.
Extends(e) ==
  \A n \in Cycles :
    /\ Incident.made[n] # 0 => e.made[n] = Incident.made[n]
    /\ Incident.said[n] # "none" => e.said[n] = Incident.said[n]

LEMMA WriteStep ==
  ASSUME RoutineInv, UNCHANGED commits,
         NEW e \in Incidents, Write(e), Extends(e), Truthful(run.id, e)
  PROVE  /\ EventsTyped' /\ EventsTruthful' /\ EventsKept
         /\ run'.id = run.id => Incident' = e
<1>1. run.id \in Ids /\ DOMAIN incidents \subseteq Ids
  BY DEF RoutineInv, TypeOK, RunTyped, EventsTyped
<1>2. EventsTyped'
  <2>1. DOMAIN incidents' \subseteq Ids
    BY <1>1, WriteKeeps
  <2>2. ASSUME NEW i \in DOMAIN incidents' PROVE incidents'[i] \in Incidents
    BY <2>2, WriteKeeps DEF RoutineInv, TypeOK, EventsTyped
  <2> QED
    BY <2>1, <2>2 DEF EventsTyped
<1>3. EventsTruthful'
  <2>1. ASSUME NEW i \in DOMAIN incidents' PROVE Truthful(i, incidents'[i])
    BY <2>1, WriteKeeps DEF RoutineInv, EventsTruthful
  <2>2. ASSUME NEW i \in DOMAIN incidents', NEW f, Truthful(i, f) PROVE Truthful(i, f)'
    BY <2>2 DEF Truthful, Candidate, Maintained, Acceptable, Parent
  <2> QED
    BY <2>1, <2>2 DEF EventsTruthful
<1>4. EventsKept
  BY WriteKeeps DEF EventsKept, Extends, Incident
<1>5. ASSUME run'.id = run.id PROVE Incident' = e
  <2>1. PICK i : i = run.id
    OBVIOUS
  <2>2. Event(i)' = e
    BY <2>1, WriteKeeps
  <2> QED
    BY <1>5, <2>1, <2>2 DEF Incident
<1> QED
  BY <1>2, <1>3, <1>4, <1>5

\* No event written.
LEMMA EventsStay ==
  ASSUME RoutineInv, UNCHANGED <<commits, incidents>>
  PROVE  EventsTyped' /\ EventsTruthful' /\ EventsKept /\ \A i : Event(i)' = Event(i)
<1>1. \A i : Event(i)' = Event(i)
  BY DEF Event
<1>2. EventsTyped'
  BY DEF RoutineInv, TypeOK, EventsTyped
<1>3. EventsTruthful'
  BY DEF RoutineInv, EventsTruthful, Truthful, Candidate, Maintained, Acceptable, Parent
<1>4. EventsKept
  BY <1>1 DEF EventsKept
<1> QED
  BY <1>1, <1>2, <1>3, <1>4

\* While no commit is added the lines and what is maintained stay.
LEMMA CommitsStay ==
  ASSUME RoutineInv, UNCHANGED commits
  PROVE  /\ commits' \in Seq(CommitRecords) /\ History' /\ Commit' = Commit
         /\ Maintained' = Maintained /\ \A c : Line(c)' = Line(c)
         /\ \A i, c : Candidate(i, c)' <=> Candidate(i, c)
         /\ CommitsKept
  BY DEF RoutineInv, TypeOK, History, Commit, Maintained, Line, Parent, Candidate, CommitsKept

\* The references are moved along reviewed lines.
LEMMA RefsMove ==
  ASSUME RoutineInv, UNCHANGED commits, EventsKept,
         NEW h \in Commit, NEW o \in Commit, NEW a \in Commit,
         repo'.head = h, repo'.origin = o, repo'.authorized = a,
         Maintained \cap Line(h) \subseteq Line(o),
         Maintained \cap Line(a) \subseteq Line(o),
         \A c \in Maintained \cap Line(o) : Reviewed(c) \/ Reviewed(c)',
         run'.at = "pushed" => run'.candidate \in Line(o)
  PROVE  RefsInLine' /\ PublishedIsReviewed' /\ AdoptedIsPublished'
<1>1. /\ Maintained' = Maintained /\ CommitsKept
      /\ \A c : Line(c)' = Line(c)
  BY CommitsStay
<1>2. /\ Line(repo.head)' = Line(h) /\ Line(repo.origin)' = Line(o)
      /\ Line(repo.authorized)' = Line(a)
  BY DEF Line, Parent
<1>3. RefsInLine' /\ AdoptedIsPublished'
  BY <1>1, <1>2 DEF RefsInLine, AdoptedIsPublished, At
<1>4. ASSUME NEW c \in Maintained \cap (Line(h) \cup Line(o)) PROVE Reviewed(c)'
  BY <1>1, ReviewStays DEF RoutineInv
<1>5. PublishedIsReviewed'
  BY <1>1, <1>2, <1>4 DEF PublishedIsReviewed, Reviewed, Cycles
<1> QED
  BY <1>3, <1>5

\* They are not moved.
LEMMA RefsStay ==
  ASSUME RoutineInv, UNCHANGED <<commits, repo>>, EventsKept,
         run'.at = "pushed" => run'.candidate \in Line(repo.origin)
  PROVE  RefsInLine' /\ PublishedIsReviewed' /\ AdoptedIsPublished'
<1>1. repo.head \in Commit /\ repo.origin \in Commit /\ repo.authorized \in Commit
  BY DEF RoutineInv, TypeOK, RepoTyped
<1>2. \A c \in Maintained \cap Line(repo.origin) : Reviewed(c)
  BY DEF RoutineInv, PublishedIsReviewed, Reviewed, Cycles
<1> QED
  BY <1>1, <1>2, RefsMove DEF RoutineInv, RefsInLine, AdoptedIsPublished

\* Steps that add no commit and move no reference.
LEMMA QuietStep ==
  ASSUME RoutineInv, UNCHANGED <<commits, repo>>, RestTyped', RunTyped', RunHolds',
         run'.at = "pushed" => run'.candidate \in Line(repo.origin),
         \/ UNCHANGED incidents
         \/ \E e \in Incidents : Write(e) /\ Extends(e) /\ Truthful(run.id, e)
  PROVE  StepKept
<1>1. EventsTyped' /\ EventsTruthful' /\ EventsKept
  BY WriteStep, EventsStay
<1>2. commits' \in Seq(CommitRecords) /\ History' /\ CommitsKept
  BY CommitsStay
<1>3. RepoTyped'
  BY DEF RoutineInv, TypeOK, RepoTyped, Commit
<1>4. RefsInLine' /\ PublishedIsReviewed' /\ AdoptedIsPublished'
  BY <1>1, RefsStay
<1> QED
  BY <1>1, <1>2, <1>3, <1>4 DEF StepKept, RoutineInv, TypeOK

Holding == {"maintained", "review", "reviewed"} \cup Accepting
Free == Places \ Holding

\* A run that holds no candidate relies on none.
LEMMA FreeHolds ==
  ASSUME run'.at \in Free
  PROVE  RunHolds' /\ run'.at # "pushed"
  BY DEF Free, Holding, Accepting, RunHolds, At

\* A run that ends, goes on or begins keeps its type.
Runs == [at : Places, verdict : Verdicts, id : Ids, cycle : Cycles,
         candidate : Commit, decision : Decisions, again : Answers]

LEMMA OffTyped ==
  ASSUME RoutineInv, UNCHANGED commits
  PROVE  0 \in Commit /\ Commit' = Commit /\ Off \in Runs /\ BaseOf(Off.id) = 0
<1>1. Commit' = Commit /\ 0 \in Commit
  BY CommitsStay, Orders DEF RoutineInv, Ordered, Commit
<1>2. /\ Off.at \in Places /\ Off.verdict \in Verdicts /\ Off.decision \in Decisions
      /\ Off.cycle \in Cycles /\ Off.again \in Answers
  BY DEF Off, Places, Verdicts, Decisions, Answers, Cycles, MaxMaintenanceCycles
<1>3. Off.id \in Ids /\ BaseOf(Off.id) = 0 /\ Off.candidate = 0
  <2>1. <<0, 0, "none">> \in Ids
    BY DEF Ids, Blockers
  <2>2. Off.id = <<0, 0, "none">> /\ Off.candidate = 0
    BY DEF Off
  <2> QED
    BY <2>1, <2>2 DEF BaseOf
<1> QED
  BY <1>1, <1>2, <1>3 DEF Off, Runs

LEMMA EndTyped ==
  ASSUME RoutineInv, UNCHANGED commits,
         run' = Off \/ run' = [Off EXCEPT !.at = "loop"]
  PROVE  RunTyped' /\ run'.at \in Free
<1> DEFINE O == Off
<1>1. O \in Runs /\ BaseOf(O.id) = 0 /\ 0 \in Commit /\ Commit' = Commit
  BY OffTyped
<1>2. O.at = "off"
  BY DEF Off
<1> HIDE DEF O
<1>3. run' = O \/ run' = [O EXCEPT !.at = "loop"]
  BY DEF O
<1>4. run' \in Runs /\ run'.id = O.id /\ run'.at \in {"off", "loop"}
  BY <1>1, <1>2, <1>3 DEF Runs, Places
<1> QED
  BY <1>1, <1>4 DEF RunTyped, Runs, Free, Places, Holding, Accepting

LEMMA GotoTyped ==
  ASSUME RoutineInv, UNCHANGED commits, NEW p \in Places, Goto(p)
  PROVE  /\ RunTyped' /\ run'.at = p
         /\ run'.id = run.id /\ run'.candidate = run.candidate /\ run'.cycle = run.cycle
<1>1. Commit' = Commit
  BY CommitsStay
<1> QED
  BY <1>1 DEF RoutineInv, TypeOK, RunTyped, Goto

\* The rest of the world has its types while it stays.
LEMMA RestStays ==
  ASSUME RoutineInv, UNCHANGED commits, clones' \subseteq clones, UNCHANGED <<trouble, attempt>>,
         faults' \in {faults} \cup 0..MaxFaults
  PROVE  RestTyped'
  BY DEF RoutineInv, TypeOK, RestTyped, Commit

\* What an event may say without touching the candidates and the reviews.
LEMMA Told ==
  ASSUME RoutineInv, NEW e \in Incidents, e.made = Incident.made, e.said = Incident.said
  PROVE  Extends(e) /\ Truthful(run.id, e)
<1>1. Truthful(run.id, Incident)
  BY EventHolds DEF RoutineInv, Incident
<1> QED
  BY <1>1 DEF Extends, Truthful

LEMMA FinishHumanWrites ==
  ASSUME RoutineInv, FinishHuman
  PROVE  \E e \in Incidents : Write(e) /\ Extends(e) /\ Truthful(run.id, e)
<1>1. Incident \in Incidents
  BY EventHolds DEF RoutineInv, Incident
<1> DEFINE e == [Incident EXCEPT !.closed = "blocked"]
<1>2. e \in Incidents /\ e.made = Incident.made /\ e.said = Incident.said
  BY <1>1 DEF Incidents
<1> QED
  BY <1>2, Told DEF FinishHuman

--------------------------------------------------------------------------------
(* The steps that leave the commits and the references alone.              *)

\* A step that writes no event and holds no candidate.
LEMMA UnheldStep ==
  ASSUME RoutineInv, Start \/ Replay \/ Recover \/ Launch \/ NotAccepted \/ Crash \/ OutsideRepair
  PROVE  StepKept
<1>1. /\ UNCHANGED <<commits, repo, incidents>>
      /\ run' = Off \/ run' = run \/ \E p \in Free : Goto(p)
  BY DEF Start, Replay, Recover, Launch, NotAccepted, Crash, OutsideRepair, Free, Holding,
     Accepting, Places, world
<1>2. Commit' = Commit
  BY <1>1, CommitsStay
<1>3. RestTyped'
  <2>1. clones' = clones
    BY DEF Start, Replay, Recover, Launch, NotAccepted, Crash, OutsideRepair, world
  <2>2. trouble' \in Verdicts
    BY RoutineAssumption DEF Start, Replay, Recover, Launch, NotAccepted, Crash,
       OutsideRepair, world, RoutineInv, TypeOK, RestTyped, Verdicts, AllTroubles
  <2>3. attempt' \in 0..MaxAttempts /\ faults' \in 0..MaxFaults
    BY RoutineAssumption DEF Start, Replay, Recover, Launch, NotAccepted, Crash,
       OutsideRepair, world, RoutineInv, TypeOK, RestTyped
  <2> QED
    BY <1>2, <2>1, <2>2, <2>3 DEF RoutineInv, TypeOK, RestTyped
<1>4. CASE run' = Off
  BY <1>1, <1>3, <1>4, EndTyped, FreeHolds, QuietStep
<1>5. ASSUME NEW p \in Free, Goto(p) PROVE StepKept
  BY <1>1, <1>3, <1>5, GotoTyped, FreeHolds, QuietStep DEF Free
<1>6. CASE run' = run
  <2>1. RunTyped' /\ RunHolds'
    BY <1>1, <1>2, <1>6 DEF RoutineInv, TypeOK, RunTyped, RunHolds, At, Incident, Event,
       Candidate, Maintained, Acceptable, Parent
  <2> QED
    BY <1>1, <1>3, <1>6, <2>1, QuietStep DEF RoutineInv, RefsInLine, At
<1> QED
  BY <1>1, <1>4, <1>5, <1>6

\* A step that writes an event of neither a candidate nor a review.
LEMMA TellingStep ==
  ASSUME RoutineInv, UNCHANGED <<commits, repo>>, RestTyped',
         NEW e, Write(e), e \in Incidents,
         e.made = Incident.made, e.said = Incident.said,
         run' = Off \/ run' = [Off EXCEPT !.at = "loop"] \/ \E p \in Free : Goto(p)
  PROVE  StepKept
<1>1. Extends(e) /\ Truthful(run.id, e)
  BY Told
<1>2. CASE run' = Off \/ run' = [Off EXCEPT !.at = "loop"]
  BY <1>1, <1>2, EndTyped, FreeHolds, QuietStep
<1>3. ASSUME NEW p \in Free, Goto(p) PROVE StepKept
  BY <1>1, <1>3, GotoTyped, FreeHolds, QuietStep DEF Free
<1> QED
  BY <1>2, <1>3

LEMMA IncidentTyped == RoutineInv => Incident \in Incidents
  BY EventHolds DEF RoutineInv, Incident

\* An end in the hands of a person.
LEMMA HumanStep ==
  ASSUME RoutineInv, UNCHANGED <<commits, repo>>, RestTyped', FinishHuman
  PROVE  StepKept
<1> DEFINE e == [Incident EXCEPT !.closed = "blocked"]
<1>1. e \in Incidents /\ e.made = Incident.made /\ e.said = Incident.said
  BY IncidentTyped DEF Incidents
<1>2. Write(e) /\ run' = Off
  BY DEF FinishHuman
<1> HIDE DEF e
<1> QED
  BY <1>1, <1>2, TellingStep

LEMMA RecordingStep ==
  ASSUME RoutineInv, Refused \/ SaveRecovery \/ RefuseCandidate \/ AdoptRefused
                     \/ SaveAdoption \/ SaveRetry \/ Conclude
  PROVE  StepKept
<1>1. UNCHANGED <<commits, repo>>
  BY DEF Refused, SaveRecovery, RefuseCandidate, AdoptRefused, SaveAdoption, SaveRetry,
     Conclude, world
<1>2. RestTyped'
  <2>1. clones' \subseteq clones /\ UNCHANGED <<trouble, attempt, faults>>
    BY DEF Refused, SaveRecovery, RefuseCandidate, AdoptRefused, SaveAdoption, SaveRetry,
       Conclude, world
  <2> QED
    BY <1>1, <2>1, RestStays
<1>3. CASE Refused \/ RefuseCandidate \/ AdoptRefused
  BY <1>1, <1>2, <1>3, HumanStep DEF Refused, RefuseCandidate, AdoptRefused
<1>4. {"retry", "conclude"} \subseteq Free
  BY DEF Free, Places, Holding, Accepting
<1>5. CASE SaveRecovery
  <2> DEFINE e == [Incident EXCEPT !.recovered = TRUE]
  <2>1. e \in Incidents /\ e.made = Incident.made /\ e.said = Incident.said
    BY IncidentTyped DEF Incidents
  <2>2. Write(e) /\ Goto("retry")
    BY <1>5 DEF SaveRecovery
  <2> HIDE DEF e
  <2> QED
    BY <1>1, <1>2, <1>4, <2>1, <2>2, TellingStep
<1>6. CASE SaveAdoption
  <2> DEFINE e == [Incident EXCEPT !.adopted = TRUE]
  <2>1. e \in Incidents /\ e.made = Incident.made /\ e.said = Incident.said
    BY IncidentTyped DEF Incidents
  <2>2. Write(e) /\ Goto("retry")
    BY <1>6 DEF SaveAdoption
  <2> HIDE DEF e
  <2> QED
    BY <1>1, <1>2, <1>4, <2>1, <2>2, TellingStep
<1>7. CASE SaveRetry
  <2> DEFINE e == [Incident EXCEPT !.again = run.again]
  <2>1. e \in Incidents /\ e.made = Incident.made /\ e.said = Incident.said
    BY IncidentTyped DEF Incidents, RoutineInv, TypeOK, RunTyped
  <2>2. Write(e) /\ Goto("conclude")
    BY <1>7 DEF SaveRetry
  <2> HIDE DEF e
  <2> QED
    BY <1>1, <1>2, <1>4, <2>1, <2>2, TellingStep
<1>8. CASE Conclude
  <2>1. PICK k \in {"blocked", "recovered"} : Write([Incident EXCEPT !.closed = k])
    BY <1>8 DEF Conclude
  <2> DEFINE e == [Incident EXCEPT !.closed = k]
  <2>2. e \in Incidents /\ e.made = Incident.made /\ e.said = Incident.said
    BY IncidentTyped DEF Incidents
  <2>3. run' = Off \/ run' = [Off EXCEPT !.at = "loop"]
    BY <1>8 DEF Conclude
  <2>4. Write(e)
    BY <2>1
  <2> HIDE DEF e
  <2> QED
    BY <1>1, <1>2, <2>2, <2>3, <2>4, TellingStep
<1> QED
  BY <1>3, <1>5, <1>6, <1>7, <1>8

LEMMA DetectStep == ASSUME RoutineInv, Detect PROVE StepKept
<1>1. UNCHANGED <<commits, repo>> /\ RestTyped'
  BY RestStays DEF Detect, world
<1>2. PICK v \in Verdicts : v = run.verdict
  BY DEF RoutineInv, TypeOK, RunTyped
<1> DEFINE told == [Incident EXCEPT !.told = v]
<1>3. told \in Incidents /\ told.made = Incident.made /\ told.said = Incident.said
  BY IncidentTyped DEF Incidents
<1> HIDE DEF told
<1>4. CASE Route(v) = "human"
  <2> DEFINE e == [told EXCEPT !.closed = "blocked"]
  <2>1. e \in Incidents /\ e.made = told.made /\ e.said = told.said
    BY <1>3 DEF Incidents
  <2>2. Write(e) /\ run' = Off
    BY <1>2, <1>4 DEF Detect, told
  <2> HIDE DEF e
  <2> QED
    BY <1>1, <1>3, <2>1, <2>2, TellingStep
<1>5. CASE Route(v) # "human"
  <2>1. Write(told) /\ Goto(Route(v))
    BY <1>2, <1>5 DEF Detect, told
  <2>2. Route(v) \in Free
    BY <1>5 DEF Route, Triage, Free, Places, Holding, Accepting
  <2> QED
    BY <1>1, <1>3, <2>1, <2>2, TellingStep
<1> QED
  BY <1>4, <1>5

--------------------------------------------------------------------------------
(* The steps that move a reference.                                        *)

LEMMA MovingStep ==
  ASSUME RoutineInv, UNCHANGED commits, RestTyped', RunTyped', RunHolds',
         \/ UNCHANGED incidents
         \/ \E e \in Incidents : Write(e) /\ Extends(e) /\ Truthful(run.id, e),
         NEW h \in Commit, NEW o \in Commit, NEW a \in Commit,
         repo' = [head |-> h, origin |-> o, authorized |-> a],
         Maintained \cap Line(h) \subseteq Line(o),
         Maintained \cap Line(a) \subseteq Line(o),
         \A c \in Maintained \cap Line(o) : Reviewed(c) \/ Reviewed(c)',
         run'.at = "pushed" => run'.candidate \in Line(o)
  PROVE  StepKept
<1>1. EventsTyped' /\ EventsTruthful' /\ EventsKept
  BY WriteStep, EventsStay
<1>2. commits' \in Seq(CommitRecords) /\ History' /\ Commit' = Commit /\ CommitsKept
  BY CommitsStay
<1>3. RepoTyped'
  BY <1>2 DEF RepoTyped
<1>4. repo'.head = h /\ repo'.origin = o /\ repo'.authorized = a
  OBVIOUS
<1>5. RefsInLine' /\ PublishedIsReviewed' /\ AdoptedIsPublished'
  BY <1>1, <1>4, RefsMove
<1> QED
  BY <1>1, <1>2, <1>3, <1>5 DEF StepKept, RoutineInv, TypeOK

\* Where the references are.
LEMMA Refs ==
  ASSUME RoutineInv
  PROVE  /\ repo.head \in Commit /\ repo.origin \in Commit /\ repo.authorized \in Commit
         /\ repo = [head |-> repo.head, origin |-> repo.origin, authorized |-> repo.authorized]
         /\ Maintained \cap Line(repo.head) \subseteq Line(repo.origin)
         /\ Maintained \cap Line(repo.authorized) \subseteq Line(repo.origin)
         /\ \A c \in Maintained \cap Line(repo.origin) : Reviewed(c)
         /\ Ordered
  BY Orders DEF RoutineInv, TypeOK, RepoTyped, RefsInLine, AdoptedIsPublished,
     PublishedIsReviewed, Reviewed, Cycles

\* The preflight, asked first or again, authorizes HEAD or leaves the base.
LEMMA ObservingStep ==
  ASSUME RoutineInv, UNCHANGED <<commits, incidents, clones, trouble, attempt, faults>>,
         NEW a \in {repo.authorized, repo.head}, repo' = [repo EXCEPT !.authorized = a],
         RunTyped', run'.at \in Free
  PROVE  StepKept
<1>1. RestTyped'
  BY RestStays
<1>2. PICK h \in Commit, o \in Commit, b \in Commit :
         h = repo.head /\ o = repo.origin /\ b = a
  BY Refs
<1>3. repo' = [head |-> h, origin |-> o, authorized |-> b]
  BY <1>2, Refs
<1>4. Maintained \cap Line(h) \subseteq Line(o) /\ Maintained \cap Line(b) \subseteq Line(o)
  BY <1>2, Refs
<1>5. \A c \in Maintained \cap Line(o) : Reviewed(c)
  BY <1>2, Refs
<1> QED
  BY <1>1, <1>3, <1>4, <1>5, FreeHolds, MovingStep

LEMMA Observed ==
  ASSUME RoutineInv, NEW o \in Observations
  PROVE  o.authorized \in {repo.authorized, repo.head} /\ o.verdict \in Verdicts
  BY DEF Observations, RoutineInv, TypeOK, RestTyped, Verdicts

LEMMA PreflightStep == ASSUME RoutineInv, Preflight PROVE StepKept
<1>1. PICK o \in Observations :
         /\ repo' = [repo EXCEPT !.authorized = o.authorized]
         /\ run' = IF o.verdict = "none"
                     THEN [run EXCEPT !.at = "loop"]
                     ELSE [run EXCEPT !.at = "resolve", !.verdict = o.verdict,
                                      !.id = RoutineIncidentId(o.verdict, o.authorized)]
  BY DEF Preflight
<1>2. PICK a \in {repo.authorized, repo.head}, v \in Verdicts :
         a = o.authorized /\ v = o.verdict
  BY Observed
<1>3. a \in Commit /\ a \in Nat
  BY Refs DEF Ordered, Commit
<1>4. PICK i \in Ids : i = RoutineIncidentId(v, a) /\ BaseOf(i) = a
  <2>1. attempt \in Nat
    BY RoutineAssumption DEF RoutineInv, TypeOK, RestTyped
  <2>2. Blocker(v) \in Blockers
    BY DEF Blocker, Blockers
  <2>3. \A n \in Nat, b \in Blockers : <<n, a, b>> \in Ids /\ BaseOf(<<n, a, b>>) = a
    BY <1>3 DEF Ids, BaseOf
  <2> QED
    BY <2>1, <2>2, <2>3 DEF RoutineIncidentId
<1>5. Commit' = Commit
  BY CommitsStay DEF Preflight
<1>6. run \in Runs /\ BaseOf(run.id) \in Commit
  BY DEF RoutineInv, TypeOK, RunTyped, Runs
<1>7. RunTyped' /\ run'.at \in Free
  <2>1. CASE v = "none"
    <3>1. run' \in Runs /\ run'.id = run.id /\ run'.at = "loop"
      BY <1>1, <1>2, <1>6, <2>1 DEF Runs, Places
    <3> QED
      BY <1>5, <1>6, <3>1 DEF RunTyped, Runs, Free, Places, Holding, Accepting
  <2>2. CASE v # "none"
    <3>1. run' = [run EXCEPT !.at = "resolve", !.verdict = v, !.id = i]
      BY <1>1, <1>2, <1>4, <2>2
    <3>2. run' \in Runs /\ run'.id = i /\ run'.at = "resolve"
      BY <1>6, <3>1 DEF Runs, Places
    <3> QED
      BY <1>3, <1>4, <1>5, <3>2 DEF RunTyped, Runs, Free, Places, Holding, Accepting
  <2> QED
    BY <2>1, <2>2
<1> QED
  BY <1>1, <1>2, <1>7, ObservingStep DEF Preflight

LEMMA RetryStep == ASSUME RoutineInv, Retry PROVE StepKept
<1>1. run \in Runs /\ BaseOf(run.id) \in Commit /\ Incident.again \in Answers
  BY IncidentTyped DEF RoutineInv, TypeOK, RunTyped, Runs, Incidents
<1>2. Commit' = Commit
  BY CommitsStay DEF Retry
<1>3. PICK a \in {repo.authorized, repo.head}, p \in {"conclude", "retried"}, v \in Answers :
         /\ repo' = [repo EXCEPT !.authorized = a]
         /\ run' = [run EXCEPT !.at = p, !.again = v]
  <2>1. CASE Incident.again # "unasked"
    <3>1. repo' = [repo EXCEPT !.authorized = repo.authorized]
      BY <2>1, Refs DEF Retry
    <3> QED
      BY <1>1, <2>1, <3>1 DEF Retry
  <2>2. CASE Incident.again = "unasked"
    <3>1. PICK o \in Observations :
             /\ repo' = [repo EXCEPT !.authorized = o.authorized]
             /\ run' = [run EXCEPT !.at = "retried", !.again = o.verdict]
      BY <2>2 DEF Retry
    <3> QED
      BY <3>1, Observed DEF Answers
  <2> QED
    BY <2>1, <2>2
<1>4. run' \in Runs /\ run'.id = run.id /\ run'.at = p
  BY <1>1, <1>3 DEF Runs, Places
<1>5. RunTyped' /\ run'.at \in Free
  BY <1>1, <1>2, <1>4 DEF RunTyped, Runs, Free, Places, Holding, Accepting
<1> QED
  BY <1>3, <1>5, ObservingStep DEF Retry

\* What is known of the candidate of the run.
LEMMA CandidateHeld ==
  ASSUME RoutineInv, run.at \in {"review", "reviewed"} \cup Accepting
  PROVE  /\ run.candidate \in Maintained /\ run.candidate \in 1..Len(commits)
         /\ commits[run.candidate].incident = run.id
         /\ run.cycle \in Cycles /\ Incident.made[run.cycle] = run.candidate
         /\ run.candidate # 0
<1>1. /\ run.cycle \in Cycles /\ Incident.made[run.cycle] = run.candidate
      /\ run.candidate # 0
  BY DEF RoutineInv, TypeOK, RunTyped, RunHolds
<1>2. Truthful(run.id, Incident)
  BY EventHolds DEF RoutineInv, Incident
<1>3. Candidate(run.id, run.candidate)
  BY <1>1, <1>2 DEF Truthful
<1> QED
  BY <1>1, <1>3 DEF Candidate, Maintained, RoutineInv, History

LEMMA CandidateReviewed ==
  ASSUME RoutineInv, run.at \in Accepting
  PROVE  Reviewed(run.candidate)
<1>1. /\ run.cycle \in Cycles /\ Incident.made[run.cycle] = run.candidate
      /\ Incident.said[run.cycle] = "ACCEPT"
  BY CandidateHeld DEF RoutineInv, RunHolds
<1>2. Acceptable(run.candidate)
  <2>1. Truthful(run.id, Incident)
    BY EventHolds DEF RoutineInv, Incident
  <2> QED
    BY <1>1, <2>1 DEF Truthful
<1> QED
  BY <1>1, <1>2, CandidateHeld DEF Reviewed, Incident, Acceptable

\* Publishing and merging go on with an accepted candidate.
LEMMA AcceptingHolds ==
  ASSUME RoutineInv, UNCHANGED <<commits, incidents>>, run.at \in Accepting,
         NEW p \in Accepting, Goto(p)
  PROVE  RunTyped' /\ RunHolds' /\ run'.at = p /\ run'.candidate = run.candidate
<1>1. /\ RunTyped' /\ run'.at = p
      /\ run'.id = run.id /\ run'.candidate = run.candidate /\ run'.cycle = run.cycle
  BY GotoTyped DEF Places
<1>2. Incident' = Incident
  BY <1>1 DEF Incident, Event
<1>3. /\ run.candidate # 0 /\ Incident.made[run.cycle] = run.candidate
      /\ Incident.said[run.cycle] = "ACCEPT"
  BY CandidateHeld DEF RoutineInv, RunHolds
<1> QED
  BY <1>1, <1>2, <1>3 DEF RunHolds, At, Accepting

LEMMA PublishStep == ASSUME RoutineInv, Publish PROVE StepKept
<1>1. /\ At("adopt") /\ Publishable /\ Goto("pushed")
      /\ repo' = [repo EXCEPT !.origin = run.candidate]
      /\ UNCHANGED <<commits, clones, trouble, attempt, incidents, faults>>
  BY DEF Publish
<1>2. RestTyped'
  BY <1>1, RestStays
<1>3. run.at \in Accepting /\ "pushed" \in Accepting
  BY <1>1 DEF At, Accepting
<1>4. RunTyped' /\ RunHolds' /\ run'.candidate = run.candidate
  BY <1>1, <1>3, AcceptingHolds
<1>5. PICK h \in Commit, o \in Commit, a \in Commit, c \in 1..Len(commits) :
         h = repo.head /\ o = repo.origin /\ a = repo.authorized /\ c = run.candidate
  BY <1>3, Refs, CandidateHeld
<1>6. c \in Commit /\ Len(commits) \in Nat
  BY Refs DEF Ordered, Commit
<1>7. repo' = [head |-> h, origin |-> c, authorized |-> a]
  <2>1. repo = [head |-> h, origin |-> o, authorized |-> a]
    BY <1>5, Refs
  <2> QED
    BY <1>1, <1>5, <2>1
<1>8. Line(c) = {c} \cup Line(o) /\ h = o
  <2>1. o = Parent(c) /\ h = o
    BY <1>1, <1>3, <1>5, CandidateHeld, CandidateReviewed DEF Publishable, Reviewed
  <2> QED
    BY <2>1, Refs, LineUnfolds DEF LinesUnfold
<1>9. /\ Maintained \cap Line(h) \subseteq Line(c)
      /\ Maintained \cap Line(a) \subseteq Line(c)
      /\ \A d \in Maintained \cap Line(c) : Reviewed(d)
  BY <1>3, <1>5, <1>8, Refs, CandidateReviewed
<1>10. run'.candidate \in Line(c)
  BY <1>4, <1>5, <1>8
<1> QED
  BY <1>1, <1>2, <1>4, <1>6, <1>7, <1>9, <1>10, MovingStep

LEMMA FastForwardStep == ASSUME RoutineInv, FastForward PROVE StepKept
<1>1. /\ At("pushed") /\ repo.head = Parent(run.candidate) /\ Goto("merged")
      /\ repo' = [repo EXCEPT !.head = run.candidate]
      /\ UNCHANGED <<commits, clones, trouble, attempt, incidents, faults>>
  BY DEF FastForward
<1>2. RestTyped'
  BY <1>1, RestStays
<1>3. run.at \in Accepting /\ "merged" \in Accepting
  BY <1>1 DEF At, Accepting
<1>4. RunTyped' /\ RunHolds' /\ run'.at = "merged"
  BY <1>1, <1>3, AcceptingHolds
<1>5. PICK h \in Commit, o \in Commit, a \in Commit, c \in 1..Len(commits) :
         h = repo.head /\ o = repo.origin /\ a = repo.authorized /\ c = run.candidate
  BY <1>3, Refs, CandidateHeld
<1>6. c \in Commit /\ Len(commits) \in Nat
  BY Refs DEF Ordered, Commit
<1>7. repo' = [head |-> c, origin |-> o, authorized |-> a]
  <2>1. repo = [head |-> h, origin |-> o, authorized |-> a]
    BY <1>5, Refs
  <2> QED
    BY <1>1, <1>5, <2>1
<1>8. Line(c) = {c} \cup Line(h) /\ c \in Line(o)
  <2>1. h = Parent(c) /\ run.candidate \in Line(repo.origin)
    BY <1>1, <1>5 DEF RoutineInv, RefsInLine
  <2> QED
    BY <1>5, <2>1, Refs, LineUnfolds DEF LinesUnfold
<1>9. /\ Maintained \cap Line(c) \subseteq Line(o)
      /\ Maintained \cap Line(a) \subseteq Line(o)
      /\ \A d \in Maintained \cap Line(o) : Reviewed(d)
  BY <1>5, <1>8, Refs
<1> QED
  BY <1>1, <1>2, <1>4, <1>6, <1>7, <1>9, MovingStep

LEMMA AdoptOfficialStep == ASSUME RoutineInv, AdoptOfficial PROVE StepKept
<1>1. /\ At("merged") /\ repo' = [repo EXCEPT !.authorized = repo.head]
      /\ clones' \subseteq clones
      /\ UNCHANGED <<commits, trouble, attempt, faults>>
      /\ (Goto("adopted") /\ UNCHANGED incidents) \/ FinishHuman
  BY DEF AdoptOfficial
<1>2. RestTyped'
  BY <1>1, RestStays
<1>3. run.at \in Accepting /\ "adopted" \in Accepting
  BY <1>1 DEF At, Accepting
<1>4. PICK h \in Commit, o \in Commit, a \in Commit :
         h = repo.head /\ o = repo.origin /\ a = repo.authorized
  BY Refs
<1>5. repo' = [head |-> h, origin |-> o, authorized |-> h]
  <2>1. repo = [head |-> h, origin |-> o, authorized |-> a]
    BY <1>4, Refs
  <2> QED
    BY <1>1, <1>4, <2>1
<1>6. /\ Maintained \cap Line(h) \subseteq Line(o)
      /\ \A d \in Maintained \cap Line(o) : Reviewed(d)
  BY <1>4, Refs
<1>7. CASE Goto("adopted") /\ UNCHANGED incidents
  <2>1. RunTyped' /\ RunHolds' /\ run'.at = "adopted"
    BY <1>1, <1>3, <1>7, AcceptingHolds
  <2> QED
    BY <1>1, <1>2, <1>5, <1>6, <1>7, <2>1, MovingStep
<1>8. CASE FinishHuman
  <2> DEFINE e == [Incident EXCEPT !.closed = "blocked"]
  <2>1. e \in Incidents /\ e.made = Incident.made /\ e.said = Incident.said
    BY IncidentTyped DEF Incidents
  <2>2. Write(e) /\ run' = Off
    BY <1>8 DEF FinishHuman
  <2> HIDE DEF e
  <2>3. RunTyped' /\ RunHolds' /\ run'.at # "pushed"
    BY <1>1, <2>2, EndTyped, FreeHolds
  <2>4. Extends(e) /\ Truthful(run.id, e)
    BY <2>1, Told
  <2> QED
    BY <1>1, <1>2, <1>5, <1>6, <2>1, <2>2, <2>3, <2>4, MovingStep
<1> QED
  BY <1>1, <1>7, <1>8

LEMMA OutsideSyncStep == ASSUME RoutineInv, OutsideSync PROVE StepKept
<1>1. /\ UNCHANGED <<commits, clones, trouble, attempt, incidents, run>>
      /\ faults' \in 0..MaxFaults
      /\ \/ repo.origin \in Line(repo.head) /\ repo' = [repo EXCEPT !.origin = repo.head]
         \/ repo.head \in Line(repo.origin) /\ repo' = [repo EXCEPT !.head = repo.origin]
  BY RoutineAssumption DEF OutsideSync, RoutineInv, TypeOK, RestTyped
<1>2. RestTyped'
  BY <1>1, RestStays
<1>3. RunTyped' /\ RunHolds'
  BY <1>1, CommitsStay DEF RoutineInv, TypeOK, RunTyped, RunHolds, At, Incident, Event,
     Candidate, Maintained, Acceptable, Parent
<1>4. PICK h \in Commit, o \in Commit, a \in Commit :
         h = repo.head /\ o = repo.origin /\ a = repo.authorized
  BY Refs
<1>5. repo = [head |-> h, origin |-> o, authorized |-> a]
  BY <1>4, Refs
<1>6. run'.at = "pushed" => run'.candidate \in Line(o)
  BY <1>1, <1>4 DEF RoutineInv, RefsInLine, At
<1>7. CASE o \in Line(h) /\ repo' = [repo EXCEPT !.origin = repo.head]
  <2>1. repo' = [head |-> h, origin |-> h, authorized |-> a]
    BY <1>4, <1>5, <1>7
  <2>2. Line(o) \subseteq Line(h)
    BY <1>7, Refs, LineNested
  <2>3. /\ Maintained \cap Line(a) \subseteq Line(h)
        /\ \A d \in Maintained \cap Line(h) : Reviewed(d)
    BY <1>4, <2>2, Refs
  <2> QED
    BY <1>1, <1>2, <1>3, <1>6, <2>1, <2>2, <2>3, MovingStep
<1>8. CASE h \in Line(o) /\ repo' = [repo EXCEPT !.head = repo.origin]
  <2>1. repo' = [head |-> o, origin |-> o, authorized |-> a]
    BY <1>4, <1>5, <1>8
  <2>2. /\ Maintained \cap Line(a) \subseteq Line(o)
        /\ \A d \in Maintained \cap Line(o) : Reviewed(d)
    BY <1>4, Refs
  <2> QED
    BY <1>1, <1>2, <1>3, <1>6, <2>1, <2>2, MovingStep
<1> QED
  BY <1>1, <1>4, <1>7, <1>8

--------------------------------------------------------------------------------
(* The steps that add a commit.                                            *)

\* What a commit over one there is leaves as it was.
LEMMA CommitAdded ==
  ASSUME RoutineInv, UNCHANGED incidents, NEW e \in CommitRecords, e.parent \in Commit,
         commits' = Append(commits, e), NEW n, n = Len(commits) + 1
  PROVE  /\ commits' \in Seq(CommitRecords) /\ History'
         /\ EventsTyped' /\ EventsTruthful' /\ EventsKept /\ CommitsKept
         /\ Commit \subseteq Commit' /\ n \in Commit' /\ n \in Nat \ {0} /\ n \notin Commit
         /\ \A c \in Commit : Line(c)' = Line(c)
         /\ Line(n)' = {n} \cup Line(e.parent)
         /\ \A c : c \in Maintained' <=> c \in Maintained \/ (c = n /\ e.work # 0)
         /\ n \notin Maintained
         /\ \A i, c : Candidate(i, c) => Candidate(i, c)' /\ commits'[c] = commits[c]
         /\ \A c \in Maintained : Acceptable(c) => Acceptable(c)'
         /\ commits'[n] = e /\ \A i : Event(i)' = Event(i)
<1>1. Ordered /\ commits \in Seq(CommitRecords)
  BY Refs DEF RoutineInv, TypeOK
<1>2. /\ Len(commits) \in Nat /\ Len(commits') = n
      /\ \A c \in 1..Len(commits) : commits'[c] = commits[c]
      /\ commits'[n] = e /\ commits' \in Seq(CommitRecords)
  BY <1>1
<1>3. /\ Ordered' /\ \A c \in Commit : Line(c)' = Line(c)
      /\ Line(n)' = {n} \cup Line(e.parent)
  BY <1>1, LineGrows
<1>4. Commit \subseteq Commit' /\ n \in Commit' /\ n \in Nat \ {0} /\ n \notin Commit
  BY <1>2 DEF Commit
<1>5. /\ \A c : c \in Maintained' <=> c \in Maintained \/ (c = n /\ e.work # 0)
      /\ n \notin Maintained
  BY <1>2 DEF Maintained
<1>6. \A i, c : Candidate(i, c) => Candidate(i, c)' /\ commits'[c] = commits[c]
  BY <1>2, <1>5 DEF Candidate, Maintained
<1>7. History'
  <2>1. ASSUME NEW c \in 1..Len(commits')
        PROVE  commits'[c].parent < c
    <3>1. CASE c = n
      <4>1. e.parent \in 0..Len(commits) /\ commits'[c] = e
        BY <1>2, <3>1 DEF Commit
      <4> QED
        BY <1>2, <3>1, <4>1
    <3>2. CASE c # n
      <4>1. c \in 1..Len(commits)
        BY <1>2, <3>2
      <4> QED
        BY <1>2, <4>1 DEF RoutineInv, History, Parent
    <3> QED
      BY <3>1, <3>2
  <2> QED
    BY <2>1 DEF History, Parent
<1>8. \A i : Event(i)' = Event(i)
  BY DEF Event
<1>9. EventsTyped' /\ EventsKept /\ CommitsKept
  BY <1>2, <1>8 DEF RoutineInv, TypeOK, EventsTyped, EventsKept, CommitsKept
<1>11. ASSUME NEW c \in Maintained, Acceptable(c) PROVE Acceptable(c)'
  <2>1. commits'[c] = commits[c]
    BY <1>2 DEF Maintained
  <2> QED
    BY <1>11, <2>1 DEF Acceptable, Parent
<1>10. EventsTruthful'
  <2>1. ASSUME NEW i, NEW f, Truthful(i, f) PROVE Truthful(i, f)'
    <3>1. ASSUME NEW k \in Cycles
          PROVE  /\ f.made[k] # 0 => Candidate(i, f.made[k])'
                 /\ f.said[k] # "none" => f.made[k] # 0 /\ Acceptable(f.made[k])'
      BY <1>6, <1>11, <2>1 DEF Truthful, Candidate
    <3> QED
      BY <3>1 DEF Truthful
  <2> QED
    BY <2>1 DEF RoutineInv, EventsTruthful
<1> QED
  BY <1>2, <1>3, <1>4, <1>5, <1>6, <1>7, <1>8, <1>9, <1>10, <1>11

\* HEAD and the authorized base stay or go on to a commit that is nobody's candidate.
LEMMA GrowingStep ==
  ASSUME RoutineInv, UNCHANGED incidents, NEW e \in CommitRecords, e.parent \in Commit,
         commits' = Append(commits, e), NEW n, n = Len(commits) + 1,
         NEW h, NEW a, repo' = [head |-> h, origin |-> repo.origin, authorized |-> a],
         h = repo.head \/ (h = n /\ e.work = 0 /\ e.parent = repo.head),
         a = repo.authorized \/ a = h,
         RestTyped', RunTyped', RunHolds',
         run'.at = "pushed" => At("pushed") /\ run'.candidate = run.candidate
  PROVE  StepKept
<1>1. /\ commits' \in Seq(CommitRecords) /\ History'
      /\ EventsTyped' /\ EventsTruthful' /\ EventsKept /\ CommitsKept
      /\ Commit \subseteq Commit' /\ n \in Commit' /\ n \notin Commit
      /\ \A c \in Commit : Line(c)' = Line(c)
      /\ Line(n)' = {n} \cup Line(e.parent)
      /\ \A c : c \in Maintained' <=> c \in Maintained \/ (c = n /\ e.work # 0)
      /\ n \notin Maintained
  BY CommitAdded
<1>2. PICK o \in Commit, p \in Commit, b \in Commit :
         o = repo.origin /\ p = repo.head /\ b = repo.authorized
  BY Refs
<1>3. repo' = [head |-> h, origin |-> o, authorized |-> a]
  BY <1>2
<1>4. h \in Commit' /\ a \in Commit' /\ o \in Commit'
  BY <1>1, <1>2
<1>5. RepoTyped'
  BY <1>3, <1>4 DEF RepoTyped
<1>6. \A c \in Commit : n \notin Line(c)
  <2>1. \A c \in Commit : Line(c) \subseteq Commit
    BY Refs, LineBounded DEF Commit, Ordered
  <2> QED
    BY <1>1, <2>1
<1>7. /\ Line(o)' = Line(o)
      /\ \A c : c \in Maintained' /\ c \in Line(h)' => c \in Maintained /\ c \in Line(p)
      /\ \A c : c \in Maintained' /\ c \in Line(a)'
           => c \in Maintained /\ c \in Line(p) \cup Line(b)
  <2>1. Line(o)' = Line(o) /\ Line(p)' = Line(p) /\ Line(b)' = Line(b)
    BY <1>1
  <2>2. \A c : c \in Maintained' /\ c \in Line(h)' => c \in Maintained /\ c \in Line(p)
    <3>1. CASE h = p
      BY <1>1, <1>6, <2>1, <3>1
    <3>2. CASE h = n /\ e.work = 0 /\ e.parent = p
      <4>1. Line(h)' = {n} \cup Line(p)
        BY <1>1, <3>2
      <4> QED
        BY <1>1, <3>2, <4>1
    <3> QED
      BY <1>2, <3>1, <3>2
  <2>3. \A c : c \in Maintained' /\ c \in Line(b)' => c \in Maintained /\ c \in Line(b)
    BY <1>1, <1>6, <2>1
  <2> QED
    BY <1>2, <2>1, <2>2, <2>3
<1>8. /\ Line(repo.head)' = Line(h)' /\ Line(repo.origin)' = Line(o)'
      /\ Line(repo.authorized)' = Line(a)'
  <2>1. repo'.head = h /\ repo'.origin = o /\ repo'.authorized = a
    BY <1>3
  <2> QED
    BY <2>1 DEF Line
<1>9. /\ Maintained \cap Line(p) \subseteq Line(o) /\ Maintained \cap Line(b) \subseteq Line(o)
      /\ \A c \in Maintained \cap Line(o) : Reviewed(c)
  BY <1>2, Refs
<1>10. RefsInLine' /\ AdoptedIsPublished'
  <2>1. At("pushed") => run.candidate \in Line(o)
    BY <1>2 DEF RoutineInv, RefsInLine
  <2> QED
    BY <1>7, <1>8, <1>9, <2>1 DEF RefsInLine, AdoptedIsPublished, At
<1>11. PublishedIsReviewed'
  <2>1. \A c : c \in Maintained' /\ c \in Line(o)' => c \in Maintained /\ c \in Line(o)
    BY <1>1, <1>6, <1>7
  <2>2. \A c : c \in Maintained' /\ c \in Line(h)' \cup Line(o)'
          => c \in Maintained /\ Reviewed(c)
    BY <1>7, <1>9, <2>1
  <2>3. \A c : c \in Maintained' /\ c \in Line(h)' \cup Line(o)' => Reviewed(c)'
    BY <1>1, <2>2, ReviewStays DEF RoutineInv
  <2> QED
    BY <1>8, <2>3 DEF PublishedIsReviewed, Reviewed, Cycles
<1> QED
  BY <1>1, <1>5, <1>10, <1>11 DEF StepKept, RoutineInv, TypeOK

\* A commit in the checkout: a task's or a person's.
LEMMA TheirCommit ==
  ASSUME RoutineInv,
         NEW n, n = Len(commits) + 1,
         NEW e, e = [parent |-> repo.head, work |-> 0, incident |-> Off.id]
  PROVE  e \in CommitRecords /\ e.parent \in Commit /\ e.work = 0 /\ e.parent = repo.head
<1>1. Off.id \in Ids
  <2>1. <<0, 0, "none">> \in Ids
    BY DEF Ids, Blockers
  <2> QED
    BY <2>1 DEF Off
<1>2. repo.head \in Commit /\ repo.head \in Nat
  BY Refs DEF Commit, Ordered
<1> QED
  BY <1>1, <1>2, RoutineAssumption DEF CommitRecords

LEMMA AcceptedStep == ASSUME RoutineInv, Accepted PROVE StepKept
<1>1. PICK n, e : n = Len(commits) + 1
                  /\ e = [parent |-> repo.head, work |-> 0, incident |-> Off.id]
  OBVIOUS
<1>2. e \in CommitRecords /\ e.parent \in Commit /\ e.work = 0 /\ e.parent = repo.head
  BY <1>1, TheirCommit
<1>3. commits' = Append(commits, e) /\ UNCHANGED incidents
  BY <1>1 DEF Accepted
<1>4. Commit \subseteq Commit' /\ Len(commits') = n
  BY <1>1, <1>2, <1>3, CommitAdded DEF RoutineInv, TypeOK
<1>5. repo' = [head |-> n, origin |-> repo.origin, authorized |-> n]
  BY <1>4, Refs DEF Accepted
<1>6. RestTyped'
  BY <1>4, RoutineAssumption DEF Accepted, RoutineInv, TypeOK, RestTyped
<1>7. RunTyped' /\ run'.at \in Free
  <2> DEFINE O == Off
  <2>1. O \in [at : Places, verdict : Verdicts, id : Ids, cycle : Cycles,
               candidate : {0}, decision : Decisions, again : Answers]
    BY DEF Off, Places, Verdicts, Ids, Blockers, Cycles, MaxMaintenanceCycles, Decisions, Answers
  <2>2. BaseOf(O.id) = 0 /\ O.at = "off"
    BY DEF Off, BaseOf
  <2>3. 0 \in Commit'
    BY <1>4, Refs DEF Commit, Ordered
  <2>4. run' = O
    BY DEF Accepted
  <2> HIDE DEF O
  <2> QED
    BY <2>1, <2>2, <2>3, <2>4 DEF RunTyped, Free, Places, Holding, Accepting
<1> QED
  BY <1>1, <1>2, <1>3, <1>5, <1>6, <1>7, FreeHolds, GrowingStep

LEMMA OutsideCommitStep == ASSUME RoutineInv, OutsideCommit PROVE StepKept
<1>1. PICK n, e : n = Len(commits) + 1
                  /\ e = [parent |-> repo.head, work |-> 0, incident |-> Off.id]
  OBVIOUS
<1>2. e \in CommitRecords /\ e.parent \in Commit /\ e.work = 0 /\ e.parent = repo.head
  BY <1>1, TheirCommit
<1>3. commits' = Append(commits, e) /\ UNCHANGED <<incidents, run>>
  BY <1>1 DEF OutsideCommit
<1>4. /\ Commit \subseteq Commit'
      /\ \A i, c : Candidate(i, c) => Candidate(i, c)' /\ commits'[c] = commits[c]
      /\ \A c \in Maintained : Acceptable(c) => Acceptable(c)'
  BY <1>1, <1>2, <1>3, CommitAdded
<1>5. repo' = [head |-> n, origin |-> repo.origin, authorized |-> repo.authorized]
  <2>1. Len(commits') = n
    BY <1>1, <1>2, <1>3 DEF RoutineInv, TypeOK
  <2> QED
    BY <2>1, Refs DEF OutsideCommit
<1>6. RestTyped'
  BY <1>4, RoutineAssumption DEF OutsideCommit, RoutineInv, TypeOK, RestTyped
<1>7. RunTyped'
  BY <1>3, <1>4 DEF RoutineInv, TypeOK, RunTyped
<1>8. RunHolds'
  <2>1. Incident' = Incident
    BY <1>3 DEF Incident, Event
  <2> PICK i, c : i = run.id /\ c = run.candidate
    OBVIOUS
  <2>2. At("maintained") => Candidate(i, c)'
    BY <1>4 DEF RoutineInv, RunHolds
  <2>3. At("reviewed") => Acceptable(c)'
    BY <1>4, CandidateHeld DEF RoutineInv, RunHolds, At
  <2>4. At("maintained") => Candidate(run.id, run.candidate)'
    BY <1>3, <2>2 DEF Candidate
  <2>5. At("reviewed") => Acceptable(run.candidate)'
    BY <1>3, <2>3 DEF Acceptable, Parent
  <2> QED
    BY <1>3, <2>1, <2>4, <2>5 DEF RoutineInv, RunHolds, At
<1>9. run'.at = "pushed" => At("pushed") /\ run'.candidate = run.candidate
  BY <1>3 DEF At
<1> QED
  BY <1>1, <1>2, <1>3, <1>5, <1>6, <1>7, <1>8, <1>9, GrowingStep

--------------------------------------------------------------------------------
(* The steps of a maintenance up to its review.                            *)

LEMMA MaintainStep == ASSUME RoutineInv, Maintain PROVE StepKept
<1>1. run \in Runs /\ BaseOf(run.id) \in Commit /\ run.cycle \in Cycles
  BY DEF RoutineInv, TypeOK, RunTyped, Runs
<1>2. CASE Incident.made[run.cycle] # 0
  <2>1. PICK c : c = Incident.made[run.cycle]
    OBVIOUS
  <2>2. c \in Commit /\ c # 0
    <3>1. Truthful(run.id, Incident)
      BY EventHolds DEF RoutineInv, Incident
    <3> QED
      BY <1>1, <1>2, <2>1, <3>1 DEF Truthful, Candidate, Maintained, Commit
  <2>3. /\ run' = [run EXCEPT !.at = "review", !.candidate = c]
        /\ UNCHANGED <<commits, repo, incidents, clones, trouble, attempt, faults>>
    BY <1>2, <2>1 DEF Maintain, Resumed
  <2>4. /\ run' \in Runs /\ run'.id = run.id /\ run'.cycle = run.cycle
        /\ run'.at = "review" /\ run'.candidate = c
    BY <1>1, <2>2, <2>3 DEF Runs, Places
  <2>5. RunTyped'
    BY <1>1, <2>3, <2>4, CommitsStay DEF RunTyped, Runs
  <2>6. RunHolds'
    <3>1. Incident' = Incident
      BY <2>3, <2>4 DEF Incident, Event
    <3> QED
      BY <2>1, <2>2, <2>4, <3>1 DEF RunHolds, At, Accepting
  <2> QED
    BY <2>3, <2>4, <2>5, <2>6, RestStays, QuietStep
<1>3. CASE Incident.made[run.cycle] = 0
  <2> PICK w \in Candidates, p \in Line(BaseOf(run.id)) :
           commits' = Append(commits, [parent |-> p, work |-> w, incident |-> run.id])
    BY <1>3 DEF Maintain
  <2> PICK n, e : /\ n = Len(commits) + 1
                  /\ e = [parent |-> p, work |-> w, incident |-> run.id]
    OBVIOUS
  <2>1. /\ commits' = Append(commits, e)
        /\ clones' = clones \cup {Len(commits')}
        /\ run' = [run EXCEPT !.at = "maintained", !.candidate = Len(commits')]
        /\ UNCHANGED <<repo, trouble, attempt, incidents, faults>>
    BY <1>3 DEF Maintain
  <2>2. w \in 0..Len(Facts) /\ w # 0
    BY DEF Candidates
  <2>3. run.id \in Ids /\ p \in Commit /\ p \in Nat
    BY <1>1, Refs, LineBounded DEF Runs, Ordered, Commit
  <2>4. e \in CommitRecords /\ e.parent \in Commit /\ e.incident = run.id /\ e.work # 0
    BY <2>1, <2>2, <2>3 DEF CommitRecords
  <2>5. /\ Commit \subseteq Commit' /\ n \in Commit' /\ n \in Maintained'
        /\ commits'[n] = e
    BY <1>1, <2>1, <2>4, CommitAdded
  <2>6. Len(commits') = n
    BY <2>1, <2>4 DEF RoutineInv, TypeOK
  <2>7. repo' = [head |-> repo.head, origin |-> repo.origin, authorized |-> repo.authorized]
    BY <2>1, Refs
  <2>8. RestTyped'
    BY <2>1, <2>5, <2>6 DEF RoutineInv, TypeOK, RestTyped
  <2>9. /\ run'.at = "maintained" /\ run'.candidate = n /\ run'.id = run.id
        /\ run'.cycle = run.cycle
        /\ run' \in [at : Places, verdict : Verdicts, id : Ids, cycle : Cycles,
                     candidate : Commit', decision : Decisions, again : Answers]
    BY <1>1, <2>1, <2>5, <2>6 DEF Runs, Places
  <2>10. RunTyped'
    BY <1>1, <2>5, <2>9 DEF RunTyped
  <2>11. RunHolds'
    <3>1. Incident'.made[run.cycle] = 0
      BY <1>3, <2>1, <2>9 DEF Incident, Event
    <3>2. Candidate(run.id, run.candidate)'
      BY <2>4, <2>5, <2>9 DEF Candidate
    <3> QED
      BY <2>9, <3>1, <3>2 DEF RunHolds, At, Accepting
  <2> QED
    BY <1>1, <2>1, <2>4, <2>7, <2>8, <2>9, <2>10, <2>11, GrowingStep
<1> QED
  BY <1>2, <1>3

\* What an event says of the commits, with one more entry.
LEMMA SaveCandidateStep == ASSUME RoutineInv, SaveCandidate PROVE StepKept
<1>1. /\ Candidate(run.id, run.candidate) /\ Incident.made[run.cycle] = 0
      /\ run.cycle \in Cycles /\ run.candidate \in Nat \ {0}
  BY Refs DEF SaveCandidate, RoutineInv, TypeOK, RunTyped, RunHolds, Commit, Ordered,
     Candidate, Maintained
<1>2. Incident \in Incidents /\ Truthful(run.id, Incident)
  BY EventHolds DEF RoutineInv, Incident
<1> DEFINE e == [Incident EXCEPT !.made[run.cycle] = run.candidate]
<1>3. /\ e \in Incidents /\ e.said = Incident.said
      /\ e.made = [Incident.made EXCEPT ![run.cycle] = run.candidate]
  BY <1>1, <1>2 DEF Incidents
<1>4. Write(e) /\ Goto("review") /\ UNCHANGED world /\ UNCHANGED faults
  BY DEF SaveCandidate
<1> HIDE DEF e
<1>5. \A k \in Cycles :
        e.made[k] = IF k = run.cycle THEN run.candidate ELSE Incident.made[k]
  BY <1>1, <1>2, <1>3 DEF Incidents
<1>6. Extends(e)
  BY <1>1, <1>3, <1>5 DEF Extends
<1>7. Truthful(run.id, e)
  BY <1>1, <1>2, <1>3, <1>5 DEF Truthful
<1>8. RestTyped'
  BY <1>4, RestStays DEF world
<1>9. /\ RunTyped' /\ run'.at = "review" /\ run'.id = run.id
      /\ run'.candidate = run.candidate /\ run'.cycle = run.cycle
  BY <1>4, GotoTyped DEF Places, world
<1>10. Incident' = e
  BY <1>3, <1>4, <1>6, <1>7, <1>9, WriteStep DEF world
<1>11. RunHolds'
  BY <1>1, <1>5, <1>9, <1>10 DEF RunHolds, At, Accepting
<1> QED
  BY <1>3, <1>4, <1>6, <1>7, <1>8, <1>9, <1>11, QuietStep DEF world

\* Where a decision leads.
LEMMA JudgedStep ==
  ASSUME RoutineInv, UNCHANGED <<commits, repo>>, RestTyped',
         run.at \in {"review", "reviewed"},
         NEW e \in Incidents, Extends(e), Truthful(run.id, e),
         e.made[run.cycle] = run.candidate,
         NEW d \in Decisions, e.said[run.cycle] = d, Judged(e, d)
  PROVE  StepKept
<1>1. run \in Runs /\ BaseOf(run.id) \in Commit /\ run.cycle \in Cycles /\ Commit' = Commit
  BY CommitsStay DEF RoutineInv, TypeOK, RunTyped, Runs
<1>2. CASE d = "ACCEPT"
  <2>1. Write(e) /\ Goto("adopt")
    BY <1>2 DEF Judged
  <2>2. /\ RunTyped' /\ run'.at = "adopt" /\ run'.id = run.id
        /\ run'.candidate = run.candidate /\ run'.cycle = run.cycle
    BY <2>1, GotoTyped DEF Places, Accepting
  <2>3. Incident' = e
    BY <2>1, <2>2, WriteStep
  <2>4. RunHolds'
    BY <1>2, <2>2, <2>3, CandidateHeld DEF RunHolds, At, Accepting
  <2> QED
    BY <2>1, <2>2, <2>4, QuietStep
<1>3. CASE d # "ACCEPT" /\ d = "REJECT" /\ run.cycle < MaxMaintenanceCycles
  <2>1. Write(e) /\ run' = [run EXCEPT !.at = "maintain", !.cycle = @ + 1]
    BY <1>3 DEF Judged
  <2>2. run.cycle + 1 \in Cycles
    BY <1>1, <1>3 DEF Cycles, MaxMaintenanceCycles
  <2>3. run' \in Runs /\ run'.id = run.id /\ run'.at = "maintain"
    BY <1>1, <2>1, <2>2 DEF Runs, Places
  <2>4. RunTyped' /\ run'.at \in Free
    BY <1>1, <2>3 DEF RunTyped, Runs, Free, Places, Holding, Accepting
  <2> QED
    BY <2>1, <2>4, FreeHolds, QuietStep
<1>4. CASE d # "ACCEPT" /\ ~(d = "REJECT" /\ run.cycle < MaxMaintenanceCycles)
  <2> DEFINE f == [e EXCEPT !.closed = "blocked"]
  <2>1. f \in Incidents /\ f.made = e.made /\ f.said = e.said
    BY DEF Incidents
  <2>2. Write(f) /\ run' = Off
    BY <1>4 DEF Judged
  <2> HIDE DEF f
  <2>3. Extends(f) /\ Truthful(run.id, f)
    BY <2>1 DEF Extends, Truthful
  <2> QED
    BY <2>1, <2>2, <2>3, EndTyped, FreeHolds, QuietStep
<1> QED
  BY <1>2, <1>3, <1>4

LEMMA SaveReviewStep == ASSUME RoutineInv, SaveReview PROVE StepKept
<1>1. /\ run.at = "reviewed" /\ run.cycle \in Cycles /\ run.decision \in Decisions
      /\ Incident.made[run.cycle] = run.candidate /\ Incident.said[run.cycle] = "none"
      /\ Acceptable(run.candidate) /\ run.candidate # 0
  BY CandidateHeld DEF SaveReview, At, RoutineInv, TypeOK, RunTyped, RunHolds
<1>2. Incident \in Incidents /\ Truthful(run.id, Incident)
  BY EventHolds DEF RoutineInv, Incident
<1> DEFINE e == [Incident EXCEPT !.said[run.cycle] = run.decision]
<1>3. /\ e \in Incidents /\ e.made = Incident.made
      /\ e.said = [Incident.said EXCEPT ![run.cycle] = run.decision]
  BY <1>1, <1>2 DEF Incidents
<1>4. Judged(e, run.decision) /\ UNCHANGED world /\ UNCHANGED faults
  BY DEF SaveReview
<1> HIDE DEF e
<1>5. \A k \in Cycles :
        e.said[k] = IF k = run.cycle THEN run.decision ELSE Incident.said[k]
  BY <1>1, <1>2, <1>3 DEF Incidents
<1>6. Extends(e)
  BY <1>1, <1>3, <1>5 DEF Extends
<1>7. Truthful(run.id, e)
  BY <1>1, <1>2, <1>3, <1>5 DEF Truthful
<1>8. RestTyped'
  BY <1>4, RestStays DEF world
<1> QED
  BY <1>1, <1>3, <1>4, <1>5, <1>6, <1>7, <1>8, JudgedStep DEF world

LEMMA ReviewStep == ASSUME RoutineInv, Review PROVE StepKept
<1>1. /\ run.at = "review" /\ run \in Runs /\ BaseOf(run.id) \in Commit
      /\ run.cycle \in Cycles /\ Incident.made[run.cycle] = run.candidate
      /\ run.candidate # 0 /\ Acceptable(run.candidate)
  BY CandidateHeld DEF Review, At, RoutineInv, TypeOK, RunTyped, Runs
<1>2. Incident \in Incidents /\ Truthful(run.id, Incident)
  BY EventHolds DEF RoutineInv, Incident
<1>3. UNCHANGED <<commits, repo>> /\ RestTyped' /\ Commit' = Commit
  <2>1. UNCHANGED <<commits, repo, trouble, attempt, faults>> /\ clones' \subseteq clones
    BY DEF Review
  <2> QED
    BY <2>1, RestStays, CommitsStay
<1>4. CASE Incident.said[run.cycle] # "none"
  <2>1. PICK d \in Decisions : d = Incident.said[run.cycle]
    BY <1>1, <1>2 DEF Incidents
  <2>2. Judged(Incident, d)
    BY <1>4, <2>1 DEF Review
  <2>3. Extends(Incident)
    BY DEF Extends
  <2> QED
    BY <1>1, <1>2, <1>3, <2>1, <2>2, <2>3, JudgedStep
<1>5. CASE Incident.said[run.cycle] = "none"
  <2>1. PICK d \in {"ACCEPT", "REJECT", "HUMAN_REQUIRED"} :
           run' = [run EXCEPT !.at = "reviewed", !.decision = d]
    BY <1>5 DEF Review
  <2>2. UNCHANGED incidents
    BY <1>5 DEF Review
  <2>3. /\ run' \in Runs /\ run'.at = "reviewed" /\ run'.id = run.id
        /\ run'.cycle = run.cycle /\ run'.candidate = run.candidate
    BY <1>1, <2>1 DEF Runs, Places, Decisions
  <2>4. RunTyped'
    BY <1>1, <1>3, <2>3 DEF RunTyped, Runs
  <2>5. Incident' = Incident
    BY <2>2, <2>3 DEF Incident, Event
  <2>6. RunHolds'
    BY <1>1, <1>3, <1>5, <2>3, <2>5 DEF RunHolds, At, Accepting, Acceptable, Parent
  <2> QED
    BY <1>3, <2>2, <2>3, <2>4, <2>6, QuietStep
<1> QED
  BY <1>4, <1>5

--------------------------------------------------------------------------------
(* The theorems.                                                           *)

LEMMA RoutineInit == Init => RoutineInv
<1> SUFFICES ASSUME Init PROVE RoutineInv
  OBVIOUS
<1>1. /\ commits = <<>> /\ repo = [head |-> 0, origin |-> 0, authorized |-> 0]
      /\ clones = {} /\ trouble = "none" /\ attempt = 0
      /\ incidents = <<>> /\ run = Off /\ faults = 0
  BY DEF Init
<1>2. commits \in Seq(CommitRecords) /\ Len(commits) = 0 /\ DOMAIN incidents = {}
  BY <1>1
<1>3. Commit = {0} /\ Maintained = {}
  BY <1>2 DEF Commit, Maintained
<1>4. RepoTyped
  BY <1>1, <1>3 DEF RepoTyped
<1>5. RunTyped
  <2>1. <<0, 0, "none">> \in Ids
    BY DEF Ids, Blockers
  <2>2. run = [at |-> "off", verdict |-> "none", id |-> <<0, 0, "none">>, cycle |-> 1,
               candidate |-> 0, decision |-> "none", again |-> "unasked"]
    BY <1>1 DEF Off
  <2> QED
    BY <1>3, <2>1, <2>2 DEF RunTyped, BaseOf, Places, Verdicts, Cycles,
       MaxMaintenanceCycles, Decisions, Answers
<1>6. RestTyped /\ EventsTyped
  BY <1>1, <1>2, RoutineAssumption DEF RestTyped, EventsTyped, Verdicts
<1>7. History /\ EventsTruthful /\ RefsInLine /\ PublishedIsReviewed /\ AdoptedIsPublished
  BY <1>1, <1>2, <1>3 DEF History, EventsTruthful, RefsInLine, PublishedIsReviewed,
     AdoptedIsPublished, At, Off
<1>8. RunHolds
  BY <1>1 DEF RunHolds, At, Off, Accepting
<1> QED
  BY <1>2, <1>4, <1>5, <1>6, <1>7, <1>8 DEF RoutineInv, TypeOK

LEMMA RoutineNext == RoutineInv /\ [Next]_vars => RoutineInv' /\ [EventsKept /\ CommitsKept]_vars
<1> SUFFICES ASSUME RoutineInv, [Next]_vars
             PROVE  RoutineInv' /\ [EventsKept /\ CommitsKept]_vars
  OBVIOUS
<1>1. CASE UNCHANGED vars
  <2>1. UNCHANGED <<commits, repo, incidents, run, clones, trouble, attempt, faults>>
    BY <1>1 DEF vars
  <2>2. RestTyped' /\ RunTyped' /\ RunHolds'
    BY <2>1, CommitsStay, RestStays DEF RoutineInv, TypeOK, RunTyped, RunHolds, At,
       Incident, Event, Candidate, Maintained, Acceptable, Parent
  <2>3. run'.at = "pushed" => run'.candidate \in Line(repo.origin)
    BY <2>1 DEF RoutineInv, RefsInLine, At
  <2> QED
    BY <1>1, <2>1, <2>2, <2>3, QuietStep DEF StepKept
<1>2. CASE Step
  BY <1>2, PreflightStep, UnheldStep, DetectStep, RecordingStep, MaintainStep,
     SaveCandidateStep, ReviewStep, SaveReviewStep, PublishStep, FastForwardStep,
     AdoptOfficialStep, RetryStep, AcceptedStep DEF Step, StepKept
<1>3. CASE Start \/ Crash \/ OutsideCommit \/ OutsideSync \/ OutsideRepair
  BY <1>3, UnheldStep, OutsideCommitStep, OutsideSyncStep DEF StepKept
<1> QED
  BY <1>1, <1>2, <1>3 DEF Next

\* For every number of candidates, commits, attempts and faults, whatever a
\* maintainer wrote and is in HEAD or at origin was accepted by an independent
\* review of its incident, inside the boundary and over the base of the incident.
THEOREM PublishedReviewed == Spec => []PublishedIsReviewed
<1>1. Init => RoutineInv
  BY RoutineInit
<1>2. RoutineInv /\ [Next]_vars => RoutineInv'
  BY RoutineNext
<1>3. RoutineInv => PublishedIsReviewed
  BY DEF RoutineInv
<1> QED
  BY <1>1, <1>2, <1>3, PTL DEF Spec

\* For every number of them, no maintenance is the authorized base before origin
\* has it, whenever the process dies and whoever moves HEAD.
THEOREM AdoptedPublished == Spec => []AdoptedIsPublished
<1>1. Init => RoutineInv
  BY RoutineInit
<1>2. RoutineInv /\ [Next]_vars => RoutineInv'
  BY RoutineNext
<1>3. RoutineInv => AdoptedIsPublished
  BY DEF RoutineInv
<1> QED
  BY <1>1, <1>2, <1>3, PTL DEF Spec

\* No step of an invocation, replayed or not, changes the candidate or the review
\* that an incident has on record, and none rewrites a commit.
THEOREM EventsWriteOnce == Spec => [][EventsKept /\ CommitsKept]_vars
<1>1. Init => RoutineInv
  BY RoutineInit
<1>2. RoutineInv /\ [Next]_vars => RoutineInv' /\ [EventsKept /\ CommitsKept]_vars
  BY RoutineNext
<1> QED
  BY <1>1, <1>2, PTL DEF Spec
================================================================================
