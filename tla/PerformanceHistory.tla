---------------------------- MODULE PerformanceHistory ----------------------------
(***************************************************************************)
(* What the laboratory makes of the runs on disk (src/src/performance):    *)
(* the attempts of one piece of work are put back together into episodes,  *)
(* an episode counts for the profile that began it, and the episodes that  *)
(* are comparable become the series the router reads. Nothing is read that *)
(* does not verify, and what was not recorded stays unknown.               *)
(***************************************************************************)
EXTENDS Integers, Sequences, FiniteSets, SequencesExt

Unknown == "UNKNOWN"

\* What is asked of an attempt may have no answer; a count may be missing.
Answers     == {"yes", "no", Unknown}
YesNo(b)    == IF b THEN "yes" ELSE "no"
NotRecorded == -1

\* A run as the query meets it has its identity, the context pinned in its
\* record (<<>> in older ones), what comparable-run-facts.json says and the facts
\* of the attempt; "intact" is the verdict of verifyRunIntegrity, "complete" that
\* every artifact of the pinned selection was there and parsed.
Context(r) == r.context[1]

--------------------------------------------------------------------------------
(* history.ts.                                                             *)

\* readTrialHistory and readRun: without a run record a directory is no run,
\* and one that does not verify, or misses what was pinned, is left out.
ReadableRuns(disk) == {r \in disk : r.recorded /\ r.intact /\ r.complete}

--------------------------------------------------------------------------------
(* query.ts, from runs to episodes.                                        *)

\* queryPerformanceHistoryV2: what can be observed of one piece of work.
Observed(disk, work) ==
  {r \in ReadableRuns(disk) : /\ r.context # <<>>
                              /\ Context(r).work = work
                              /\ Context(r).selection = r.selection}

EpisodeIds(observed) == {Context(r).episode : r \in observed}

AttemptsOf(observed, episode) == {r \in observed : Context(r).episode = episode}

InOrder(attempts) ==
  SetToSortSeq(attempts, LAMBDA l, r : Context(l).ordinal < Context(r).ordinal)

ProfileOf(r) == <<r.identity.profile, r.identity.fingerprint>>

Initials(attempts) ==
  {r \in attempts : r.role = "initial" /\ ProfileOf(r) = Context(r).initial}

\* Two attempts that tell different stories, or claim one place, discredit their
\* episode; so does the absence of the attempt that began it.
Coherent(attempts) ==
  /\ \A l, r \in attempts : Context(l).initial = Context(r).initial
  /\ \A l, r \in attempts : l # r => Context(l).ordinal # Context(r).ordinal
  /\ Initials(attempts) # {}

\* The first INITIAL by ordinal anchors the episode.
Anchor(attempts) == SelectSeq(InOrder(attempts), LAMBDA r : r \in Initials(attempts))[1]

Episodes(observed) ==
  {attempts \in {AttemptsOf(observed, e) : e \in EpisodeIds(observed)} : Coherent(attempts)}

--------------------------------------------------------------------------------
(* derive-performance.ts, of the attempts of one episode.                  *)

\* deriveHumanIntervention: one recorded intervention says yes, only a record of
\* none for every attempt says no.
HumanIntervention(attempts) ==
  IF \E r \in attempts : r.interventions = 1 THEN "yes"
  ELSE IF \A r \in attempts : r.interventions = 0 THEN "no" ELSE Unknown

\* deriveSuccess.
FirstOperationalPass(attempts) == YesNo(InOrder(attempts)[1].outcome = "PASS")
FinalPass(attempts) == YesNo(\E r \in attempts : r.outcome = "PASS")

\* deriveAttemptCounts.
OfRole(attempts, role) == {r \in attempts : r.role = role}

--------------------------------------------------------------------------------
(* query.ts, the metrics: [size, value, of] for value / of over a sample   *)
(* of that size, "of" = 0 when there is no value.                          *)

NoMetric(size) == [size |-> size, value |-> 0, of |-> 0]

\* countRate.
CountRate(value, size, minimum) ==
  IF size = 0 \/ size < minimum THEN NoMetric(size)
  ELSE [size |-> size, value |-> value, of |-> size]

\* booleanRate, of what each item answers; some do not know.
BooleanRate(held, minimum) ==
  LET known == {x \in DOMAIN held : held[x] # Unknown}
  IN CountRate(Cardinality({x \in known : held[x] = "yes"}), Cardinality(known), minimum)

\* distributionMetric and percentile: the nearest-rank p90 of what was recorded.
Percentile90(of) ==
  LET known == {x \in DOMAIN of : of[x] # NotRecorded}
      size  == Cardinality(known)
      Rank(x) == Cardinality({y \in known : of[y] <= of[x]})
      high  == {of[x] : x \in {y \in known : Rank(y) * 10 >= size * 9}}
  IN IF known = {} THEN NoMetric(0)
     ELSE [size |-> size, of |-> 1, value |-> CHOOSE v \in high : \A w \in high : v <= w]

\* categoricalMetric, of the category the router asks for.
Categorical(items, category) ==
  LET known == {r \in items : r.identity.pressure # Unknown}
  IN CountRate(Cardinality({r \in known : r.identity.pressure = category}),
               Cardinality(known), 1)

--------------------------------------------------------------------------------
(* query.ts, from episodes to series.                                      *)

\* deriveComparableRunIdentity: one unknown dimension and the run is comparable
\* to nothing.
Comparable(r) == \A d \in DOMAIN r.identity : r.identity[d] # Unknown

SeriesKey(r) == IF Comparable(r) THEN <<"series", r.identity>> ELSE <<"unmergeable", r.id>>

\* aggregateSeries, over the episodes a profile began. Success, roles and
\* intervention are of whole episodes, costs and quality of their first runs.
RoutingMetrics(episodes, minimum) ==
  LET all   == UNION episodes
      rated == {r \in all : r.role # Unknown}
      first == UNION {{r \in Initials(e) : SeriesKey(r) = SeriesKey(Anchor(e))} : e \in episodes}
      Rate(role) == CountRate(Cardinality(OfRole(all, role)), Cardinality(rated), minimum)
  IN [first_pass   |-> BooleanRate([e \in episodes |-> FirstOperationalPass(e)], minimum),
      final_pass   |-> BooleanRate([e \in episodes |-> FinalPass(e)], minimum),
      repair       |-> Rate("repair"),
      escalation   |-> Rate("escalation"),
      duration     |-> Percentile90([r \in first |-> r.duration]),
      tokens       |-> Percentile90([r \in first |-> r.tokens]),
      intervention |-> BooleanRate([e \in episodes |-> HumanIntervention(e)], minimum),
      qualified    |-> BooleanRate([r \in first |-> YesNo(r.qualified)], minimum),
      pressure     |-> Categorical(first, "low"),
      quota        |-> NoMetric(0),
      cost         |-> NoMetric(0)]

\* aggregateProfileSeriesV2, for the profiles that may be chosen now.
Series(observed, profiles, minimum) ==
  LET counted == Episodes(observed)
      within  == {r \in observed : r.identity.profile \in profiles}
      Of(key) == LET member == CHOOSE r \in within : SeriesKey(r) = key
                     begun  == {e \in counted : SeriesKey(Anchor(e)) = key}
                 IN member.identity @@
                    [comparable |-> Comparable(member), initialEligible |-> begun # {},
                     trials |-> Cardinality(begun), metrics |-> RoutingMetrics(begun, minimum)]
  IN {Of(key) : key \in {SeriesKey(r) : r \in within}}

================================================================================
