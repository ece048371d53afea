---------------------------- MODULE MCProjectPlanning ----------------------------
EXTENDS ProjectPlanning

Everything == [profiles |-> {"opus", "sol", "mini"},
               agents |-> {"claude", "codex", "opencode"}, billing |-> {"subscription"}]

Local == {"CONFIGURED_SUBSCRIPTION_WORKER"}

Opus == [id |-> "opus", agent |-> "claude", provider |-> "anthropic", pool |-> "a",
         billing |-> "subscription", rank |-> 3, tier |-> "advanced",
         planner |-> "yes", cold |-> 0, ownsCommit |-> FALSE]
Sol  == [Opus EXCEPT !.id = "sol", !.agent = "codex", !.provider = "openai",
                     !.pool = "o", !.rank = 2, !.cold = 1]
Mini == [Opus EXCEPT !.id = "mini", !.agent = "opencode", !.provider = "openai",
                     !.pool = "o", !.rank = 1, !.tier = "economy", !.cold = NotACandidate]

ThreeProfiles == {Opus, Sol, Mini}

\* The facts of a profile whose credential probe and pool say this.
Seen(p, probe, pool) ==
  [credential |-> CredentialFact(p, probe), quota |-> QuotaFact(pool)]

\* All is well; the pool of the preferred planner is exhausted, or every pool; or the
\* credential of the second one cannot be proven.
FourObservations ==
  LET well == [p \in ThreeProfiles |-> Seen(p, "subscription", "KNOWN")]
      spent(p) == Seen(p, "subscription", "EXHAUSTED")
  IN {well, [well EXCEPT ![Opus] = spent(Opus)], [p \in ThreeProfiles |-> spent(p)],
      [well EXCEPT ![Sol] = Seen(Sol, "none", "KNOWN"),
                   ![Opus] = Seen(Opus, "subscription", "none")]}

Inspected == [git |-> 0, permissions |-> "adequate", dependencies |-> TRUE,
              candidates |-> TRUE, anchors |-> TRUE]

U == [id |-> "u1", class |-> "feature", blockedBy |-> {}, acceptance |-> {"goal"}, areas |-> {"src"},
      files |-> 1, expected |-> 5, most |-> 5, tokens |-> 10, risk |-> "low",
      ambiguity |-> "low", complexity |-> "local", verification |-> "deterministic",
      difficulty |-> "easy", service |-> FALSE, sourced |-> TRUE, checks |-> "plain"]

V == [U EXCEPT !.id = "u2", !.blockedBy = {"u1"}]

Draft(units) == [wellFormed |-> TRUE, units |-> units]

\* Two that pass, and one that each gate refuses.
FiveDrafts ==
  {Draft(<<U>>), Draft(<<U, V>>),
   Draft(<<[U EXCEPT !.blockedBy = {"u2"}], V>>),
   Draft(<<[U EXCEPT !.acceptance = {}]>>),
   Draft(<<[U EXCEPT !.risk = "critical", !.most = 40]>>)}

Goal == {"goal"}
================================================================================
