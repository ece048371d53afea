---------------------------- MODULE MCProjectHistory ----------------------------
(* Instances of ProjectHistory for TLC. *)
EXTENDS ProjectHistory

Terra == [id |-> "terra-medium", place |-> 1, agent |-> "codex", provider |-> "openai",
         pool |-> "openai-plan", billing |-> "subscription", model |-> "terra",
         effort |-> "medium", prior |-> <<>>,
         roles |-> [r \in Router!Roles |-> "yes"], environment |-> "controlled",
         ownsValidation |-> FALSE]
Sonnet == [Terra EXCEPT !.id = "sonnet-medium", !.place = 2, !.agent = "claude",
                       !.provider = "anthropic", !.pool = "claude-plan", !.model = "sonnet"]

TwoProfiles == (1 :> Terra) @@ (2 :> Sonnet)

Granted ==
  [boundary |-> {"DISPOSABLE_LOCAL_WORKSPACE", "CONFIGURED_SUBSCRIPTION_WORKER",
                 "BOUNDED_REPAIR", "CAPABILITY_ESCALATION_WITHIN_LADDER",
                 "CROSS_PROVIDER_WITHIN_ALLOWED_SUBSCRIPTION_PROFILES"},
   agents |-> {"codex", "claude"}, billing |-> {"subscription"}]

Unit == [id |-> "unit", class |-> "feature", blockedBy |-> {}, acceptance |-> {"goal"},
         areas |-> {"src"}, files |-> 1, expected |-> 5, most |-> 5, tokens |-> 10,
         risk |-> "low", ambiguity |-> "medium", complexity |-> "multi_file",
         verification |-> "deterministic", difficulty |-> "medium", service |-> FALSE,
         sourced |-> TRUE, checks |-> "plain"]

SameWork == [t \in Tasks |-> Unit]
Ready == [git |-> 1, permissions |-> "adequate", dependencies |-> TRUE,
          candidates |-> TRUE, anchors |-> TRUE]
ThreeOne == (1 :> 3) @@ (2 :> 1)
FirstSpent == {{}, {"openai-plan"}}
Seeded == {<<[by |-> 2, passed |-> TRUE]>>}
================================================================================
