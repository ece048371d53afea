---------------------------- MODULE MCOrchestration ----------------------------
(* Instances of Orchestration for TLC. *)
EXTENDS Orchestration, TLC

Mode(plane, routine, skip, profile, limit) ==
  [plane |-> plane, routine |-> routine, skip |-> skip, profile |-> profile, limit |-> limit]

\* Every switch both ways, and an invocation of either kind after the other.
Opposites == {Mode(TRUE, TRUE, FALSE, 1, 2), Mode(FALSE, FALSE, TRUE, 2, 1)}

Terra == [agent |-> "codex", provider |-> "openai", pool |-> "openai-plan",
         billing |-> "subscription"]
Sonnet == [agent |-> "claude", provider |-> "anthropic", pool |-> "claude-plan",
          billing |-> "subscription"]
TwoProfiles == (1 :> Terra) @@ (2 :> Sonnet)

Granted ==
  [boundary |-> {"DISPOSABLE_LOCAL_WORKSPACE", "CONFIGURED_SUBSCRIPTION_WORKER",
                 "BOUNDED_REPAIR", "CAPABILITY_ESCALATION_WITHIN_LADDER",
                 "CROSS_PROVIDER_WITHIN_ALLOWED_SUBSCRIPTION_PROFILES"},
   agents |-> {"codex", "claude"}, billing |-> {"subscription"}]

Chain2 == (1 :> {}) @@ (2 :> {1})
OnlyFirst == {1}
Deep == (1 :> 3) @@ (2 :> 1)
FirstVaries == (1 :> OutputKinds) @@ (2 :> {"passes"})
================================================================================
