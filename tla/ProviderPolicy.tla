---------------------------- MODULE ProviderPolicy ----------------------------
(***************************************************************************)
(* Who may call out, and what a call leaves behind: the decisions that the *)
(* news and guest workflows take before an external search provider or a   *)
(* cloud model is called (runtime/policies, runtime/workflows/rss_*,       *)
(* runtime/adapters).                                                      *)
(* Every decision collects the reasons against it and allows what has none.*)
(***************************************************************************)
EXTENDS OperationalControls, SearchResults

Tavily == "tavily"

AuthorizationStates == {"blocked", "audit_only", "allowed"}

\* What can be wrong with the files, each of which is loaded whole or not at all.
ContractFlaws ==
    {"unreadable", "not_one_contract", "states", "exposes_content",
     "opens_on_failure", "grants_authority"}
GovernanceFlaws == {"unreadable", "version", "states", "entry"}
PolicyFlaws ==
    {"unreadable", "version", "states", "blocked_executes", "allowed_does_not",
     "selects", "falls_back"}

Binding == [id : STRING, provider : STRING, sound : BOOLEAN]

\* The declarations a process reads once and keeps (lru_cache).
PolicyFiles ==
    [contract : SUBSET ContractFlaws,
     governance : [flaws : SUBSET GovernanceFlaws, default : AuthorizationStates,
                   state : [Providers -> AuthorizationStates \cup {"none"}]],
     policy : SUBSET PolicyFlaws,
     bindings : [readable : BOOLEAN, list : Seq(Binding)]]

ContractLoads(files) == files.contract = {}

GovernanceLoads(files) == files.governance.flaws = {}

PolicyLoads(files) == files.policy = {}

\* One unsound binding, or one id used twice, and there are none at all.
BindingsLoad(files) ==
    LET list == files.bindings.list IN
    /\ files.bindings.readable
    /\ \A i \in DOMAIN list : list[i].sound
    /\ \A i, j \in DOMAIN list : list[i].id = list[j].id => i = j

Malformed(files) ==
    {file \in {"contract", "governance", "policy", "binding"} :
        \/ file = "contract" /\ ~ContractLoads(files)
        \/ file = "governance" /\ ~GovernanceLoads(files)
        \/ file = "policy" /\ ~PolicyLoads(files)
        \/ file = "binding" /\ ~BindingsLoad(files)}

\* A list of bindings without the provider lacks it; an empty list lacks none.
MissingBinding(p, files) ==
    /\ BindingsLoad(files) /\ files.bindings.list # <<>>
    /\ \A i \in DOMAIN files.bindings.list : files.bindings.list[i].provider # p

DryRunRequested(env) == env.CLOUD_DRY_RUN \/ env.JUNIPER_DRY_RUN

LocalClasses == {"local_cache_read", "local_cache_synthesis"}

\* Under a dry run only what stays local and free may run.
ClassAllowed(class, dry) == ~dry \/ class \in LocalClasses

-----------------------------------------------------------------------------
(* Authorization of an external search provider.                           *)

\* The two controls an authorization looks at, one after the other; the second
\* only for Tavily.
EvaluateControl(name, p, file, env, now) ==
    IF name = "provider_authorization" THEN EvaluateProvider(p, file, now)
    ELSE EvaluateSwitch(name, file, env, now)

\* The decision for a provider and a resource the caller names.
Authorize(p, files, controlsAllow) ==
    LET declared == IF GovernanceLoads(files) THEN files.governance.state[p] ELSE "none"
        state == CASE declared # "none" -> declared
                   [] declared = "none" /\ GovernanceLoads(files) -> files.governance.default
                   [] OTHER -> "blocked"
        live  == state = "allowed" /\ PolicyLoads(files)
        faults == Malformed(files)
            \cup {r \in {"missing_provider_binding", "missing_provider_authorization",
                         "operational_control"} :
                    \/ r = "missing_provider_binding" /\ MissingBinding(p, files)
                    \/ r = "missing_provider_authorization" /\ declared = "none"
                    \/ r = "operational_control" /\ state = "allowed" /\ ~controlsAllow}
        reasons == faults
            \cup {r \in {"state_not_allowed", "policy_disallows_live_execution"} :
                    \/ r = "state_not_allowed" /\ state # "allowed"
                    \/ r = "policy_disallows_live_execution" /\ ~live}
    IN [status |-> CASE reasons = {} -> "allowed"
                     [] reasons # {} /\ state = "audit_only" /\ faults = {} -> "audit_only"
                     [] OTHER -> "blocked",
        state |-> state,
        live |-> reasons = {}]

\* Nothing has been decided.
Undecided == [status |-> "blocked", state |-> "blocked", live |-> FALSE]

\* What live execution asks of a decision.
LiveAuthorizationReasons(authorization) ==
    {r \in {"state_not_allowed", "live_provider_execution_not_authorized"} :
        \/ r = "state_not_allowed" /\ authorization.state # "allowed"
        \/ r = "live_provider_execution_not_authorized" /\ ~authorization.live}

\* A pilot brings a configuration of its own: all for live, or for audit only.
PilotConfig(enabled) ==
    [provider |-> Tavily, enabled |-> enabled,
     mode |-> IF enabled THEN "allowed" ELSE "audit_only",
     live |-> enabled, cost |-> enabled]

DisabledReasons(config, authorization, dry) ==
    LiveAuthorizationReasons(authorization) \cup
    {r \in {"blocked_by_dry_run", "provider_config_id_mismatch",
            "provider_execution_config_disabled", "provider_execution_mode_not_allowed",
            "provider_config_disallows_live_execution", "provider_config_disallows_cost"} :
        \/ r = "blocked_by_dry_run" /\ ~ClassAllowed("paid_external_provider", dry)
        \/ r = "provider_config_id_mismatch" /\ config.provider # Tavily
        \/ r = "provider_execution_config_disabled" /\ ~config.enabled
        \/ r = "provider_execution_mode_not_allowed" /\ config.mode # "allowed"
        \/ r = "provider_config_disallows_live_execution" /\ ~config.live
        \/ r = "provider_config_disallows_cost" /\ ~config.cost}

-----------------------------------------------------------------------------
(* The chain from an inadequate cache to a request.                        *)

\* Which reasons make the cloud fallback eligible, from the shipped policy.
EligibleReasons ==
    {"stale_sources", "stale_items", "insufficient_topic_coverage",
     "insufficient_source_diversity", "fetch_health_failed"}

FallbackEligible(adequacy) ==
    adequacy.outcome = "inadequate" /\ adequacy.reason \in EligibleReasons

LiveGovernanceReasons(adequacy, ask) ==
    (IF adequacy.outcome = "inadequate" THEN {} ELSE {"rss_inadequacy_required"})
    \cup (IF FallbackEligible(adequacy) THEN {} ELSE {"fallback_eligibility_required"})
    \cup (IF ask.explicit THEN {} ELSE {"explicit_live_request_required"})
    \cup (IF ask.dry THEN {"cloud_dry_run_forced"} ELSE {})
    \cup (IF ask.test THEN {"test_context_blocked"} ELSE {})
    \cup (IF ask.channel \in {"test", "runtime"} THEN {"blocked_channel"} ELSE {})
    \cup (IF ask.mode = "blocked" THEN {"authorization_mode_blocked"}
          ELSE IF ask.channel # "telegram" THEN {"channel_not_authorized"}
          ELSE IF ask.mode = "allowlisted" /\ ~ask.listed
              THEN {"telegram_user_id_not_allowlisted"}
          ELSE {})
    \cup (IF ask.live_declared THEN {} ELSE {"provider_live_governance_not_enabled"})

\* Nobody asks for anything live when the cache is judged.
NoAsk ==
    [channel |-> "", dry |-> FALSE, test |-> FALSE, mode |-> "blocked",
     listed |-> FALSE, live_declared |-> FALSE, explicit |-> FALSE]

\* The operator's pilot brings a governance of its own.
PilotGovernanceReasons(adequacy, operatorLive) ==
    (IF adequacy.outcome = "inadequate" THEN {} ELSE {"rss_inadequacy_required"})
    \cup (IF operatorLive THEN {} ELSE {"explicit_operator_live_fallback_required"})

HandoffEligible(adequacy, governanceReasons) ==
    adequacy.outcome = "inadequate" /\ governanceReasons = {}

\* What the judgement of the cache carries with it.
Offers(adequacy) ==
    LET reasons == LiveGovernanceReasons(adequacy, NoAsk) IN
    [fallback |-> FallbackEligible(adequacy), live |-> reasons = {},
     handoff |-> HandoffEligible(adequacy, reasons)]

\* The policy of cloud providers that stands in for one that cannot be read.
FallbackPolicy ==
    [default_mode |-> "blocked", modes |-> <<>>, live_states |-> {"enabled"},
     forces_dry_run |-> TRUE, test_blocked |-> TRUE,
     blocked_channels |-> {"cli", "dev", "test"},
     blocked_sources |-> {"cli", "dev", "test"}]

\* A file is read whole or not at all: all its rules are the operator's to edit.
CloudPolicy(file) ==
    IF file.readable THEN [f \in DOMAIN FallbackPolicy |-> file[f]] ELSE FallbackPolicy

\* A cloud model, asked for from a channel; the policy may have the dry run of
\* the environment forced, but only while the environment decides the control.
CloudAuthorizationReasons(policy, control, ask) ==
    (IF control.allowed THEN {} ELSE {"cloud_execution_control"})
    \cup (IF ask.dry /\ policy.forces_dry_run
             /\ control.source \in {"bootstrap_env:CLOUD_DRY_RUN", "bootstrap_env:flag"}
          THEN {"cloud_dry_run_forced"} ELSE {})
    \cup (IF ask.test /\ policy.test_blocked THEN {"test_context_blocked"} ELSE {})
    \cup (IF ask.channel \in policy.blocked_channels THEN {"blocked_channel"} ELSE {})
    \cup (IF ask.source \in policy.blocked_sources THEN {"blocked_request_source"} ELSE {})
    \cup (IF ask.governance \in policy.live_states THEN {}
          ELSE {"governance_state_not_live_enabled"})
    \cup (IF ask.mode = "blocked" THEN {"authorization_mode_blocked"}
          ELSE IF ask.channel # "telegram" THEN {"channel_not_authorized_for_mode"}
          ELSE IF ask.mode = "allowlisted" /\ ~ask.listed
              THEN {"telegram_user_id_not_allowlisted"}
          ELSE {})

\* The fallback provider must be a cloud model for an escalation.
EscalationStatus(adequacy, cloudModel, policy, control, ask) ==
    IF ~FallbackEligible(adequacy) \/ ~cloudModel THEN "not_eligible"
    ELSE IF CloudAuthorizationReasons(policy, control, ask) = {}
            /\ ClassAllowed("paid_cloud_model", ask.dry)
        THEN "ready"
    ELSE "blocked"

=============================================================================
