---------------------------- MODULE MCGuestDiscovery ----------------------------
(***************************************************************************)
(* GuestDiscovery for TLC: requests that take each way, six states of      *)
(* the registries, and two edits, restarts included.                       *)
(***************************************************************************)
EXTENDS GuestDiscovery

Local(keys, channels) ==
    [form |-> "object", keys |-> keys, name |-> "ada", score |-> <<>>,
     matched |-> TRUE, channels |-> channels, age |-> <<1>>, restricted |-> FALSE,
     suitable |-> "yes", email_refs |-> FALSE, has_email |-> FALSE, video |-> TRUE,
     confidence |-> <<>>, signals |-> 1, origin |-> "", state |-> ""]

List(candidates) ==
    [type |-> "guest_candidate_list", scope |-> "guest_db", listed |-> TRUE,
     candidates |-> candidates, count |-> <<>>]

One == List(<<Local({"k1"}, {"email"})>>)

\* The third is the same guest as the first and as the second.
Chain == List(<<Local({"k1"}, {}), Local({"k2"}, {}), Local({"k1", "k2"}, {}),
                [Local({}, {}) EXCEPT !.origin = "hearsay"]>>)

Plan ==
    [type |-> "web_guest_discovery_query_plan", names |-> {}, intent |-> TRUE,
     topics |-> 1, entities |-> 0, traits |-> 1,
     signals |-> {[known |-> TRUE, metadata_only |-> TRUE, execution_required |-> FALSE]},
     max_queries |-> 1, provenance |-> FALSE, false |-> {}]

Ask(min, fields) ==
    [name |-> "ada", web |-> FALSE, min |-> min, fields |-> fields,
     fresh |-> FALSE, days |-> 1, booking |-> FALSE]

Request(way, local, ask, adapter) ==
    [local |-> local, ask |-> ask, governed |-> TRUE, query |-> TRUE, way |-> way,
     operator_live |-> TRUE, provider |-> "cloud_web_ai", plan |-> Plan,
     adapter |-> adapter, fixture |-> <<>>, limits |-> [max_queries |-> 0, max_results |-> 2],
     channel |-> "telegram", source |-> "telegram", test |-> FALSE, listed |-> FALSE, local_first |-> TRUE]

Fixture ==
    <<RawResult(1, TRUE, TRUE, TRUE, {"k1", "k3"}), RawResult(2, FALSE, TRUE, TRUE, {"k4"})>>

MCRequests ==
    {Request("cloud", One, Ask(2, {}), "real"),
     [Request("cloud", One, Ask(2, {}), "real") EXCEPT
         !.limits.max_results = 0, !.source = "dev"],
     [Request("cloud", One, Ask(2, {}), "fake") EXCEPT
         !.fixture = Fixture, !.local_first = FALSE],
     Request("cloud", One, Ask(2, {}), "none"),
     [Request("cloud", One, Ask(2, {}), "real") EXCEPT !.plan.intent = FALSE],
     [Request("cloud", One, Ask(2, {}), "real") EXCEPT !.test = TRUE],
     Request("cloud", Chain, Ask(1, {}), "real"),
     Request("tavily", Chain, Ask(1, {"email"}), "none"),
     [Request("tavily", [One EXCEPT !.listed = FALSE], Ask(1, {"phone"}), "none") EXCEPT
         !.operator_live = FALSE]}

MCPayloads == {"not_object", <<"bad">>, <<"good", "bad", "good">>}

MCPages ==
    {<<[title |-> "k5", word |-> "press"], [title |-> "k5", word |-> "profile"]>>,
     <<[title |-> "k6", word |-> "staff"]>>}

MCAllowed ==
    [provider_types |-> {"cloud_model"},
     governance_states |-> {"enabled", "audit_only", "disabled"}]

Declaration(max) ==
    [fields |-> RequiredDeclarationFields, names |-> {}, provider_id |-> "cloud_web_ai",
     provider_type |-> "cloud_model", governance_state |-> "audit_only",
     true |-> {"external", "cost_bearing", "governed", "non_executing",
               "dry_run_or_mock_required", "source_refs_required",
               "provider_result_id_required", "source_url_required",
               "raw_results_required", "citations_required"},
     false |-> {"live_execution_allowed", "network_calls_allowed", "delivery_allowed"},
     max_queries |-> 1, max_results |-> max,
     execution_bounds |-> [timeout_ms |-> 2, connect_timeout_ms |-> 1, read_timeout_ms |-> 2,
                           max_queries |-> 1, max_results |-> max]]

Pilot(state, max) ==
    [fields |-> RequiredPilotFields, names |-> {}, pilot_id |-> "p", agent_id |-> "alexis",
     channel |-> "telegram", provider_id |-> "cloud_web_ai",
     authorization_mode |-> "all_telegram_users", governance_state |-> state,
     true |-> {"authorization_declaration_only"},
     false |-> {"provider_call_implemented", "network_calls_allowed",
                "cloud_model_calls_allowed", "delivery_allowed", "normalization_allowed"},
     max_queries |-> 1, max_results |-> max]

File(entries) == [readable |-> TRUE, version |-> 1, entries |-> entries]

Declared(entries) ==
    [readable |-> TRUE, version |-> 1, entries |-> entries,
     contract |-> [contract_version |-> 1, required_fields |-> RequiredDeclarationFields,
                   allowed |-> MCAllowed, execution_policy_true |-> {}]]

Shipped(readable) ==
    [readable |-> readable, modes |-> [cloud_web_ai |-> "blocked"], default_mode |-> "blocked",
     live_states |-> {"enabled"}, forces_dry_run |-> TRUE, test_blocked |-> TRUE,
     blocked_channels |-> {"cli", "dev", "test"}, blocked_sources |-> {"cli", "dev", "test"}]

\* An operator lets tests call, developers, and what is only audited.
Lenient ==
    [Shipped(TRUE) EXCEPT !.modes = [cloud_web_ai |-> "all_telegram_users"],
        !.live_states = {"enabled", "audit_only"}, !.forces_dry_run = FALSE,
        !.test_blocked = FALSE, !.blocked_sources = {}]

Installation(declarations, pilots, readable) ==
    [providers |-> Declared(declarations), pilots |-> File(pilots),
     policy |-> Shipped(readable),
     safety |-> [contract |-> TRUE, governance |-> TRUE, policy |-> readable,
                 allowed_sources |-> {"official_press_page"}],
     contract |-> [readable |-> readable, origins |-> Origins, states |-> ContactStates]]

\* Live, the second of two pilots for fewer results; a pilot that is only
\* audited; a second declaration that is not valid; files that cannot be read;
\* and a lenient policy, with a pilot that is only audited and without one.
MCFileSets ==
    {Installation(<<Declaration(3)>>,
                  <<Pilot("enabled", 2), [Pilot("enabled", 1) EXCEPT !.pilot_id = "q"]>>, TRUE),
     Installation(<<Declaration(3)>>, <<Pilot("audit_only", 2)>>, TRUE),
     Installation(<<Declaration(3), [Declaration(1) EXCEPT !.provider_id = "search_api",
                                                           !.max_queries = 0]>>,
                  <<Pilot("enabled", 2)>>, TRUE),
     Installation(<<Declaration(3)>>, <<Pilot("enabled", 2)>>, FALSE),
     [Installation(<<Declaration(3)>>, <<Pilot("audit_only", 2)>>, TRUE)
        EXCEPT !.policy = Lenient],
     [Installation(<<Declaration(3)>>, <<>>, TRUE) EXCEPT !.policy = Lenient]}

Controls(kind, state) ==
    [kind |-> kind, switch |-> [s \in Switches |-> [state |-> state, expires |-> 0]],
     provider_default |-> "allowed",
     provider |-> [p \in Providers |-> [state |-> "none", expires |-> 0]],
     user_default |-> "allowed", user |-> [u \in Users |-> [state |-> "none", expires |-> 0]]]

MCControlFiles ==
    {Controls("missing", "absent"), Controls("controls", "enabled"),
     Controls("controls", "disabled")}

Env(flag, dry, key) ==
    [CLOUD_DRY_RUN |-> dry, JUNIPER_DRY_RUN |-> FALSE, key |-> key,
     flag |-> [s \in Switches |-> flag]]

\* Live with a key; dry without one, which only matters once the file of controls
\* decides instead of the environment.
MCEnvironments == {Env("on", FALSE, TRUE), Env("on", TRUE, FALSE)}
================================================================================
