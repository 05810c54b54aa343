--------------------------- MODULE ExternalDiscovery ---------------------------
(***************************************************************************)
(* The search for guests outside the database: which providers and pilots  *)
(* are declared (runtime/registries), whether a discovery may run live     *)
(* (policies/cloud_provider_pilot_authorization.py), what the adapter      *)
(* makes of an answer (adapters/cloud_web_ai.py), what the boundary makes  *)
(* of that (workflows/external_discovery_boundary.py), and which           *)
(* candidates come of it (normalizers/external_guest_discovery.py).        *)
(*                                                                         *)
(* An entry of a registry file is what can be read of it: the fields it    *)
(* has, the names that occur anywhere in it, the flags that are true and   *)
(* those that are false, and its values.                                   *)
(***************************************************************************)
EXTENDS ProviderPolicy, Lists

\* A registry is read whole or not at all: one entry that is not valid, or a
\* name used twice, and it is empty.
LoadStrict(file, valid, name) ==
    IF /\ file.readable /\ file.version = 1
       /\ Range(file.entries) \subseteq valid
       /\ IsInjective([i \in DOMAIN file.entries |-> file.entries[i][name]])
    THEN file.entries ELSE <<>>

\* The first of the entries at these places.
FirstOf(entries, places) ==
    IF places = {} THEN <<>> ELSE <<entries[Min(places)]>>

-----------------------------------------------------------------------------
(* Declarations of providers.                                              *)

RequiredDeclarationFields ==
    {"provider_id", "provider_type", "execution_mode", "governance_state",
     "external", "cost_bearing", "governed", "non_executing", "governance",
     "cost_policy", "supported_output_types", "max_queries", "max_results",
     "max_cost", "execution_bounds", "source_requirements", "citation_requirements"}

SharedProviderIds == {"cloud_web_ai", "search_api", "cloud_web_deep_premium"}

\* The one contract of the file says the same as the code, or nothing loads.
ContractValid(k, allowed) ==
    /\ k.contract_version = 1
    /\ k.required_fields = RequiredDeclarationFields
    /\ k.allowed = allowed
    /\ k.execution_policy_true = {}

\* What a declaration may not allow, and what it must demand.
GovernanceValid(e) ==
    /\ {"live_execution_allowed", "network_calls_allowed", "delivery_allowed"} \subseteq e.false
    /\ "dry_run_or_mock_required" \in e.true

SourceRequirementsValid(e) ==
    {"source_refs_required", "provider_result_id_required", "source_url_required",
     "raw_results_required", "citations_required"} \subseteq e.true

ExecutionBoundsValid(e) ==
    LET b == e.execution_bounds IN
    /\ {b.timeout_ms, b.connect_timeout_ms, b.read_timeout_ms} \subseteq Nat \ {0}
    /\ b.connect_timeout_ms <= b.timeout_ms /\ b.read_timeout_ms <= b.timeout_ms
    /\ b.max_queries = e.max_queries /\ b.max_results = e.max_results

\* No declaration is enabled: only a pilot makes a provider live.
DeclarationValid(e, allowed) ==
    /\ RequiredDeclarationFields \subseteq e.fields
    /\ e.names = {}     \* of the names that are forbidden
    /\ e.provider_id \in SharedProviderIds
    /\ e.provider_type \in allowed.provider_types
    /\ e.governance_state \in allowed.governance_states \ {"enabled"}
    /\ {"external", "cost_bearing", "governed", "non_executing"} \subseteq e.true
    /\ {e.max_queries, e.max_results} \subseteq Nat \ {0}
    /\ GovernanceValid(e) /\ ExecutionBoundsValid(e) /\ SourceRequirementsValid(e)

LoadDeclarations(file, allowed) ==
    IF ~ContractValid(file.contract, allowed) THEN <<>>
    ELSE LoadStrict(file, {e \in Range(file.entries) : DeclarationValid(e, allowed)},
                    "provider_id")

-----------------------------------------------------------------------------
(* Pilots: one agent, one channel, one provider, live for all its users.   *)

RequiredPilotFields ==
    {"pilot_id", "agent_id", "channel", "provider_id", "authorization_mode",
     "governance_state", "max_queries", "max_results", "engine_policy_ref",
     "execution_policy"}

PilotValid(e, agent) ==
    /\ RequiredPilotFields \subseteq e.fields
    /\ e.names = {}     \* of the names that are forbidden
    /\ e.agent_id = agent
    /\ e.channel = "telegram"
    /\ e.authorization_mode = "all_telegram_users"
    /\ e.governance_state \in {"enabled", "audit_only", "disabled"}
    /\ e.max_queries \in 1 .. 3 /\ e.max_results \in 1 .. 10
    /\ {"provider_call_implemented", "network_calls_allowed", "cloud_model_calls_allowed",
        "delivery_allowed", "normalization_allowed"} \subseteq e.false
    /\ "authorization_declaration_only" \in e.true

LoadPilots(file, agent) ==
    LoadStrict(file, {e \in Range(file.entries) : PilotValid(e, agent)}, "pilot_id")

PilotFor(pilots, provider, channel) ==
    FirstOf(pilots, {i \in DOMAIN pilots :
        pilots[i].provider_id = provider /\ pilots[i].channel = channel})

\* What the policy says of a provider.
ModeOf(policy, provider) ==
    IF provider \in DOMAIN policy.modes THEN policy.modes[provider]
    ELSE policy.default_mode

\* A pilot takes the place of the mode and of the declared governance; what
\* governance is live is still the policy's to say, with or without a pilot.
PilotAuthorization(pilots, policy, declaration, control, ask) ==
    LET found == PilotFor(pilots, declaration.provider_id, ask.channel)
        pilot == Head(found)
        asked == IF found = <<>>
                 THEN [ask EXCEPT !.mode = ModeOf(policy, declaration.provider_id),
                                  !.governance = declaration.governance_state]
                 ELSE [ask EXCEPT !.mode = pilot.authorization_mode, !.listed = FALSE,
                                  !.governance = pilot.governance_state]
        reasons == CloudAuthorizationReasons(policy, control, asked)
    IN [live |-> reasons = {},
        dry |-> "cloud_dry_run_forced" \in reasons,
        max_queries |-> IF found = <<>> THEN 0 ELSE pilot.max_queries,
        max_results |-> IF found = <<>> THEN 0 ELSE pilot.max_results]

-----------------------------------------------------------------------------
(* The boundary, up to the call.                                           *)

QueryPlanFlags ==
    {"web_search_executed", "search_api_called", "browser_api_called",
     "cloud_model_called", "delivery_performed", "generated_search_queries"}

QueryPlanValid(p) ==
    /\ p.type = "web_guest_discovery_query_plan"
    /\ p.names = {}     \* of the names of executed queries
    /\ p.intent /\ p.topics + p.entities > 0 /\ p.traits > 0
    /\ p.signals # {} /\ \A s \in p.signals : s.known /\ s.metadata_only /\ ~s.execution_required
    /\ p.max_queries >= 1
    /\ p.provenance => QueryPlanFlags \subseteq p.false

ExecutionState(authorization) ==
    IF authorization.dry THEN "dry_run"
    ELSE IF authorization.live THEN "live_authorized_not_implemented"
    ELSE "blocked"

MinimumOfAll(values) ==
    CHOOSE v \in values : \A w \in values : v <= w

\* The least of the numbers that are above zero; 0 where none is.
MinimumPositive(values) ==
    LET positive == {v \in values : v > 0} IN
    IF positive = {} THEN 0 ELSE CHOOSE v \in positive : \A w \in positive : v <= w

ExecutionLimitsOfCaller(declaration, authorization, caller) ==
    [max_queries |-> IF caller.max_queries > 0 THEN caller.max_queries
                     ELSE declaration.max_queries,
     max_results |-> IF caller.max_results > 0 THEN caller.max_results
                     ELSE declaration.max_results]

\* The bounds of a call: the declaration's, the pilot's and the caller's.
ExecutionLimits(declaration, authorization, caller) ==
    [max_queries |-> MinimumPositive({declaration.max_queries, authorization.max_queries,
                                      caller.max_queries}),
     max_results |-> MinimumPositive({declaration.max_results, authorization.max_results,
                                      caller.max_results})]

\* What the real adapter asks for: one text, the configured results within
\* the bounds.
PreparedRequest(configured, limits) ==
    [queries |-> 1,
     max_results |-> MinimumPositive({IF configured < 1 THEN 1 ELSE configured,
                                      limits.max_results})]

-----------------------------------------------------------------------------
(* The adapter's answer.                                                   *)

\* A raw result: its id, whether a source and a citation carry that id, the
\* name of a person it gives, and what identifies that person.
RawResult(id, sourced, cited, named, keys) ==
    [id |-> id, sourced |-> sourced, cited |-> cited, named |-> named, keys |-> keys]

ClosedResult(reason) == [results |-> <<>>, performed |-> FALSE, failure |-> reason]

ResultOnlyIfKept(payload) ==
    IF payload = "not_object" \/ "good" \notin Range(payload)
    THEN ClosedResult("provider_response_missing_required_sources")
    ELSE LET kept == SelectSeq(payload, LAMBDA item : item = "good") IN
         [results |-> [i \in DOMAIN kept |-> RawResult(i, TRUE, TRUE, FALSE, {})],
          performed |-> TRUE, failure |-> ""]

\* An answer is not cut to the results asked for.  What is kept of it has a
\* title and an url, a quotation, and no person's name.  An answer that is no
\* object is reported as if no call had been made.
ResultFromPayload(payload) ==
    IF payload = "not_object" THEN ClosedResult("invalid_provider_payload")
    ELSE LET kept == Wanted(payload, {"good"}) IN
         [results |-> [i \in DOMAIN kept |-> RawResult(i, TRUE, TRUE, FALSE, {})],
          performed |-> TRUE,
          failure |-> IF kept = <<>> THEN "provider_response_missing_required_sources" ELSE ""]

AdapterSuccess(r) ==
    /\ r.failure = "" /\ r.results # <<>>
    /\ \A x \in Range(r.results) : x.id # 0 /\ x.sourced /\ x.cited

\* The receipt of an execution.
DiscoveryReceipt(state, dry, allowed, live, implemented, performed, fake) ==
    [state |-> state, dry |-> dry, allowed |-> allowed, live |-> live,
     implemented |-> implemented, performed |-> performed, fake |-> fake]

DiscoveryReceiptValid(r) ==
    LET live == ~r.dry /\ r.live /\ r.implemented
                /\ r.state \in {"live_adapter_executed", "live_adapter_failed"}
        fake == r.allowed /\ r.fake /\ ~r.performed /\ ~r.dry
        no_call == r.allowed /\ r.state = "live_authorized_not_implemented"
                   /\ ~r.implemented /\ ~r.dry
    IN /\ r.allowed => no_call \/ fake \/ live
       /\ r.implemented => fake \/ live
       /\ r.dry => ~r.performed
       /\ r.performed => live

-----------------------------------------------------------------------------
(* The boundary, after the call.                                           *)

NoDiscovery(receipt) == [set |-> <<>>, receipt |-> receipt]

DiscoveryClosed(dry) ==
    NoDiscovery(DiscoveryReceipt("blocked", dry, FALSE, FALSE, FALSE, FALSE, FALSE))

\* A result set as it is written, with its receipt.
DiscoverySet(receipt, executed, results) ==
    [receipt |-> receipt, executed |-> executed, results |-> results]

\* Dry, or live without an adapter: an empty set.
DiscoveryNotExecuted(state, authorization) ==
    LET receipt == DiscoveryReceipt(state, authorization.dry, ~authorization.dry,
                                    authorization.live, FALSE, FALSE, FALSE)
    IN [set |-> <<DiscoverySet(receipt, FALSE, <<>>)>>, receipt |-> receipt]

\* After an adapter has run: a call that brought nothing has no set.
AdapterResult(fake, r) ==
    LET ok == AdapterSuccess(r)
        state == IF fake THEN "fake_adapter_executed"
                 ELSE IF ok THEN "live_adapter_executed" ELSE "live_adapter_failed"
        receipt == DiscoveryReceipt(state, FALSE, ok, TRUE, TRUE, r.performed, fake)
    IN IF r.performed /\ ~ok THEN NoDiscovery(receipt)
       ELSE [set |-> <<DiscoverySet(receipt, ok /\ r.performed, r.results)>>,
             receipt |-> receipt]

\* A set without results must say that nothing ran; one that says a call was
\* made must be live, and each of its results sourced and cited.
DiscoverySetValid(s) ==
    LET r == s.receipt
        live == ~r.dry /\ r.live /\ r.implemented
                /\ r.state \in {"live_adapter_executed", "live_adapter_failed"}
        idle == r.dry \/ ~r.implemented \/ r.state = "live_adapter_failed"
    IN /\ s.results = <<>> => idle /\ ~r.performed
       /\ r.performed => \A x \in Range(s.results) : x.id # 0 /\ x.sourced /\ x.cited
       /\ r.performed \/ s.executed => live
       /\ DiscoveryReceiptValid(r)

\* The results that become candidates: one that does not name a person is none.
NormalizeDiscovery(set) ==
    IF set = <<>> \/ ~DiscoverySetValid(set[1]) THEN <<>>
    ELSE Wanted(set[1].results,
                {x \in Range(set[1].results) : x.named /\ x.id # 0 /\ x.sourced /\ x.cited})

-----------------------------------------------------------------------------
(* Contacts that a public search shows.                                    *)

\* What is taken from the words of a result.
ContactRecord(word) ==
    CASE word = "professional profile" ->
            [source |-> "professional_social_profile", state |-> "public_source_unverified"]
      [] word = "press" ->
            [source |-> "official_press_page", state |-> "verified_public_professional"]
      [] word = "booking" ->
            [source |-> "official_booking_page", state |-> "verified_public_professional"]
      [] word = "staff" ->
            [source |-> "official_staff_page", state |-> "public_source_unverified"]
      [] OTHER ->
            [source |-> "official_profile", state |-> "public_source_unverified"]

\* The verification the shipped rules ask for from a source.
ExpectedState(source) ==
    IF source \in {"official_press_page", "official_booking_page"}
        THEN "verified_public_professional" ELSE "public_source_unverified"

ContactSafety(record, files) ==
    LET missing == {f \in {"contract", "governance", "policy"} : ~files[f]}
        reasons == missing
            \cup {r \in {"source_type_not_allowed"} :
                    files.governance /\ record.source \notin files.allowed_sources}
            \cup {r \in {"unknown_contact_class"} : ~files.policy}
        verified == reasons = {} /\ record.state = ExpectedState(record.source)
    IN [allowed |-> verified,
        reasons |-> reasons \cup {r \in {"contact_not_verified_for_use"} : ~verified}]

=============================================================================
