----------------------------- MODULE LookupRequests -----------------------------
(***************************************************************************)
(* From what a planner says is to be looked up to the requests that are    *)
(* executed: the contracts of the two types of lookup                      *)
(* (registries/exact_entity_lookup_registry.py and                         *)
(* bounded_entity_search_registry.py), what the planner declares           *)
(* (planner/lookup_metadata.py), and the requests                          *)
(* (lookup/request_planner.py).                                            *)
(*                                                                         *)
(* What is to be looked up is an item: a function from the fields the      *)
(* planner gives to their values.                                          *)
(***************************************************************************)
EXTENDS LookupPolicies

-----------------------------------------------------------------------------
(* The registries: read whole or not at all, and once in a process.        *)

LookupContractSound(k, type) ==
    /\ k.lookup_type = type /\ k.operation = type
    /\ ~k.raw_target_allowed
    /\ k.forbids_behaviours /\ k.forbids_telemetry      \* all that it must forbid
    /\ FALSE \notin k.fail_closed

ExactContractSound(k) ==
    /\ LookupContractSound(k, "exact_entity_lookup")
    /\ k.required = {"entity_name"}
    /\ k.optional \subseteq {"entity_type", "workflow_topic", "source_scope"}
    /\ k.max = 1 /\ k.match_mode = "exact_name_only"

PolicyFields == {"source_scope", "raw_source_target", "adapter_id", "datasource_path"}

BoundedContractSound(k) ==
    /\ LookupContractSound(k, "bounded_entity_search")
    /\ k.required = {"search_topic", "query_intent"}
    /\ k.optional \subseteq {"entity_type", "constraints", "max_results"}
    /\ PolicyFields \subseteq k.forbidden
    /\ k.owner = "agent_capability_policy"
    /\ k.max \in 1 .. 10 /\ ~k.final_answer

\* A file is loaded only if all of its contracts are among the sound ones.
\* That a contract is enabled is read, and never asked for.
LoadLookupContracts(file, sound) ==
    IF /\ file.form = "object" /\ file.version = 1
       /\ Range(file.contracts) \subseteq sound
       /\ \A i, j \in DOMAIN file.contracts :
             file.contracts[i].id = file.contracts[j].id => i = j
    THEN file.contracts ELSE <<>>

LoadExactContracts(file) ==
    LoadLookupContracts(file, {k \in Range(file.contracts) : ExactContractSound(k)})
LoadBoundedContracts(file) ==
    LoadLookupContracts(file, {k \in Range(file.contracts) : BoundedContractSound(k)})

ContractOf(contracts, type) == SelectSeq(contracts, LAMBDA k : k.lookup_type = type)

ExactRequestValid(request, contracts) ==
    LET found == ContractOf(contracts, "exact_entity_lookup") IN
    /\ found # <<>>
    /\ Field(request.fields, "entity_name", "") # ""
    /\ DOMAIN request.fields \subseteq found[1].required \union found[1].optional

BoundedRequestValid(request, contracts) ==
    LET found == ContractOf(contracts, "bounded_entity_search") IN
    /\ found # <<>>
    /\ \E f \in found[1].required : Field(request.fields, f, "") # ""
    /\ DOMAIN request.fields \subseteq
          found[1].required \union found[1].optional \union {"source_scope"}
    /\ request.fields.max_results \in 1 .. found[1].max

-----------------------------------------------------------------------------
(* What the planner declares: <<>> or <<the items, and how they came>>.    *)

\* The binding's own policy, as the planner reads it.
DeclaredPolicy(binding) ==
    IF binding = <<>> THEN <<>>
    ELSE LET p == Field(binding[1], "request", <<>>) IN
         IF IsObject(p) /\ p.enabled /\ p.lookup_type \in LookupTypes THEN <<p>> ELSE <<>>

NoMetadata == [form |-> "none", items |-> <<>>]

\* "... to X and Y about Z": one name is an entity, several are targets.
MetadataFromText(text) ==
    LET item(name) == IF text.topic = "" THEN [entity_name |-> name]
                      ELSE [entity_name |-> name, workflow_topic |-> text.topic]
    IN IF text.names = <<>> THEN NoMetadata
       ELSE [form |-> IF Len(text.names) > 1 THEN "targets" ELSE "single",
             items |-> [i \in DOMAIN text.names |-> item(text.names[i])]]

\* Only names are looked for in the text: a bounded search is never declared
\* by it.
DeclareLookupMetadata(binding, text) ==
    LET policy == DeclaredPolicy(binding) IN
    IF policy # <<>> /\ policy[1].lookup_type = "exact_entity_lookup"
    THEN MetadataFromText(text) ELSE NoMetadata

-----------------------------------------------------------------------------
(* Requests.                                                               *)

Planned(status, reasons, request) ==
    [status |-> status, reasons |-> reasons, request |-> request]

Closed(status, reason) == Planned(status, {reason}, <<>>)

GovernanceBlock(state) ==
    CASE state = "disabled"   -> "lookup_capability_disabled"
      [] state = "audit_only" -> "lookup_capability_audit_only"
      [] state = "blocked"    -> "lookup_capability_blocked"
      [] OTHER                -> "lookup_capability_governance_invalid"

PolicySound(p) ==
    /\ p.lookup_type \in LookupTypes
    /\ p.allowed_source_scopes # {} /\ p.source_scope \in p.allowed_source_scopes
    /\ IF p.lookup_type = "bounded_entity_search"
       THEN /\ Field(p, "required_any", <<>>) = <<"search_topic", "query_intent">>
            /\ Field(p, "optional", {}) \subseteq {"constraints", "max_results"}
            /\ Field(p, "execution_status", "") \in {"implemented", "not_implemented"}
            /\ Field(p, "max_results", 0) \in 1 .. 10
       ELSE /\ Field(p, "required", <<>>) = <<"entity_name">>
            /\ Field(p, "optional", {}) \subseteq {"workflow_topic"}

LookupId(capability, type, ordinal) ==
    [capability |-> capability, lookup_type |-> type, ordinal |-> ordinal]

\* For Request: one root for all requests of a type.
RequestOfOneRoot(capability, policy, ordinal, root, fields) ==
    [id |-> LookupId(capability, policy.lookup_type, ordinal), root |-> 1,
     lookup_type |-> policy.lookup_type, fields |-> fields]

\* Each request is the root of a lineage of its own.
Request(capability, policy, ordinal, root, fields) ==
    [id |-> LookupId(capability, policy.lookup_type, ordinal), root |-> root,
     lookup_type |-> policy.lookup_type, fields |-> fields]

\* A planner may say whom to look up, not where.
ExactRequest(capability, policy, item, registries, ordinal, root) ==
    LET request == Request(capability, policy, ordinal, root,
            [entity_name |-> item.entity_name,
             entity_type |-> Field(policy, "entity_type", ""),
             workflow_topic |-> Field(item, "workflow_topic", ""),
             source_scope |-> policy.source_scope])
    IN IF Field(item, "entity_name", "") = ""
       THEN Closed("lookup_request_not_created", "missing_entity_name")
       ELSE IF DOMAIN item \intersect {"entity_type", "source_scope"} # {}
       THEN Closed("lookup_request_not_created", "planner_policy_field_not_allowed")
       ELSE IF ExactRequestValid(request, registries.exact)
       THEN Planned("lookup_request_created", {}, <<request>>)
       ELSE Closed("lookup_request_not_created", "invalid_exact_entity_lookup_request")

\* The planner's own number of results takes the place of the policy's.
BoundedRequest(capability, policy, item, registries, ordinal, root) ==
    LET given == DOMAIN item \intersect {"search_topic", "query_intent", "constraints"}
        own == [entity_type |-> Field(policy, "entity_type", ""),
                source_scope |-> policy.source_scope,
                max_results |-> Field(item, "max_results", policy.max_results)]
        request == Request(capability, policy, ordinal, root, Over(own, Restrict(item, given)))
    IN IF \A f \in {"search_topic", "query_intent"} : Field(item, f, "") = ""
       THEN Closed("lookup_request_not_created", "missing_search_topic_or_query_intent")
       ELSE IF DOMAIN item \intersect (PolicyFields \union {"entity_type"}) # {}
       THEN Closed("lookup_request_not_created", "planner_policy_field_not_allowed")
       ELSE IF BoundedRequestValid(request, registries.bounded)
       THEN Planned("lookup_request_created", {}, <<request>>)
       ELSE Closed("lookup_request_not_created", "invalid_bounded_entity_search_request")

\* The checks in their order; item is <<>> where the planner declares none.
CreateRequest(capability, item, resolved, registries, ordinal, root) ==
    IF capability = "" THEN Closed("lookup_not_declared", "missing_shared_capability")
    ELSE IF resolved = <<>>
    THEN Closed("lookup_not_declared", "lookup_capability_resolution_failed")
    ELSE LET policy == resolved[1].request IN
         IF ~RequestAllowed(resolved[1].governance)
         THEN Closed("lookup_request_not_created", GovernanceBlock(resolved[1].governance))
         ELSE IF ~policy.enabled
         THEN Closed("lookup_not_declared", "lookup_policy_not_declared")
         ELSE IF ~PolicySound(policy)
         THEN Closed("invalid_lookup_policy", "invalid_lookup_policy")
         ELSE IF item = <<>>
         THEN Closed("lookup_request_not_created", "missing_planner_lookup_metadata")
         ELSE IF policy.lookup_type = "bounded_entity_search"
         THEN BoundedRequest(capability, policy, item[1], registries, ordinal, root)
         ELSE ExactRequest(capability, policy, item[1], registries, ordinal, root)

\* One for each target or search; without either, one for the whole.
Todo(metadata) ==
    CASE metadata.form = "none"   -> <<[item |-> <<>>, ordinal |-> 0]>>
      [] metadata.form = "single" -> <<[item |-> metadata.items, ordinal |-> 0]>>
      [] OTHER -> [i \in DOMAIN metadata.items |->
                      [item |-> <<metadata.items[i]>>, ordinal |-> i]]

-----------------------------------------------------------------------------
(* Executing a request (lookup/execution.py), under what was resolved for  *)
(* it: <<a capability>>, or <<>>.                                          *)

Result(request, executed, payloads, reasons) ==
    [request |-> request, executed |-> executed, records |-> Len(payloads),
     payloads |-> payloads, reasons |-> reasons]

RequestValid(request, registries) ==
    IF request.lookup_type = "bounded_entity_search"
    THEN BoundedRequestValid(request, registries.bounded)
    ELSE ExactRequestValid(request, registries.exact)

MismatchReasons(request, capability) ==
    (IF request.lookup_type = capability.request.lookup_type THEN {}
     ELSE {"lookup_type_not_supported_by_capability"})
    \union (IF request.fields.source_scope \in capability.request.allowed_source_scopes
            THEN {} ELSE {"source_scope_not_supported_by_capability"})

\* For Refused: a capability is not required, and may not be enabled.
RefusedByMismatchOnly(request, bundle, registries) ==
    IF ~RequestValid(request, registries) THEN {"invalid_exact_entity_lookup_request"}
    ELSE IF bundle = <<>> THEN {} ELSE MismatchReasons(request, bundle[1])

\* Why a request is closed without calling anything; {} where it is not.
Refused(request, bundle, registries) ==
    IF ~RequestValid(request, registries)
    THEN {IF request.lookup_type = "bounded_entity_search"
          THEN "invalid_bounded_entity_search_request"
          ELSE "invalid_exact_entity_lookup_request"}
    ELSE IF bundle = <<>> THEN {"lookup_capability_resolution_failed"}
    ELSE IF ~ExecutionAllowed(bundle[1].governance)
    THEN {GovernanceBlock(bundle[1].governance)}
    ELSE MismatchReasons(request, bundle[1])

OutcomeKinds == {"unavailable", "exception", "timeout", "cancelled", "answer"}

\* An outcome is that there is no executor, that it fails, or its answer: a
\* list of payloads, and why there is nothing on it.
FromExecutor(request, outcome) ==
    CASE outcome.kind = "unavailable" ->
            Result(request, FALSE, <<>>,
                   {IF request.lookup_type = "bounded_entity_search"
                    THEN "bounded_entity_search_not_implemented"
                    ELSE "lookup_executor_unavailable"})
      [] outcome.kind = "exception" ->
            Result(request, FALSE, <<>>, {"lookup_executor_exception"})
      [] outcome.kind \in {"timeout", "cancelled"} ->
            Result(request, FALSE, <<>>, {"lookup_execution_" \o outcome.kind})
      [] OTHER -> IF outcome.ok /\ outcome.payloads = <<>>
                  THEN Result(request, outcome.executed, <<>>, {"malformed_lookup_payload"})
                  ELSE Result(request, outcome.executed,
                              IF outcome.ok THEN outcome.payloads ELSE <<>>, outcome.reasons)
==================================================================================
