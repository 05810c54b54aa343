---------------------------- MODULE MCDeclaredWorkflow ----------------------------
(***************************************************************************)
(* DeclaredWorkflow for TLC: three workflows, the first of which runs the  *)
(* second, which runs the third and suspends for an approval before what   *)
(* is to be delivered. Edits make the first run the third as well, the     *)
(* third run the second, and give the suspending step another capability.  *)
(***************************************************************************)
EXTENDS DeclaredWorkflow

Goes(success, failure, inadequate) ==
    [success |-> success, failure |-> failure, inadequate |-> inadequate]

MCStep(kind, operation, capability, output) ==
    [id |-> operation, kind |-> kind, given |-> "", operation |-> operation,
     capability |-> capability, output |-> output, approval |-> FALSE, delivers |-> FALSE,
     governance |-> "enabled", action |-> "", next |-> Goes("", "", ""), ref |-> "",
     modes |-> <<>>, max |-> <<>>, template |-> <<>>]

Call(operation, workflow, capability, next) ==
    [MCStep("workflow_call", operation, capability, "workflow_result")
        EXCEPT !.ref = workflow, !.next = next]

Notice(uses) ==
    [MCStep("action_generation", "notify", "notify_operator", "typed_action")
        EXCEPT !.given = "notify_and_continue", !.action = "notify_operator",
               !.next = Goes("run_other", Terminate, ""),
               !.template = <<[text |-> TRUE, format |-> TRUE,
                               placeholders |-> {"candidate_count"}, uses |-> uses]>>]

SemanticMode ==
    [lookup_type |-> "semantic_entity_search", status |-> "declared_only", local |-> TRUE,
     live_embeddings |-> FALSE, cloud_embeddings |-> FALSE, backend |-> "placeholder",
     max_candidates |-> 0, enabled |-> FALSE]

Retrieval(max) ==
    [MCStep("retrieval", "retrieve", "discover", "lookup_result_set")
        EXCEPT !.governance = "audit_only", !.max = max, !.next = Goes("hand_over", "", Terminate),
               !.modes = <<[default |-> "semantic_lookup",
                            supported |-> [semantic_lookup |-> SemanticMode]]>>]

Approving(kind, operation, capability) ==
    [MCStep(kind, operation, capability,
            IF kind = "approval_handoff" THEN "approval_request" ELSE "placeholder")
        EXCEPT !.approval = TRUE, !.action = "send_email"]

WorkflowFile(workflow, steps_) ==
    [form |-> "object", workflow |-> workflow, type |-> "semantic_workflow_skeleton",
     owner |-> "alexis", governance |-> "enabled", steps |-> steps_]

Both(second, uses) ==
    WorkflowFile("both",
        <<Call("run_outreach", "outreach", "discover", Goes("notify", "notify", "")),
          Notice(uses), Call("run_other", second, "discover", Goes(Terminate, "", ""))>>)

Outreach(capability) ==
    WorkflowFile("outreach",
        <<[Retrieval(<<2>>) EXCEPT !.governance = "enabled"],
          Call("run_search", "search", "discover", Goes("hand_over", "", "")),
          Approving("approval_handoff", "hand_over", capability),
          Approving("delivery_placeholder", "deliver", "send_email")>>)

Search(ref) ==
    WorkflowFile("search",
        <<[Retrieval(<<>>) EXCEPT !.next = Goes(Terminate, "", "")]>>
        \o IF ref = "" THEN <<>> ELSE <<Call("back", ref, "discover", Goes("", "", ""))>>)

MCInstalledFiles == <<Both("outreach", {"candidate_count"}), Outreach("send_email"), Search("")>>

MCFileEdits ==
    <<{Both("search", {"unknown"})},
      {Outreach("draft_email"), [Outreach("send_email") EXCEPT !.governance = "disabled"]},
      {Search("outreach"), [Search("") EXCEPT !.form = "bad"]}>>

-----------------------------------------------------------------------------
(* The bindings, the contract and the registries.                          *)

File(section) == [form |-> "object", parts |-> [discovery |-> section]]

RequestSection(scope) ==
    [request |-> [enabled |-> TRUE, lookup_type |-> "bounded_entity_search",
                  entity_type |-> "guest", source_scope |-> scope,
                  allowed_source_scopes |-> {scope}, max_results |-> 5,
                  required_any |-> <<"search_topic", "query_intent">>,
                  optional |-> {"max_results"}, execution_status |-> "implemented"],
     materialization |-> [enabled |-> TRUE, context_type |-> "bounded_lookup_result",
                          allowed_fields |-> <<"name">>, max_fields |-> 1],
     render |-> [allowed |-> TRUE, render_modes |-> <<"structured_fact_block">>,
                 max_packets |-> 2, require_successful_retrieval |-> TRUE,
                 context_types |-> {"bounded_lookup_result"}, field_order |-> <<"name">>],
     injection |-> [allowed |-> TRUE, require_render_decision |-> TRUE,
                    require_rendered_context |-> TRUE,
                    content_types |-> {"lookup_context_block"},
                    render_modes |-> {"structured_fact_block"}, max_blocks |-> 2,
                    max_facts_per_block |-> 2, max_total_characters |-> 9,
                    truncation_mode |-> "drop_tail"]]

MCInstalledAgent ==
    [exists |-> TRUE, legacy |-> [form |-> "absent", parts |-> <<>>],
     skills |-> {}, resources |-> {"guest_db"},
     files |->
        <<File([shared_capability |-> "discover", resources |-> {"guest_db"}]),
          File([governance |-> "enabled"]), File(RequestSection("guests")),
          File([compatibility |-> [contract_version |-> 1, min_version |-> 1,
                                   max_version |-> 1,
                                   features |-> <<"bounded_entity_search", "governance">>]])>>]

MCAgentEdits ==
    <<{}, {File([governance |-> "audit_only"]), File([governance |-> "disabled"])},
      {File(RequestSection("public"))}, {}>>

MCContractFiles ==
    <<[form |-> "object", version |-> 1,
       parts |-> [bounded_lookup_context_capability |->
          [fail_closed |-> {TRUE}, retrieval |-> <<"retrieval", "lookup", "bounded">>,
           lookup_types |-> LookupTypes, features |-> SupportedFeatures,
           context_types |-> {"bounded_lookup_result"},
           render_modes |-> {"structured_fact_block"},
           content_types |-> {"lookup_context_block"}, truncation_modes |-> {"drop_tail"},
           required |-> LookupSections, contract_version |-> 1, runtime_version |-> 1,
           governance_states |-> GovernanceStates, cancellations |-> {"fail_closed"},
           required_planner_fields |-> <<"entity_name">>,
           optional_planner_fields |-> {"workflow_topic"}]]]>>

BoundedContract ==
    [id |-> "bounded", lookup_type |-> "bounded_entity_search",
     operation |-> "bounded_entity_search", raw_target_allowed |-> FALSE,
     forbids_behaviours |-> TRUE, forbids_telemetry |-> TRUE, fail_closed |-> {TRUE},
     required |-> {"search_topic", "query_intent"},
     optional |-> {"entity_type", "constraints", "max_results"}, forbidden |-> PolicyFields,
     owner |-> "agent_capability_policy", max |-> 10, final_answer |-> FALSE]

MCRegistryFiles ==
    [exact |-> [form |-> "object", version |-> 1, contracts |-> <<>>],
     bounded |-> [form |-> "object", version |-> 1, contracts |-> <<BoundedContract>>]]

MCItems == {<<>>, [search_topic |-> "physicians", max_results |-> 7]}

Found(n, executed) ==
    [kind |-> "answer", ok |-> TRUE, executed |-> executed,
     payloads |-> [i \in 1 .. n |-> [name |-> i]], reasons |-> {}]

MCAnswers == {Found(4, TRUE), Found(1, FALSE), [kind |-> "timeout"]}
================================================================================
