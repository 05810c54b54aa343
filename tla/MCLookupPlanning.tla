---------------------------- MODULE MCLookupPlanning ----------------------------
(***************************************************************************)
(* LookupPlanning for TLC: one agent whose drafts look guests up by name,  *)
(* messages that take each way through the planner, two turns and two      *)
(* edits, of each file that bears on lookups.                              *)
(***************************************************************************)
EXTENDS LookupPlanning

File(section) == [form |-> "object", parts |-> [drafts |-> section]]
Bad == [form |-> "bad", parts |-> <<>>]

RequestSection(scope) ==
    [execution |-> [timeout_ms |-> 3000, cancellation |-> "fail_closed", max_concurrent |-> 4],
     request |-> [enabled |-> TRUE, lookup_type |-> "exact_entity_lookup",
                  entity_type |-> "guest", source_scope |-> scope,
                  allowed_source_scopes |-> {scope}, required |-> <<"entity_name">>,
                  optional |-> {"workflow_topic"}]]

SearchSection ==
    [RequestSection("guests") EXCEPT !.request =
        [enabled |-> TRUE, lookup_type |-> "bounded_entity_search", entity_type |-> "guest",
         source_scope |-> "guests", allowed_source_scopes |-> {"guests"},
         required_any |-> <<"search_topic", "query_intent">>, max_results |-> 5,
         execution_status |-> "implemented"]]

RenderSection(allowed, scope) ==
    [materialization |-> [enabled |-> TRUE, context_type |-> "bounded_lookup_result",
                          allowed_fields |-> allowed, max_fields |-> Len(allowed)],
     render |-> [allowed |-> TRUE, render_modes |-> <<"structured_fact_block">>,
                 max_packets |-> 2, require_successful_retrieval |-> TRUE,
                 context_types |-> {"bounded_lookup_result"},
                 lookup_types |-> {"exact_entity_lookup"}, source_scopes |-> {scope},
                 field_order |-> <<"name", "title", "notes">>]]

InjectionSection(facts, characters) ==
    [injection |-> [allowed |-> TRUE, require_render_decision |-> TRUE,
                    require_rendered_context |-> TRUE,
                    content_types |-> {"lookup_context_block"},
                    render_modes |-> {"structured_fact_block"}, max_blocks |-> 2,
                    max_facts_per_block |-> facts, max_total_characters |-> characters,
                    truncation_mode |-> "drop_tail"]]

MCInstalledAgent ==
    [exists |-> TRUE, legacy |-> [form |-> "absent", parts |-> <<>>],
     skills |-> {"structured_actions"}, resources |-> {"guest_db"},
     files |->
        <<File([shared_capability |-> "draft_email", skills |-> {"structured_actions"},
                resources |-> {"guest_db"}]),
          File([governance |-> "enabled"]),
          File(RequestSection("guests")),
          File(RenderSection(<<"name", "title">>, "guests")),
          File(InjectionSection(2, 9)),
          File([tone |-> "newsroom"]),
          File([compatibility |-> [contract_version |-> 1, min_version |-> 1,
                                   max_version |-> 1,
                                   features |-> <<"exact_entity_lookup", "governance">>]])>>]

MCAgentEdits ==
    <<{Bad}, {File([governance |-> "audit_only"]), File([governance |-> "disabled"]), MCInstalledAgent.files[2]},
      {File(RequestSection("public")), File(SearchSection)},
      {File(RenderSection(<<"name", "notes", "title">>, "guests"))},
      {File(InjectionSection(1, 9)), File(InjectionSection(3, 7))}, {}, {}>>

Section(fields) ==
    [form |-> "object", version |-> 1,
     parts |-> [bounded_lookup_context_capability |-> fields]]

MCContract ==
    <<Section([fail_closed |-> {TRUE}, retrieval |-> <<"retrieval", "lookup", "bounded">>,
               lookup_types |-> LookupTypes, features |-> SupportedFeatures]),
      Section([context_types |-> {"bounded_lookup_result"},
               render_modes |-> {"structured_fact_block"},
               content_types |-> {"lookup_context_block"}, truncation_modes |-> {"drop_tail"},
               required |-> LookupSections]),
      Section([contract_version |-> 1, runtime_version |-> 1]),
      Section([governance_states |-> GovernanceStates]),
      Section([cancellations |-> {"fail_closed"}, required_planner_fields |-> <<"entity_name">>,
               optional_planner_fields |-> {"workflow_topic"}])>>

ExactContract ==
    [id |-> "exact", lookup_type |-> "exact_entity_lookup",
     operation |-> "exact_entity_lookup", raw_target_allowed |-> FALSE,
     forbids_behaviours |-> TRUE, forbids_telemetry |-> TRUE, fail_closed |-> {TRUE},
     required |-> {"entity_name"},
     optional |-> {"entity_type", "workflow_topic", "source_scope"},
     max |-> 1, match_mode |-> "exact_name_only"]

Registry(contract) == [form |-> "object", version |-> 1, contracts |-> <<contract>>]

MCInstalledShared ==
    [contract |-> MCContract, exact |-> Registry(ExactContract),
     bounded |-> [form |-> "object", version |-> 1, contracts |-> <<>>]]

MCSharedEdits ==
    [contract |-> {[MCContract EXCEPT ![4].form = "bad"]},
     exact |-> {Registry([ExactContract EXCEPT !.max = 2])}]

Message(names, inferred, explicit) ==
    [empty |-> FALSE, direct |-> "", simple |-> FALSE, long |-> FALSE, explicit |-> explicit,
     inferred |-> inferred, transform |-> "local_agent", names |-> names, topic |-> ""]

MCMessages ==
    {Message(<<"ada">>, "email_draft", ""), Message(<<"ada", "bob">>, "", "email_draft"),
     [Message(<<>>, "", "") EXCEPT !.direct = "greeting"],
     [Message(<<>>, "", "") EXCEPT !.simple = TRUE],
     [Message(<<"ada">>, "", "") EXCEPT !.long = TRUE],
     [Message(<<>>, "", "") EXCEPT !.transform = "unplanned", !.topic = "news"],
     [Message(<<>>, "", "") EXCEPT !.empty = TRUE]}

Answer(mode) ==
    [mode |-> mode, direct |-> TRUE, direct_type |-> "greeting", fast |-> TRUE,
     uses_artifact |-> TRUE, capability |-> "draft_email"]

MCAnswers ==
    {<<>>, <<Answer("ANSWER_QUESTION")>>, <<Answer("ANSWER_QUESTION") @@ [needs_full |-> TRUE]>>,
     <<[Answer("ANSWER_QUESTION") EXCEPT !.direct_type = ""]>>,
     <<Answer("TRANSFORM_EXISTING")>>, <<Answer("CONVERT_ARTIFACT")>>,
     <<Answer("CONTINUE_WORKFLOW")>>,
     <<[Answer("CONTINUE_WORKFLOW") EXCEPT !.uses_artifact = FALSE, !.capability = "send_email"]>>,
     <<Answer("NEW_REQUEST") @@ [explicit |-> "producer_note"]>>, <<Answer("SMALL_TALK")>>}

Artifact(type, grounding) ==
    <<[id |-> TRUE, names |-> {}, type |-> type, grounding |-> grounding]>>

MCArtifacts ==
    {<<>>, Artifact("email_draft", TRUE), Artifact("search_api_result_set", TRUE),
     Artifact("lower_third", FALSE)}

Silent == [paths |-> {<<"plain", "semantic">>}, visibility |-> {}]
Visible == [keys |-> {"visible"}, safe |-> TRUE, reinterpreted |-> FALSE, attaches |-> TRUE]

Intent(type, capability, needs, tier, said) ==
    <<[type |-> type, capability |-> capability, needs |-> needs, tier |-> tier, said |-> said]>>

Online == [current |-> TRUE, web |-> TRUE, fidelity |-> TRUE, depth |-> "deep", latency |-> "best"]

Intents ==
    {<<>>, Intent("email_draft", "draft_email", [depth |-> "low"], "", Silent),
     Intent("sourced_contact_result", "", Online, "cloud_web_deep", Silent),
     Intent("email_draft", "", [depth |-> "low"], "cloud_web_fast",
            [Silent EXCEPT !.visibility = {Visible}]),
     Intent("email_draft", "", [depth |-> "low"], "", [Silent EXCEPT !.paths = {<<"governance">>}])}

Said(needs, said) ==
    <<[needs |-> needs @@ DefaultNeeds, said |-> said,
       metadata |-> [form |-> "targets", items |-> <<[entity_name |-> "ada"]>>]]>>

Plannings ==
    {<<>>, Said([output |-> "general_answer", style |-> "medium", latency |-> "balanced"], Silent),
     Said([output |-> "general_answer", current |-> TRUE], Silent),
     Said([output |-> "summary", web |-> TRUE, fidelity |-> TRUE], Silent),
     Said([output |-> "action"],
          [Silent EXCEPT !.visibility = {[Visible EXCEPT !.safe = FALSE]}])}

MCHints ==
    LET plain == [followup |-> "NONE", intent |-> <<>>, said |-> <<>>] IN
    {[plain EXCEPT !.followup = f] : f \in {"NONE", "CONTINUE", "raises"}}
    \union {[plain EXCEPT !.intent = i] : i \in Intents}
    \union {[plain EXCEPT !.said = s] : s \in Plannings}

Found(payload) ==
    [kind |-> "answer", ok |-> TRUE, executed |-> TRUE, payloads |-> <<payload>>, reasons |-> {}]

MCOutcomes ==
    [exact_entity_lookup |->
        {Found([name |-> 1, title |-> 2, notes |-> 1]), Found([name |-> 0]),
         [Found([notes |-> 1]) EXCEPT !.payloads = <<>>],
         [Found([name |-> 1]) EXCEPT !.ok = FALSE, !.reasons = {"no_exact_match"}],
         [Found([name |-> 1]) EXCEPT !.ok = FALSE, !.reasons = {"multiple_exact_matches"}],
         [kind |-> "unavailable"], [kind |-> "timeout"], [kind |-> "cancelled"]},
     bounded_entity_search |->
        {[Found([name |-> 1]) EXCEPT !.payloads = <<[name |-> 1], [name |-> 2]>>]}]

MCCapabilities == [draft_email |-> FALSE, send_email |-> TRUE, producer_note |-> FALSE]
================================================================================
