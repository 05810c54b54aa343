------------------------------ MODULE LookupContext ------------------------------
(***************************************************************************)
(* From the results of a turn's lookups to the text its messages carry:    *)
(* packets (lookup/context_materializer.py), whether they may be shown     *)
(* (context_render_gate.py), the blocks they make (context_renderer.py),   *)
(* what of them the budget leaves (context_budgeting.py), the injection    *)
(* (context_injection.py) behind the attachment guard                      *)
(* (attachment_guard.py), and the summary the trace gets                   *)
(* (pipeline_summary.py).                                                  *)
(*                                                                         *)
(* A payload is a function from fields to the lengths of their values; a   *)
(* value that is not safe (no text, or none left) has length 0.            *)
(***************************************************************************)
EXTENDS LookupRequests

-----------------------------------------------------------------------------
(* Packets: the fields on the list, in its order, so many of them.         *)

AllowlistedFields(payload, policy) ==
    FirstOf(Wanted(policy.allowed_fields, DOMAIN payload), policy.max_fields)

\* A value that is not safe, or a payload with no field of the list.
PayloadUsable(payload, policy) ==
    LET fields == AllowlistedFields(payload, policy) IN
    fields # <<>> /\ \A f \in Range(fields) : payload[f] > 0

Packet(result, payload, policy) ==
    [context_type |-> policy.context_type, lookup_type |-> result.request.lookup_type,
     source_scope |-> result.request.fields.source_scope,
     entity_type |-> result.request.fields.entity_type,
     id |-> result.request.id, root |-> result.request.root,
     fields |-> Restrict(payload, Range(AllowlistedFields(payload, policy)))]

\* One payload that cannot be used, and the result has no packet at all.
PacketsOf(result, policy) ==
    IF /\ result.executed
       /\ result.records >= 1 /\ Len(result.payloads) = result.records
       /\ \A p \in Range(result.payloads) : PayloadUsable(p, policy)
    THEN [i \in DOMAIN result.payloads |-> Packet(result, result.payloads[i], policy)]
    ELSE <<>>

Materialize(results, policy) ==
    IF policy = <<>> THEN <<>>
    ELSE FlattenSeq([i \in DOMAIN results |-> PacketsOf(results[i], policy[1])])

-----------------------------------------------------------------------------
(* The gate: all packets, or none.                                         *)

AllowedBy(policy, name, value) == name \in DOMAIN policy => value \in policy[name]

PacketReasons(packet, policy) ==
    UNION {IF packet.context_type \in policy.context_types THEN {}
           ELSE {"disallowed_context_type"},
           IF AllowedBy(policy, "lookup_types", packet.lookup_type) THEN {}
           ELSE {"disallowed_lookup_type"},
           IF AllowedBy(policy, "source_scopes", packet.source_scope) THEN {}
           ELSE {"disallowed_source_scope"},
           IF AllowedBy(policy, "entity_types", packet.entity_type) THEN {}
           ELSE {"disallowed_entity_type"}}

GateReasons(packets, policy) ==
    IF policy = <<>> THEN {"missing_or_malformed_render_policy"}
    ELSE IF packets = <<>> THEN {"no_lookup_context_packets"}
    ELSE IF Len(packets) > policy[1].max_packets THEN {"lookup_context_packet_limit_exceeded"}
    ELSE UNION {PacketReasons(p, policy[1]) : p \in Range(packets)}

RenderGate(packets, policy) ==
    LET reasons == GateReasons(packets, policy) IN
    [allowed |-> reasons = {}, reasons |-> reasons,
     mode |-> IF reasons = {} THEN policy[1].render_modes[1] ELSE "none",
     ids |-> {packets[i].id : i \in DOMAIN packets}]

-----------------------------------------------------------------------------
(* Blocks: <<>> or <<[mode, blocks]>>.                                     *)

Facts(packet, policy) ==
    LET shown == Wanted(policy.field_order, DOMAIN packet.fields)
    IN [i \in DOMAIN shown |-> [field |-> shown[i], length |-> packet.fields[shown[i]]]]

Block(packet, policy) ==
    [id |-> packet.id, root |-> packet.root, facts |-> Facts(packet, policy)]

Render(packets, decision, policy) ==
    IF ~decision.allowed \/ decision.mode # "structured_fact_block" THEN <<>>
    ELSE LET chosen == Wanted(packets, {p \in Range(packets) :
                                  p.id \in decision.ids /\ Facts(p, policy[1]) # <<>>})
         IN IF chosen = <<>> THEN <<>>
            ELSE <<[mode |-> decision.mode,
                    blocks |-> [i \in DOMAIN chosen |-> Block(chosen[i], policy[1])]]>>

-----------------------------------------------------------------------------
(* The budget. What a block and the whole cost besides their facts:        *)

BlockLength == 2
FrameLength == 1

LengthOf(blocks) ==
    FrameLength + SumFunction([i \in DOMAIN blocks |->
        BlockLength + SumFunction([j \in DOMAIN blocks[i].facts |-> blocks[i].facts[j].length])])

\* No more blocks, and no more facts in each, than there may be.
WithinCounts(blocks, policy) ==
    LET kept == FirstOf(blocks, policy.max_blocks)
    IN [i \in DOMAIN kept |->
           [kept[i] EXCEPT !.facts = FirstOf(@, policy.max_facts_per_block)]]

\* For DropTail: from the first block that has two.
DropTailOfFirst(blocks) ==
    LET long == {i \in DOMAIN blocks : Len(blocks[i].facts) > 1} IN
    IF long # {} THEN [blocks EXCEPT ![Min(long)].facts = Front(@)]
    ELSE IF Len(blocks) > 1 THEN Front(blocks) ELSE blocks

\* The last fact of the last block that has two; then the last block.
DropTail(blocks) ==
    LET long == {i \in DOMAIN blocks : Len(blocks[i].facts) > 1} IN
    IF long # {} THEN [blocks EXCEPT ![Max(long)].facts = Front(@)]
    ELSE IF Len(blocks) > 1 THEN Front(blocks) ELSE blocks

FactsIn(blocks) == Total([i \in DOMAIN blocks |-> Len(blocks[i].facts)])

\* The tail is dropped until the rest fits, and no more often than there are
\* facts and blocks.
WithinLength(blocks, policy) ==
    LET kept[n \in 0 .. FactsIn(blocks) + Len(blocks)] ==
            IF n = 0 THEN blocks
            ELSE LET before == kept[n - 1] IN
                 IF LengthOf(before) <= policy.max_total_characters THEN before
                 ELSE DropTail(before)
    IN kept[FactsIn(blocks) + Len(blocks)]

Budgeted(rendered, policy) ==
    LET blocks == WithinLength(WithinCounts(rendered.blocks, policy), policy) IN
    IF LengthOf(blocks) <= policy.max_total_characters
    THEN <<[rendered EXCEPT !.blocks = blocks]>> ELSE <<>>

-----------------------------------------------------------------------------
(* The attachment guard.                                                   *)

HiddenFields == {"governance", "trust_lineage", "raw_lookup_results", "retrieval_policy"}
SemanticTargets == {"planner_prompt", "runtime_messages", "active_artifact_context"}
RetrievalArtifacts ==
    {"external_discovery_result_set", "external_search_result_set", "search_api_result_set"}

AttachmentAllowed(attachment) ==
    /\ attachment.id                                  \* its provenance names it
    /\ attachment.source \in {"diagnostic", "governance", "retrieval", "visibility"}
          => attachment.target \notin SemanticTargets
    /\ attachment.source = "retrieval" => attachment.target = "lookup_context_block"
    /\ attachment.names \intersect HiddenFields = {}

ArtifactAttaches(artifact) ==
    artifact # <<>> =>
        /\ AttachmentAllowed([id |-> artifact[1].id, source |-> "artifact",
                              target |-> "active_artifact_context",
                              names |-> artifact[1].names])
        /\ artifact[1].type \notin RetrievalArtifacts

-----------------------------------------------------------------------------
(* The injection.                                                          *)

NotInjected(reason) == [allowed |-> FALSE, reasons |-> {reason}, fragment |-> <<>>]

Injectable(rendered, policy) ==
    /\ "lookup_context_block" \in policy.content_types
    /\ rendered.mode \in policy.render_modes
    /\ Len(rendered.blocks) \in 1 .. policy.max_blocks
    /\ AttachmentAllowed([id |-> TRUE, source |-> "retrieval",
                          target |-> "lookup_context_block", names |-> {}])

Inject(rendered, decision, policy) ==
    IF policy = <<>> THEN NotInjected("missing_or_malformed_injection_policy")
    ELSE IF ~decision.allowed THEN NotInjected("render_decision_not_allowed")
    ELSE IF rendered = <<>> THEN NotInjected("missing_rendered_lookup_context")
    ELSE LET budgeted == Budgeted(rendered[1], policy[1]) IN
         IF budgeted = <<>> THEN NotInjected("budget_cannot_be_satisfied")
         ELSE IF ~Injectable(budgeted[1], policy[1])
         THEN NotInjected("rendered_lookup_context_not_injectable")
         ELSE [allowed |-> TRUE, reasons |-> {}, fragment |-> budgeted]

-----------------------------------------------------------------------------
(* The summary of a turn.                                                  *)

UnauthorizedReasons ==
    {"lookup_executor_unavailable", "unauthorized_source_scope",
     "source_scope_not_supported_by_capability", "lookup_type_not_supported_by_capability"}

\* One record and no reason: a search that finds two has failed.
Status(r) ==
    IF r.executed /\ r.records = 1 /\ r.reasons = {}         THEN "success"
    ELSE IF "lookup_execution_timeout" \in r.reasons         THEN "timeout"
    ELSE IF "lookup_execution_cancelled" \in r.reasons       THEN "cancelled"
    ELSE IF r.reasons \intersect UnauthorizedReasons # {}    THEN "unauthorized"
    ELSE IF "multiple_exact_matches" \in r.reasons           THEN "duplicate_match"
    ELSE IF "no_exact_match" \in r.reasons                   THEN "no_match"
    ELSE IF r.executed THEN "failed" ELSE "skipped"

Successful(results) == Cardinality({i \in DOMAIN results : Status(results[i]) = "success"})

\* What all of the results share; that none was found is a failure.
ExecutionStatus(attempted, created, results) ==
    LET statuses == {Status(r) : r \in Range(results)}
        shared == CHOOSE s \in statuses : TRUE
    IN IF ~attempted                      THEN "not_attempted"
       ELSE IF ~created                   THEN "request_not_created"
       ELSE IF results = <<>>             THEN "not_executed"
       ELSE IF statuses = {"success"}     THEN "success"
       ELSE IF "success" \in statuses     THEN "partial_success"
       ELSE IF statuses \in {{"unauthorized"}, {"duplicate_match"}, {"timeout"}, {"cancelled"}}
            THEN shared
       ELSE IF statuses = {"no_match"} \/ \E r \in Range(results) : r.executed
            THEN "failed" ELSE "skipped"

\* traces: of the requests that were declared; injection: <<>> until tried.
Summary(traces, requests, results, packets, decision, injection) ==
    LET attempted == traces # <<>> \/ requests # <<>> IN
    [attempted |-> attempted, created |-> requests # <<>>,
     status |-> ExecutionStatus(attempted, requests # <<>>, results),
     successful |-> Successful(results),
     failed |-> Len(results) - Successful(results),
     records |-> Total([i \in DOMAIN results |-> results[i].records]),
     materialized |-> packets # <<>>,
     render_allowed |-> decision.allowed,
     injected |-> IF injection = <<>> \/ ~injection[1].allowed THEN 0
                  ELSE Len(injection[1].fragment[1].blocks),
     roots |-> {r.root : r \in Range(requests)},
     reasons |-> (UNION {t.reasons : t \in Range(traces)})
                 \union (UNION {r.reasons : r \in Range(results)})
                 \union decision.reasons
                 \union (IF injection = <<>> THEN {} ELSE injection[1].reasons)]
================================================================================
