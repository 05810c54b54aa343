----------------------------- MODULE WorkflowActions -----------------------------
(***************************************************************************)
(* What is made of the steps of a declared workflow: the action of its     *)
(* retrieval (workflows/materialization.py) and what comes of executing it *)
(* (workflows/execution.py), the notice to an operator                     *)
(* (workflows/notification.py), and the suspension for an approval         *)
(* (workflows/suspension.py).                                              *)
(*                                                                         *)
(* The agent is that of the bindings; contract and registries are as the   *)
(* process read them.                                                      *)
(***************************************************************************)
EXTENDS WorkflowDeclarations

-----------------------------------------------------------------------------
(* Retrieval.                                                              *)

MostResults == 5

Clamped(n, most) == Min({Max({1, n}), most})

\* A step that gives no number of results gets the most there may be.
MaxResults(step) ==
    IF step.max = <<>> THEN MostResults ELSE Clamped(step.max[1], MostResults)

\* Who plans may ask for less.
BoundedItem(item, max) ==
    [max_results |-> Clamped(Field(item, "max_results", max), max)] @@ item

NotMaterialized(reasons) == [action |-> <<>>, reasons |-> reasons]

\* The action says whether it may be executed as things stand.
RetrievalAction(d, step, resolved, request) ==
    [workflow |-> d.workflow, step |-> step.id, operation |-> step.operation,
     capability |-> step.capability, governance |-> step.governance, request |-> request,
     allowed |-> step.governance = "enabled" /\ ExecutionAllowed(resolved.governance)]

MaterializeRetrieval(d, item, agent, contract, registries) ==
    LET steps == FirstOfKind(d, "retrieval") IN
    IF steps = <<>> THEN NotMaterialized({"retrieval_step_not_declared"})
    ELSE IF d.governance = "disabled" THEN NotMaterialized({"workflow_disabled"})
    ELSE IF steps[1].governance = "disabled" THEN NotMaterialized({"retrieval_step_disabled"})
    ELSE LET step == steps[1]
             resolved == ResolveLookupCapability(agent, step.capability, contract)
             planned == CreateRequest(step.capability, <<BoundedItem(item, MaxResults(step))>>,
                                      resolved, registries, 0, 1)
         IN IF resolved = <<>> THEN NotMaterialized({"lookup_capability_resolution_failed"})
            ELSE IF planned.request = <<>> THEN NotMaterialized(planned.reasons)
            ELSE [action |-> <<RetrievalAction(d, step, resolved[1], planned.request[1])>>,
                  reasons |-> {}]

Receipt(result, candidates) ==
    [status |-> IF result.executed /\ result.reasons = {} THEN "executed" ELSE "closed",
     executed |-> result.executed, candidates |-> candidates, reasons |-> result.reasons]

\* For ExecuteRetrieval: what held when the action was made still holds.
ExecuteAsMaterialized(action, outcome, agent, contract, registries) ==
    LET result == IF action.allowed THEN FromExecutor(action.request, outcome)
                  ELSE Result(action.request, FALSE, <<>>, {"lookup_capability_disabled"})
    IN Receipt(result, Min({result.records, action.request.fields.max_results}))

\* The capability is resolved anew: what the action says of it, and whether
\* its step is enabled, no longer matters.
ExecuteRetrieval(action, outcome, agent, contract, registries) ==
    LET resolved == ResolveLookupCapability(agent, action.capability, contract)
        refused ==
            IF resolved = <<>> THEN {"lookup_capability_resolution_failed"}
            ELSE IF ~ExecutionAllowed(resolved[1].governance)
            THEN {"lookup_capability_" \o resolved[1].governance}
            ELSE Refused(action.request, resolved, registries)
        result == IF refused # {} THEN Result(action.request, FALSE, <<>>, refused)
                  ELSE FromExecutor(action.request, outcome)
    IN Receipt(result, Min({result.records,
                            Field(action.request.fields, "max_results", result.records)}))

-----------------------------------------------------------------------------
(* A notice.                                                               *)

TemplateFields == {"candidate_count", "min_required_candidates", "candidate_names"}

\* Declared are a format, a text, and the fields it may use; the fields it
\* does use only have to be fields there are.
TemplateDeclared(step) ==
    /\ step.template # <<>>
    /\ step.template[1].text /\ step.template[1].format
    /\ step.template[1].placeholders \subseteq TemplateFields

Notification(reasons) ==
    [materialized |-> reasons = {}, reasons |-> reasons,
     outcome |-> IF reasons = {} THEN "success" ELSE "failure"]

MaterializeNotification(step, adequacy) ==
    Notification(
        IF OperationKind(step) # "notify_and_continue"
        THEN {"operation_kind_not_notify_and_continue"}
        ELSE IF ~TemplateDeclared(step) THEN {"message_template_not_declared"}
        ELSE IF adequacy # "guest_candidate_adequacy" THEN {"adequacy_artifact_invalid"}
        ELSE IF step.template[1].uses \subseteq TemplateFields THEN {}
        ELSE {"message_template_binding_failed"})

-----------------------------------------------------------------------------
(* A suspension: of the step that is named, or of the first that hands     *)
(* over for approval, or else of the first that is to deliver.             *)

ApprovalStep(d, id) ==
    LET handoff == FirstOfKind(d, "approval_handoff") IN
    IF id # "" THEN StepById(d, id)
    ELSE IF handoff # <<>> THEN handoff
    ELSE FirstOfKind(d, "delivery_placeholder")

Suspendable(step) == step # <<>> /\ step[1].approval /\ ~step[1].delivers

NoTrust == [state |-> "", requested |-> "", lineage |-> <<>>]

SuspendedInstance(d, step) ==
    [workflow |-> d.workflow, step |-> step.id, status |-> "suspended",
     approval |-> "pending_approval", suspended |-> TRUE, trust |-> NoTrust]
================================================================================
