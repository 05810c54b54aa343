------------------------------ MODULE ScheduledTasks ------------------------------
(***************************************************************************)
(* The tasks an agent declares to be scheduled                             *)
(* (registries/scheduled_task_registry.py), and which of them the executor *)
(* runs (scheduling/workflow_executor.py, workflow_diagnostics.py).        *)
(*                                                                         *)
(* A declaration is a record: fields names all fields it has at any depth; *)
(* operation is a function of the names it gives; what may be missing is   *)
(* <<>> or <<it>>.  closed is the set of the values of its fail_closed.    *)
(***************************************************************************)
EXTENDS Manifests

ScheduleTypes == {"cron", "interval"}
GovernanceStates == {"enabled", "audit_only", "disabled"}
BindingFields == {"agent", "workflow", "binding_id"}
OperationTypes == {"WORKFLOW_MAINTENANCE", "NEWS_INGESTION", "SMOKE_CHECK", "DATABASE_AUDIT"}
OperationFlags ==
    {"produces_artifact", "external_side_effects_allowed", "memory_write_allowed",
     "requires_approval"}
OperationFields == OperationFlags \union {"operation_type", "capability_id"}

ForbiddenTaskFields ==
    {"autonomous", "autonomous_task_creation", "self_mutating_schedule",
     "self_modifying_schedule", "hidden_prompt", "hidden_prompt_execution", "memory_write",
     "memory_writes", "background_retrieval", "execution_callable", "runner"}

-----------------------------------------------------------------------------
(* What is sound.                                                          *)

TaskContractSound(c) ==
    /\ c.form = "object" /\ c.id # "" /\ c.version = 1 /\ c.type = "scheduled_workflow_task"
    /\ c.schedule_types = ScheduleTypes /\ c.static /\ ~c.reinterpreted
    /\ c.binding_fields = BindingFields
    /\ c.operation_types = OperationTypes /\ c.operation_fields = OperationFields
    /\ c.operation_flags = OperationFlags
    /\ c.governance_states = GovernanceStates
    /\ c.closed \subseteq {TRUE}
    /\ ForbiddenTaskFields \subseteq c.forbidden

\* That a cron expression can be read, and its time zone, is not asked here.
ScheduleSound(s) ==
    \/ s.type = "cron" /\ s.expression # <<>> /\ s.timezone # ""
    \/ s.type = "interval" /\ s.every \in Nat \ {0}

OperationSound(o) ==
    /\ DOMAIN o = OperationFields
    /\ o["operation_type"] \in OperationTypes /\ o["capability_id"] # ""
    /\ \A flag \in OperationFlags : o[flag] \in BOOLEAN

BindingSound(b) == \A f \in BindingFields : b[f] # ""

ConstraintsSound(c) ==
    /\ c.max_runtime >= 1 /\ c.max_concurrent >= 1
    /\ c.retry \in {"", "none"}

TaskSound(d, contracts) ==
    /\ d.form = "object" /\ d.id # ""
    /\ d.fields \intersect ForbiddenTaskFields = {}
    /\ \E c \in ToSet(contracts) : c.id = d.contract /\ c.type = d.type
    /\ d.schedule # <<>> /\ ScheduleSound(d.schedule[1])
    /\ d.binding # <<>> /\ BindingSound(d.binding[1])
    /\ d.operation # <<>> /\ OperationSound(d.operation[1])
    /\ d.governance \in GovernanceStates
    /\ d.constraints # <<>> /\ ConstraintsSound(d.constraints[1])
    /\ d.audited /\ d.closed \subseteq {TRUE}

-----------------------------------------------------------------------------
(* Loading.                                                                *)

\* <<>> where anything in the file is amiss. A file that declares tasks
\* registers contracts.
LoadTaskContracts(file) ==
    IF /\ Readable(file)
       /\ \A c \in ToSet(file.contracts) : TaskContractSound(c)
       /\ AllDiffer(file.contracts)
       /\ \A d \in ToSet(file.entries) : TaskSound(d, file.contracts)
       /\ AllDiffer(file.entries)
    THEN file.contracts ELSE <<>>

LoadTasks(manifest, contracts) ==
    IF contracts = <<>> THEN Declared(<<>>, TRUE)
    ELSE LoadManifest(manifest, {d \in ToSet(manifest.entries) : TaskSound(d, contracts)})

-----------------------------------------------------------------------------
(* What the executor runs of what is declared.                             *)

Allowlist ==
    {"alexis_daily_news_briefing", "alexis_booking_workflow_smoke_check",
     "alexis_rss_feed_check"}

\* Workflows that act on the outside, write to memory or need approval are
\* not the scheduler's.
BlockReasons(d) ==
    LET operation == d.operation[1] IN
    {r \in {"declared_binding_mismatch", "approval_required",
            "external_side_effects_not_scheduler_executable",
            "memory_write_not_scheduler_executable"} :
        \/ /\ r = "declared_binding_mismatch"
           /\ {d.binding[1].workflow, d.binding[1].binding_id} # {d.id}
        \/ r = "approval_required" /\ operation["requires_approval"]
        \/ /\ r = "external_side_effects_not_scheduler_executable"
           /\ operation["external_side_effects_allowed"]
        \/ /\ r = "memory_write_not_scheduler_executable"
           /\ operation["memory_write_allowed"]}

Executable(d) ==
    /\ BlockReasons(d) = {}
    /\ d.binding[1].agent = "alexis" /\ d.id \in Allowlist
==================================================================================
