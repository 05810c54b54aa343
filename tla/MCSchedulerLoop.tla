---------------------------- MODULE MCSchedulerLoop ----------------------------
(***************************************************************************)
(* SchedulerLoop for TLC: a cron task, an interval task and a task whose   *)
(* runs are refused, over a few windows of two instants each, so that a    *)
(* process polls twice in a window and starts again within one. Edits of   *)
(* the manifest disable a task, give it another schedule, spoil it, repeat *)
(* it; others spoil a registry or a feed.                                  *)
(***************************************************************************)
EXTENDS SchedulerLoop

TaskContract ==
    [form |-> "object", id |-> "task", version |-> 1, type |-> "scheduled_workflow_task",
     schedule_types |-> ScheduleTypes, static |-> TRUE, reinterpreted |-> FALSE,
     binding_fields |-> BindingFields, operation_types |-> OperationTypes,
     operation_fields |-> OperationFields, operation_flags |-> OperationFlags,
     governance_states |-> GovernanceStates, closed |-> {TRUE},
     forbidden |-> ForbiddenTaskFields]

Cron(minutes, timezone) ==
    <<[type |-> "cron", expression |-> <<[readable |-> TRUE, minutes |-> minutes]>>,
       timezone |-> timezone]>>

Interval(every) == <<[type |-> "interval", every |-> every]>>

Operation(approved) ==
    [f \in OperationFields |->
        CASE f = "operation_type" -> "WORKFLOW_MAINTENANCE"
          [] f = "capability_id" -> "capability"
          [] f = "requires_approval" -> approved
          [] OTHER -> FALSE]

Task(id, schedule, approved) ==
    [form |-> "object", id |-> id, fields |-> {}, contract |-> "task",
     type |-> "scheduled_workflow_task", schedule |-> schedule,
     binding |-> <<[agent |-> "alexis", workflow |-> id, binding_id |-> id]>>,
     operation |-> <<Operation(approved)>>, governance |-> "enabled",
     constraints |-> <<[max_runtime |-> 1, max_concurrent |-> 1, retry |-> "none"]>>,
     audited |-> TRUE, closed |-> {TRUE}]

Manifest(entries) == [form |-> "object", version |-> 1, entries |-> entries]
Registry(contracts) ==
    [form |-> "object", version |-> 1, contracts |-> contracts, entries |-> <<>>]

Briefing == Task("alexis_daily_news_briefing", Cron({0, 1}, "UTC"), TRUE)
SmokeCheck == Task("alexis_booking_workflow_smoke_check", Interval(2), FALSE)
FeedCheck == Task("alexis_rss_feed_check", Cron({0, 1}, "UTC"), FALSE)

SourceContract ==
    [form |-> "object", id |-> "feed", version |-> 1, type |-> "rss_feed",
     declaration_fields |-> D!SourceFields, governance_states |-> D!SourceGovernance,
     static |-> TRUE, refresh_types |-> D!RefreshTypes, required |-> D!RequiredSections,
     closed |-> {TRUE}, forbidden |-> D!ForbiddenSourceFields]

Feed(id) ==
    [form |-> "object", id |-> id, fields |-> {}, type |-> "rss_feed", contract |-> "feed",
     url |-> "https", owner |-> "alexis", governance |-> "enabled", refresh |-> "scheduled",
     category |-> "news", tags |-> {"health"}, priority |-> "normal", rationale |-> TRUE,
     provenance |-> [citation_required |-> TRUE, source_url_required |-> TRUE,
                     attribution_required |-> TRUE, prose_only_output_allowed |-> FALSE],
     audited |-> TRUE,
     content |-> [raw_content_storage_allowed |-> FALSE,
                  prompt_injection_surface_allowed |-> FALSE,
                  summary_generation_allowed |-> FALSE],
     storage |-> [memory_write_allowed |-> FALSE, article_storage_allowed |-> FALSE,
                  metadata_storage_allowed |-> TRUE]]

MCInstalledFiles ==
    [tasks |-> Registry(<<TaskContract>>),
     manifest |-> Manifest(<<Briefing, SmokeCheck, FeedCheck>>),
     sources |-> Registry(<<SourceContract>>),
     feeds |-> Manifest(<<Feed("a"), Feed("b")>>)]

MCFileEdits ==
    [tasks |-> {Registry(<<[TaskContract EXCEPT !.reinterpreted = TRUE]>>)},
     manifest |->
        {Manifest(<<Briefing, [SmokeCheck EXCEPT !.governance = "disabled"], FeedCheck>>),
         Manifest(<<[Briefing EXCEPT !.fields = {"autonomous"}], SmokeCheck,
                    [FeedCheck EXCEPT !.schedule = Interval(2)]>>),
         Manifest(<<SmokeCheck, SmokeCheck, FeedCheck>>)},
     sources |-> {Registry(<<[SourceContract EXCEPT !.static = FALSE]>>)},
     feeds |-> {Manifest(<<[Feed("a") EXCEPT !.url = "file"], Feed("b")>>)}]

MCTaskIds == {Briefing.id, SmokeCheck.id, FeedCheck.id}
================================================================================
