SPECIFICATION Spec
CONSTANTS
    LocalEngines = {"local_agent", "local_reasoner_fallback"}
    CloudEngines = {"cloud_fast"}
    RecoveryOrder <- MCRecoveryOrder
    Routes <- MCRoutes
    RepairEngine = "cloud_fast"
    NotSet = NotSet
    Types = {"lower_third", "guest_list"}
    StrictTypes = {"lower_third"}
    MaxRepairs = 2
    MaxActions = 2
    MaxTurns = 1
    MaxToggles = 1
CHECK_DEADLOCK FALSE
INVARIANTS
    DryRunsNeverKept
