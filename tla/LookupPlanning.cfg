SPECIFICATION Spec
CONSTANTS
    Capabilities <- MCCapabilities
    FallbacksDisabled = FALSE
    InstalledAgent <- MCInstalledAgent
    InstalledShared <- MCInstalledShared
    AgentEdits <- MCAgentEdits
    SharedEdits <- MCSharedEdits
    Messages <- MCMessages
    Answers <- MCAnswers
    Artifacts <- MCArtifacts
    Hints <- MCHints
    Outcomes <- MCOutcomes
    MaxTurns = 2
    MaxEdits = 2
CHECK_DEADLOCK FALSE
INVARIANTS
    TypeOK
    LookupsFollowTurnsRules
    BudgetDropsTheTail
    SummaryTellsWhy
    EnginesFollowNeeds
