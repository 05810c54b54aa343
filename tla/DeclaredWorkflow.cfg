SPECIFICATION Spec
CONSTANTS
    AgentName = "alexis"
    InstalledFiles <- MCInstalledFiles
    InstalledAgent <- MCInstalledAgent
    FileEdits <- MCFileEdits
    AgentEdits <- MCAgentEdits
    ContractFiles <- MCContractFiles
    RegistryFiles <- MCRegistryFiles
    Items <- MCItems
    Answers <- MCAnswers
    Statuses = {"succeeded", "insufficient", "executed"}
    TrustStates = {"verified"}
    MaxDepth = 1
    MaxWalks = 2
    MaxSteps = 2
    MaxEdits = 2
CHECK_DEADLOCK FALSE
INVARIANTS
    TypeOK
    LoadsWhatIsAcyclic
    RetrievalUnderRulesNow
    TrustStaysInScope
