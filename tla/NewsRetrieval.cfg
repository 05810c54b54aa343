SPECIFICATION Spec
CONSTANTS
    Providers = {"tavily"}
    Users = {}
    MaxExpiry = 3
    Entries = {1, 2}
    EntrySource <- MCSource
    EntryTopic <- MCTopic
    EntryDate <- MCDate
    MaxItemAge = 2
    MaxFetchAge = 1
    MinFresh = 1
    MinSources = 1
    MaxItems = 2
    MaxLatest = 2
    Fetchers = {f1, f2}
    Operators = {o1, o2}
    OfferedChanges <- MCChanges
    OfferedPolicies <- MCPolicies
    Answers <- MCAnswers
    SearchConfigs <- MCSearchConfigs
    Payloads <- MCPayloads
    Scenarios <- MCScenarios
    Topics = {"", "film"}
    MaxResults = 3
    ContractResults = 4
    Requested = {0, 1}
    Limits <- MCLimits
INVARIANTS
    TypeOK
    ServedIsFresh
    CallsFollowControls
    ChangesLostOnlyByOverlap
    ResultsRestOnCalls
CHECK_DEADLOCK FALSE
