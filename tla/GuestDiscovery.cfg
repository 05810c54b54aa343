SPECIFICATION Spec
CONSTANTS
    Providers = {"tavily"}
    Users = {}
    MaxExpiry = 1
    Requests <- MCRequests
    Payloads <- MCPayloads
    Pages <- MCPages
    FileSets <- MCFileSets
    ControlFiles <- MCControlFiles
    Environments <- MCEnvironments
    Allowed <- MCAllowed
    Agent = "alexis"
    MaxShown = 3
    MaxReceipts = 2
    MaxEdits = 2
    MaxRequests = 2
CHECK_DEADLOCK FALSE
INVARIANTS
    TypeOK
    CallsWereAuthorized
    ReceiptsOwnUpToCalls
    MergeGroupsByIdentity
