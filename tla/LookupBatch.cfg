SPECIFICATION FairSpec
CONSTANTS
    NumRequests = 3
    MaxConcurrent = 2
INVARIANTS
    TypeOK
    PlannerOrder
    OrphansTimedOut
PROPERTIES
    BatchEnds
