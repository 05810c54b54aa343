SPECIFICATION Spec
CONSTANTS
    InstalledFiles <- MCInstalledFiles
    FileEdits <- MCFileEdits
    TaskIds <- MCTaskIds
    TicksPerMinute = 2
    MaxIterations = 3
    MinGap = 2
    MaxStatus = 2
    MaxClock = 3
    MaxLives = 2
    MaxEdits = 1
INVARIANTS
    TypeOK
    OncePerWindow
    SoundTasksAreServed
    AuditMatchesRuns
    FeedVerdictsAgree
