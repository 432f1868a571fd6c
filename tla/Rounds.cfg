CONSTANTS
    Cap = 2
    Slots = 2
    Listed = 1
    MaxJobs = 2
    MaxTurns = 3
    MaxCuts = 2
    Models = {m1, m2}
    VisionModels = {m1}
    Replies <- TwoReplies
    LiveKeys = {0, 2}
    Modes = {"off", "all"}
    MaxReplies = 1
    MaxImages = 1
    MaxRequests = 4
SPECIFICATION RoundsSpec
INVARIANTS
    RoundRulesTold
    WindowExact
PROPERTIES
    EdgesTold
    SentStays
    ClauseSteady
CHECK_DEADLOCK FALSE
