CONSTANTS
    Providers = {"ollama", "go"}
    Budget = 1
    BodyMax = 2
    Rows = 2
    TTL = 2
    Throttle = 3
    Floor <- TwoFloors
    Steps <- TwoSteps
    MaxImages = 3
    Scenes <- AllScenes
SPECIFICATION FairSpec
INVARIANTS
    MachineHasItsSource
    RowsAreTheProviders
    PendingIsAlive
    OneAttemptPerWindow
PROPERTY
    FetchesEnd
CHECK_DEADLOCK FALSE
