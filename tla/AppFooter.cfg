CONSTANTS
    Providers = {"ollama", "go"}
    Budget = 1
    BodyMax = 2
    Rows = 1
    TTL = 2
    Throttle = 3
    Floor <- TwoFloors
    Steps <- TwoSteps
    MaxImages = 1
    Scenes <- PickerScene
SPECIFICATION Spec
INVARIANT
    FooterIsTheMentions
CHECK_DEADLOCK FALSE
