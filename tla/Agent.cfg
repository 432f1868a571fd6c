CONSTANTS
    MaxRounds = 2
    MaxCalls = 2
    MaxTurns = 2
    Repository = TRUE
    MaxAsides = 1
    ImageTools = TRUE
SPECIFICATION FairSpec
INVARIANTS
    StateOwnsResources
    ToolGroupsComplete
    ConversationShape
PROPERTIES
    PromptSettled
    ImplementsProtocol
    TurnEnds
CHECK_DEADLOCK FALSE
