CONSTANTS
    Insts = {"a", "b"}
    Plain <- MCPlain
    Scoped <- MCScoped
    ValuesOf <- MCValues
    Gated <- MCGated
    CapKey = "max_tokens"
    PinKey = "model"
    Presets <- MCPresets
    UserFiles <- MCUserFiles
    Envs <- MCEnvs
    MaxWrites = 2
    Me = "a"
    EndpointKey = "searxng"
    EnabledKey = "searxng_enabled"
    DefaultEndpoint = "default"
    Malformed = {"bad"}
    SearchMs = 1
    MaxSearches = 3
    CaptureMax = 2
    SilenceMs = 2
    GraceMs = 1
    MaxPrints = 4
    MaxCommands = 1
    WinBudget = 2
    WinPrints = 2
    WinCommands = 1
    IntDigits = 2
    FracDigits = 2
    PositiveCap = 10
    LongMax = 214
    Second = 12
    FileNames = {"f", "l"}
    Texts <- MCTexts
    Edits <- MCEdits
    Dirs <- MCDirs
    LinkMax = 2
    KernelLinks = 3
    Pids = {1, 2}
    MaxCalls = 2
    MaxForeign = 1
    NumberMax = 4
    HistoryMax = 3
    LineMax = 5
    SlotsMax = 1
    SecretMax = 3
    TokenMax = 5
    WireMax = 30
    HeadBytes = 24
    OutputMax = 9
    PlanMax = 3
    ReadReserve = 4
    LineClamp = 2
    Slack = 2
    WalkDepth = 1
    ColMax = 7
    TabWidth = 3
    CellsMax = 32
    HostMax = 3
    CountMax = 100000000
    Keywords <- MCKeywords
    Aliases <- MCAliases
    Letters <- MCLetters
    NameMax = 1
    DescMax = 2
    SkillsMax = 2
    RefusalsMax = 1
    MenuMax = 28
    MenuReserve = 5
    ContextMax = 14
    DepthMax = 2
    StatusLines = 2
    SectionMax = 3
    Outputs <- MCOutputs
    MaxUpdates = 5
SPECIFICATION LocalSpec
INVARIANTS
    StoreKept
    LatchIsEarned
    OwnStatusTold
    EditsAreWhole
    PromptInOrder
PROPERTIES
    FormsHold
    TellsTheTruth
    OneShotsEnd
CHECK_DEADLOCK FALSE
