CONSTANTS
    Paths = {"p"}
    Names = {"p"}
    FileOf <- Alone
    LineSize <- Sizes
    Contents <- SameSizes
    Windows <- ThreeWindows
    Budget = 12
    MaxEntries = 2
    MaxStamp = 3
    Hosts = {"api", "API", "web", "long"}
    Fold <- NameFold
    TooLong = {"long"}
    Ports = {80, 443}
    Entries = 2
    TTL = 2
    Conns = {1}
    SocketsFail = TRUE
    Answers <- Overflowing
    FamilyOf <- MCFamilyOf
    MaxAddrs = 3
    ConnectMs = 1
    HandshakeMs = 1
    Grain = 2
    ReqLen = 1
SPECIFICATION ServicesSpec
INVARIANTS
    RepeatIsAbove
    
    StaleViewTold
    WalkComplete
    WaitIsWhatIsLeft
PROPERTIES
    LatchNeedsSilenceAndAnAnswer
    WaitsEnd
    NamesKept
CHECK_DEADLOCK FALSE
