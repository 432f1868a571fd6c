CONSTANTS
    MaxIds = 2
    MaxJobs = 2
    OrphanCap = 1
    BufMax = 1
    TtyCap = 1
    InCap = 1
    MaxOut = 1
    Bodies = {0}
    LeaderWaits = FALSE
SPECIFICATION FairSpec
PROPERTIES
    NoStall
    CallEnds
CHECK_DEADLOCK FALSE
