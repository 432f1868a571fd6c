CONSTANTS
    MaxIds = 1
    MaxJobs = 1
    OrphanCap = 1
    BufMax = 2
    TtyCap = 2
    InCap = 1
    MaxOut = 2
    Bodies = {0, 2}
    LeaderWaits = FALSE
SPECIFICATION Spec
INVARIANT
    FinalOutputTold
CHECK_DEADLOCK FALSE
