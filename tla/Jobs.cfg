CONSTANTS
    MaxIds = 2
    MaxJobs = 1
    OrphanCap = 1
    BufMax = 1
    TtyCap = 2
    InCap = 1
    MaxOut = 2
    Bodies = {0, 2}
    LeaderWaits = TRUE
SPECIFICATION Spec
INVARIANTS
    Custody
    BytesTold
CHECK_DEADLOCK FALSE
