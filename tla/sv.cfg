SPECIFICATION FairSpec
CONSTANTS
    Role <- PipelineBetween
    MaxFaults = 2
    RaceInWindow = FALSE
CHECK_DEADLOCK FALSE
INVARIANTS TypeOK NoOrphans
PROPERTY FollowsManager
