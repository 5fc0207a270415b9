SPECIFICATION FairSpec
CONSTANTS
    c1 = c1
    c2 = c2
    Commands = {c1, c2}
    Kind <- RestartAndUpdate
    Configs = {"old", "forced"}
    Local <- ForcedIsOld
    MaxCrashes = 1
CHECK_DEADLOCK FALSE
INVARIANTS TypeOK ExitsOnce RunsOncePerProcess
PROPERTIES ImplementsQueue CommandsAcked FollowsServer
