CONSTANTS
    Delays = {0, 2}
    IdleWait = 2
    Second = 20
    SpinTicks = 1
    HardLimit = 2
    StartWall = 3
    MaxWall = 7
    MaxUid = 6
    MaxRuns = 1
SPECIFICATION FairSpec
INVARIANTS NeverEarly NoLostWakeup
PROPERTIES NotInPast EventuallyRun
CHECK_DEADLOCK FALSE
