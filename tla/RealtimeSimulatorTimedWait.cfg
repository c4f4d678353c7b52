\* The second of the code: the wait for a first event and the modulus of a
\* timespec are the same number.
CONSTANTS
    Delays = {0, 3}
    IdleWait = 4
    Second = 4
    SpinTicks = 1
    HardLimit = 2
    StartWall = 2
    MaxWall = 8
    MaxUid = 4
    MaxRuns = 1
SPECIFICATION FairSpec
PROPERTIES EventuallyRun
CHECK_DEADLOCK FALSE
