CONSTANTS
    UidMod = 7
    Delays = {0, 1}
    MaxTs = 3
    MaxEvents = 3
SPECIFICATION FairSpec
INVARIANTS TypeOK ExpiredIffGone UnscheduledCount NoEventLost CollectedInTime
PROPERTIES UsesEventList Fifo EventuallyRun
CHECK_DEADLOCK FALSE
