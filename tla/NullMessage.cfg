CONSTANTS
    Ranks = {0, 1, 2}
    Channels <- Pair
    NullDelay <- TuneOne
    Delays = {1}
    TxTimes = {0, 1}
    StopTimes = {5}
    MoreAfterSend = FALSE
    Infinity = 20
    MaxTs = 6
    MaxCalls = 3
SPECIFICATION FairSpec
INVARIANTS GuaranteeKept Causality OneNullEvent
PROPERTIES GuaranteeGrows AllReturn
\* A deadlock is a violation of AllReturn.
CHECK_DEADLOCK FALSE
