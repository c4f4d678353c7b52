CONSTANTS
    Ranks = {0, 1}
    Channels <- Pair
    NullDelay <- TuneOne
    Delays = {1}
    TxTimes = {0, 2}
    StopTimes = {4}
    MoreAfterSend = TRUE
    Infinity = 20
    MaxTs = 6
    MaxCalls = 3
SPECIFICATION Spec
INVARIANTS Causality
