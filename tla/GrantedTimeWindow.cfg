CONSTANTS
    r1 = r1
    r2 = r2
    r3 = r3
    Ranks = {r1, r2, r3}
    Channels <- Pair
    Delays = {0, 3}
    TxTimes = {0}
    Bounds = {0, 1}
    Infinity = 10
    MaxTs = 5
    MaxCalls = 3
    MaxRuns = 1
SPECIFICATION FairSpec
INVARIANTS Causality NothingLost GrantedTimeRepresentable
PROPERTIES WindowMovesWhenQuiet RunEnds
