CONSTANTS
    r1 = r1
    r2 = r2
    r3 = r3
    Ranks = {r1, r2}
    Channels <- Pair
    Delays = {1}
    TxTimes = {0}
    Bounds = {}
    Infinity = 10
    MaxTs = 4
    MaxCalls = 4
    MaxRuns = 2
SPECIFICATION Spec
PROPERTIES ClockNeverGoesBack
