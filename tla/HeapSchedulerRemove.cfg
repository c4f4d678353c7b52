CONSTANTS
    Delays = {0, 1, 2}
    MaxTs = 3
    MaxUid = 10
    MaxSize = 7
SPECIFICATION Spec
PROPERTIES RemovesEarliest
CHECK_DEADLOCK FALSE
