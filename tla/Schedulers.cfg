CONSTANTS
    Delays = {0, 1, 5}
    MaxTs = 7
    MaxUid = 8
    MaxSize = 5
SPECIFICATION SchedulersSpec
INVARIANTS StructuresOrdered SchedulersAgree
PROPERTIES InOrder ImplementEventList
CHECK_DEADLOCK FALSE
