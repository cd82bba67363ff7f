CONSTANTS
    NumSegments = 2
    SegStart <- MCSegStart
    SegEnd <- MCSegEnd
    HashMax = 5
    Accounts <- MCAccountsTop
    MaxSnapReads = 2
    MaxRestarts = 1
SPECIFICATION Spec
INVARIANT TaskNeverPanics
CHECK_DEADLOCK FALSE
