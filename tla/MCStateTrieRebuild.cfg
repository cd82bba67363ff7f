CONSTANTS
    NumSegments = 2
    SegStart <- MCSegStart
    SegEnd <- MCSegEnd
    HashMax = 5
    Accounts <- MCAccounts
    MaxSnapReads = 2
    MaxRestarts = 1
SPECIFICATION Spec
INVARIANT TypeOK
INVARIANT TrieMatchesProgress
PROPERTY SyncDoneLeadsToRebuilt
PROPERTY ProgressNeverRegresses
PROPERTY RefinesAbstract
CHECK_DEADLOCK FALSE
