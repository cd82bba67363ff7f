CONSTANTS
    s1 = s1
    s2 = s2
    s3 = s3
    Storages <- MCStorages
    Mismatched <- MCMismatched
    Incomplete <- MCIncomplete
    FlatCandidates <- MCFlatCandidates
    ChanCap = 2
    MaxReads = 2
    MaxParallel = 2
    MaxBatch = 3
    MaxFailures = 0
    MaxRestarts = 1
SPECIFICATION Spec
INVARIANT NoLostStorage
CHECK_DEADLOCK FALSE
