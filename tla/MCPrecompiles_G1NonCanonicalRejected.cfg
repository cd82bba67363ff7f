CONSTANTS
    NoCall = NoCall
    NoResult = NoResult
    UsizeMax <- MCUsizeMax
    MaxPairs = 2
    Lens <- MCLens
    SizeVals <- MCSizeVals
    Rounds <- MCRounds
    BNNonCanonical <- MCBigAll
SPECIFICATION Spec
CHECK_DEADLOCK FALSE
INVARIANT G1NonCanonicalRejected
