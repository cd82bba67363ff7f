CONSTANTS
    NoCall = NoCall
    NoResult = NoResult
    UsizeMax <- MCUsizeMax
    MaxPairs = 2
    Lens <- MCLens
    SizeVals <- MCSizeVals
    Rounds <- MCRounds
    BNNonCanonical = {}
SPECIFICATION Spec
INVARIANT TypeOK
INVARIANT GasCharged
INVARIANT BLSConforms
INVARIANT CoreConforms
CHECK_DEADLOCK FALSE
