CONSTANTS
    MaxBatch <- MCMaxBatch
SPECIFICATION Spec
INVARIANT GaugesBehindL1
INVARIANT OneGatherInFlight
PROPERTY GatherRecurs
PROPERTY GaugesMonotone
