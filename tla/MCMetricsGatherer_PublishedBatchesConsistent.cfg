CONSTANTS
    MaxBatch <- MCMaxBatch
SPECIFICATION Spec
INVARIANT PublishedBatchesConsistent
