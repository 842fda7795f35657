SPECIFICATION Spec
CONSTANTS
    None = None
    MaxRecords = 3
    MaxBatch = 2
    QueueBatches = 1
    QueueBytes = 2
    MaxFaults = 0
    MaxRejects = 1
    GapsRejected = FALSE
INVARIANTS
    FlushedGaps
CHECK_DEADLOCK FALSE
