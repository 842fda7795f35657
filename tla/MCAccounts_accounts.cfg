SPECIFICATION SuiteSpec
CONSTANTS
    None = None
    p1 = p1
    p2 = p2
    p3 = p3
    MaxRecords = 4
    MaxBatch = 2
    QueueBatches = 1
    QueueBytes = 3
    MaxFaults = 1
    MaxRejects = 2
    GapsRejected = TRUE
    Proc = {p1, p2, p3}
    Waiter = {p1, p2}
    Amount <- Amounts
    Limits = {1, 2, 3}
    MaxResizes = 2
INVARIANTS
    LossesAccounted
PROPERTIES
    GapsAreReported
    PermitsAccounted
    AcquireEnds
CHECK_DEADLOCK FALSE
