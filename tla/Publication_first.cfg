SPECIFICATION Spec
CONSTANTS
    None = None
    MaxEvents = 4
    MaxBatch = 2
    QueueLimit = 2
    MaxFaults = 2
    MaxExits = 1
    Marked = FALSE
INVARIANTS
    ResumesFromPublished
CHECK_DEADLOCK FALSE
