SPECIFICATION SuiteSpec
CONSTANTS
    None = None
    a = a
    b = b
    east = east
    west = west
    MaxEvents = 4
    MaxBatch = 2
    QueueLimit = 2
    MaxFaults = 2
    MaxExits = 1
    Marked = TRUE
    Key = {a, b}
    Scope = {east, west}
    Configs <- Reloads
    Modes = {FALSE, TRUE}
    Samples = 2
    Capacity = 1
    MaxReloads = 2
    Empty = Empty
INVARIANTS
    NothingLost
    CleanEnd
    TasksMatchSlots
    RemovedAreCancelled
PROPERTIES
    EvidenceKept
    QueueDrains
    SignalsReached
CHECK_DEADLOCK FALSE
