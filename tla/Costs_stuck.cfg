SPECIFICATION Spec
CONSTANTS
    None = None
    Kinds = {"gcp"}
    First = 2
    Last = 3
    Backfill = 2
    Retention = 2
    Week = 2
    Revisit = 1
    Daily = 4
    Sizes = {1}
    Due = {FALSE}
    MayFail = TRUE
    MaxFaults = 0
PROPERTIES
    CurrentImported
CHECK_DEADLOCK FALSE
