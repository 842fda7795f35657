SPECIFICATION SuiteSpec
CONSTANTS
    None = None
    c1 = c1
    c2 = c2
    c3 = c3
    s1 = s1
    s2 = s2
    Caller = {c1, c2, c3}
    Scope = {s1, s2}
    ScopeOf <- Homes
    Helper = {c3}
    Stuck = {s1}
    Attempts = 2
    Limits <- Ceilings
    MaxReloads = 2
    Check = {c1, c2}
    Rev = {r1, r2}
    Expired = "unauthenticated"
    MaxRenewals = 1
    MaxRotations = 1
    Reader = {q1, q2}
    MaxGen = 2
    MaxMarks = 1
    MaxEntries = 1
    Kinds = {"gcp", "azure", "aws"}
    First = 2
    Last = 3
    Backfill = 2
    Retention = 2
    Week = 2
    Revisit = 1
    Daily = 2
    Sizes = {1, 2}
    Due = {FALSE}
    MayFail = FALSE
    MaxFaults = 1
INVARIANTS
    NeverPartial
    SpendBounded
    ResponseUnmixed
    SharedIsSound
    ReadersGoForward
PROPERTIES
    CurrentImported
    ScopeCeiling
    OthersProceed
CHECK_DEADLOCK FALSE
