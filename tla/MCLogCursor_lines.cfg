SPECIFICATION Spec
CONSTANTS
    None = None
    errors = errors
    runtime = runtime
    r1 = r1
    r2 = r2
    r3 = r3
    Window = {errors, runtime}
    Span <- Spans
    Overlap = 1
    Delay = 1
    Line = {1}
    Revision = {r1, r2, r3}
    JobOf <- Jobs
    MaxTime = 3
    MaxChanges = 1
    Capacity = 2
    Returns = FALSE
SYMMETRY Alike
INVARIANTS
    CountedExactlyOnce
    OutageReported
CHECK_DEADLOCK FALSE
