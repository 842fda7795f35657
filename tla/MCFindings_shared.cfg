SPECIFICATION Spec
CONSTANTS
    None = None
    o1 = o1
    k1 = k1
    k2 = k2
    Job = {k1, k2}
    Resource = {r1}
    Rule = {u1}
    Op = {o1}
    OpOf <- OneOp
    OpsOf <- OneOpEach
    InventoryJob = {k1}
    MaxSeverity = 1
    Freshness = 1
    RecoverConfirmations = 2
    RemovalConfirmations = 2
    Configs <- Reloads
    MayTruncate = FALSE
    IncompleteCopies = FALSE
    OneOff = TRUE
    MaxTime = 2
INVARIANTS
    CountsAreEvidence
CHECK_DEADLOCK FALSE
