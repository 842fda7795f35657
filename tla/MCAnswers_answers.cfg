SPECIFICATION SuiteSpec
CONSTANTS
    None = None
    o1 = o1
    k1 = k1
    k2 = k2
    Ident = {1, 2, 3}
    WalkTime = 1
    MaxChanges = 1
    Retained = 1
    EventCap = 1
    Cap = 1
    Pass = 2
    Passes = 1
    MaxBatch = 3
    TableTime = 2
    Transport = {1, 2}
    Kid = {1, 2}
    Margin = 1
    Valid = 2
    Pause = 1
    FetchTime = 1
    KeyTime = 5
    MaxRotations = 2
    Limits <- FewRows
    Job = {k1}
    Resource = {r1, r2}
    Rule = {u1}
    Op = {o1}
    OpOf <- OneOp
    OpsOf <- OneOpEach
    InventoryJob = {k1}
    MaxSeverity = 1
    Freshness = 1
    RecoverConfirmations = 2
    RemovalConfirmations = 2
    Configs <- TightConfig
    MayTruncate = TRUE
    IncompleteCopies = TRUE
    OneOff = TRUE
    MaxTime = 2
SYMMETRY Symmetry
INVARIANTS
    TypeOK
    RecoveryConfirmed
    RemovalConfirmed
    HealthySupported
    WalksHold
    RetentionHolds
    CredentialsHold
    
    OriginsAreEvidenced
    
CHECK_DEADLOCK FALSE
