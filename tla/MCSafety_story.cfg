SPECIFICATION SuiteSpec
CONSTANTS
    None = None
    o1 = o1
    k1 = k1
    k2 = k2
    Followed = {f1}
    Content = {c1, c2}
    MaxPublications = 3
    QueueBatches = 2
    MaxRestarts = 1
    Call = {q1, q2}
    MaxCalls = 2
    Tries = 3
    MaxTokens = 2
    MaxFaults = 1
    Fresh = 2
    Sustain = 3
    Thresholds <- Levels
    MaxHour = 4
    Attempts = 3
    AttemptTime = 2
    OperationTime = 6
    Cooldown = 3
    Endpoints = {"a", "b", "c"}
    Offered <- Beginning
    Follow <- Links
    Settings <- Cuts
    RuleSettings <- StoryRules
    Job = {k1}
    Resource = {r1}
    Rule = {u1}
    Op = {o1}
    OpOf <- OneOp
    OpsOf <- OneOpEach
    InventoryJob = {k1}
    MaxSeverity = 2
    Freshness = 1
    RecoverConfirmations = 2
    RemovalConfirmations = 1
    Configs <- Replacements
    MayTruncate = FALSE
    IncompleteCopies = TRUE
    OneOff = TRUE
    MaxTime = 3
INVARIANTS
    WithinLimit
    HistoryAgrees
    LoginOnlyWhenNeeded
    FaultsAreSustained
    EvidenceDecides
    NothingOmitted
    CallsAreOrderly
PROPERTIES
    StoryTold
CHECK_DEADLOCK FALSE
