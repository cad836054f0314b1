SPECIFICATION MCSpec
CONSTANTS
    Components = {"cases", "holds", "deadlines", "evidence"}
    VendorOrders = {v1}
    Total = 2
    MaxRefunds = 2
    CaseIds = {1}
    IntakeIds = {1}
    MaxOpenIntakes = 1
    MishapBound = 1
    CaseBound = 2
    Sources = {s1}
    Stages = {"acknowledgement", "vendor_response"}
    Duration <- DurationDef
    OverallLimit = 3
    Escalations = 1
    Step = 1
    Admins = {a1}
    OnCall = {a1}
    Escalation = {a1}
    NoOne = NoOne
    Workers = {w1}
    MaxAttempts = 1
    MaxTime = 3
    MaxDeadlines = 3
    MaxReplays = 1
    MaxCrashes = 1
    Owners = {"buyer"}
    Files = {f1, f2}
    Cleaners = {c1, c2}
    MaxAttachments = 2
    Grace = 1
    Retention = 1
    ReceiptRetention = 1
    MaxFileTime = 2
INVARIANTS
    CasesAreKept
    OpenSourceKeepsHold
PROPERTIES
    CasesEnd
CHECK_DEADLOCK FALSE
