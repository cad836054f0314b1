SPECIFICATION MoneySpec
CONSTANTS
    Components = {"refunds", "evidence", "settlement", "reimbursements", "intents", "receipts"}
    Refunds = {x1, x2}
    Admins = {a1, a2}
    NoAdmin = NoAdmin
    Capture = 2
    Manual = {x1}
    MaxVersions = 2
    MaxAttempts = 2
    MaxRequested = 1
    MaxDeliveries = 1
    RefundBound = 3
    RollBack = TRUE
    Files = {e1, e2}
    Creators = {a1}
    Approvers = {a1, a2, a3}
    VendorOrders = {v1}
    Subtotal = 4
    Shipping = 2
    CommissionBps = 5000
    RefundIds = {r1}
    RefundOrder <- MCRefundOrder
    RefundAmount <- MCRefundAmount
    HoldIds = {h1}
    HoldOrder <- MCHoldOrder
    Adjustments = {2}
    ItemLimit = 10
    MaxItems = 2
    Operators = {"ann", "bob"}
    Keys = {"k1"}
    References = {"FT1"}
    StepUp = TRUE
    MaxReimbursements = 2
    MaxTransfers = 1
    MaxProofs = 2
    Intents = {i1, i2}
    OldIntents = {i2}
    MaxMishaps = 1
    IntentBound = 2
    LedgerBound = 1
    LinkRequests = {q1}
    Workers = {w1}
    NoIntent = NoIntent
    Receipts = {x1, x2}
    MaxFailures = 1
INVARIANTS
    OutcomeMatchesMoney
    DestinationFrozen
    MoneyAddsUp
    PaymentsAreProven
PROPERTIES
    CaptureIsFinal
CHECK_DEADLOCK FALSE
