SPECIFICATION MCSpec
CONSTANTS
    Components = {"bus", "stock", "outcome", "notices", "shop", "services", "calls"}
    Events = {e1}
    Replicas = {1, 2}
    Nobody = Nobody
    MaxCopies = 2
    MaxAttempts = 2
    StreamAge = 1
    KeepAge = 2
    MaxFaults = 2
    Workers = {1, 2}
    RetryAttempts = 1
    AttemptCap = 3
    MaxRetries = 2
    NoticeFaults = 2
    ShopEvents = {v1}
    ShopWorkers = {w1, w2}
    Users = {"owner", "staff"}
    Owner = "owner"
    MaxShopAttempts = 2
    MaxShopRetries = 1
    MaxStalls = 1
    MaxChanges = 1
    Followed = {"vendor_status", "outcome_rejected", "payment_work_item", "review"}
    MaxSwitches = 1
    MaxServiceFaults = 1
    MaxCallAttempts = 2
    Kinds = {"reserve", "commit", "release", "order_of_payment", "product", "return_destination", "payout_destination", "vendor_order", "recovery", "consume_cart", "refund", "settle", "hold", "shipment", "mark_paid", "payment_failed", "shipment_event", "claim_handover", "notice", "vendor_notice", "checkout_snapshot", "vendor_action", "shipment_exception"}
    MaxCallFaults = 3
INVARIANTS
    AppliedOnce
    AckedIsSettled
    WordsAreKept
PROPERTIES
    ImplementsDelivery
    WorkEnds
CHECK_DEADLOCK FALSE
