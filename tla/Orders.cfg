SPECIFICATION MCSpec
CONSTANTS
    Components = {"orders", "delivery", "shipment", "returns"}
    VendorOrders = {v1, v2}
    Total = 2
    MaxRefunds = 2
    AttemptLimit = 1
    MaxAttempts = 2
    MaxCancellations = 1
    MaxDisputes = 1
    RedeliveryLimit = 1
    Files = {f1}
    MaxVersion = 6
    MaxRequests = 2
    RecordAttemptLimit = 1
    ReturnIds = {1}
    MaxDestinations = 1
    OrderBound = 3
    ParcelBound = 3
INVARIANTS
    RefundsWithinTotal
    PackagesDecideOrder
    GoodsAndMoneyAgree
    ParcelsCountOnce
CHECK_DEADLOCK FALSE
SYMMETRY MCSymmetry
