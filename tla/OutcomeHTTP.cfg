SPECIFICATION HTTPSpec
CHECK_DEADLOCK FALSE
CONSTANTS
    o1 = o1
    Orders <- MCOrders
    Payments = {p1, p2, p3}
    OrderOf <- MCOrderOf
    UseBus = FALSE
INVARIANTS
    CapturedMoneyAccounted
    PaidByOneCapture
PROPERTIES
    VerdictIsFinal
    OutcomesSettle
