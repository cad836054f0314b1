SPECIFICATION Spec
CHECK_DEADLOCK FALSE
CONSTANTS
    o1 = o1
    Orders <- MCOrders
    Payments = {p1, p2}
    OrderOf <- MCOrderOf
    UseBus = TRUE
INVARIANT CapturedMoneyAccounted
