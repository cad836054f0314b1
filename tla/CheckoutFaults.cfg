SPECIFICATION FairSpec
CONSTANTS
    Orders = {o1}
    Keys = {k1}
    Requests = {r1}
    Workers = {w1}
    NoOrder = NoOrder
    NoKey = NoKey
    MaxFaults = 2
INVARIANTS
    StockAccounted
PROPERTIES
    CheckoutEnds
