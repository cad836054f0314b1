SPECIFICATION Spec
CONSTANTS
    Orders = {o1, o2}
    Keys = {k1}
    Requests = {r1, r2}
    Workers = {w1}
    NoOrder = NoOrder
    NoKey = NoKey
    MaxFaults = 0
SYMMETRY Symmetry
INVARIANTS
    CompletedIsReady
    OneReadyOrderPerKey
    OneOpenCart
PROPERTIES
    DecidedStaysDecided
