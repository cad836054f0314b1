SPECIFICATION Spec
CONSTANTS
    Orders = {o1, o2}
    Items = {"i1", "i2"}
    MaxLine = 2
    Carts <- MCCarts
    MaxStock = 2
    Receipts = {"r1"}
    MaxAttempts = 1
    ExpiryEnabled = TRUE
SYMMETRY Symmetry
INVARIANTS
    ReservedMatchesHolds
    OnHandBounded
    StockExplained
PROPERTIES
    FinishedStaysFinished
    ImplementsReservation
