SPECIFICATION MCSpec
CONSTANTS
    Components = {"purchase", "cart", "fees", "policies", "adjustments", "alerts", "drift", "bulk", "shopImports", "exports", "reports"}
    Absent = Absent
    Shops = {s1, s2}
    Fees = {1, 2}
    Rates = {0, 1500}
    Quantity = 1
    VariantPricing = FALSE
    MaxAmount = 17
    Products = {p1}
    Tabs = {t1}
    Operations = {o1}
    Quantities = {1}
    MaxQuantityPerLine = 2
    MaxLinesPerCart = 1
    MaxLines = 2
    MaxCarts = 2
    Carriers = {c1, c2}
    Zones = {z1}
    Weights = {1500}
    Owners = {o1, o2}
    PolicyVersions = {1, 2}
    ShopVersions = {1}
    Askers = {"worker"}
    Keys = {k1}
    Requests = {r1}
    RequestQuantity = 2
    Returns = {t1}
    Admins = {a1, a2}
    NoOne = NoOne
    InitialQuantity = 1
    Limits = {1}
    SecondApprovalQuantity = 2
    MaxPolicies = 2
    MaxSales = 1
    MaxQuantity = 2
    Thresholds = {0, 1, 2}
    MaxRetries = 1
    MaxStalls = 1
    MaxReleases = 2
    MaxFaults = 2
    MaxRepairs = 2
    Jobs = {j1}
    Rows = {1, 2}
    Workers = {w1, w2}
    ShopRows = {r1, r2}
    ClientIds = {"c1"}
    Options = {"red"}
    MaxStock = 1
    Statements = {s1}
    Catalogues = {g1}
    MaxExportAttempts = 2
    MaxLedger = 2
    MaxEncoder = 2
    Orders = {1, 2}
    Packages = {1, 2}
    DayLength = 2
    LateAfter = 0
    PageLimit = 1
INVARIANTS
    BuyerPaysWhatWasShown
    RecordsAreTrue
CHECK_DEADLOCK FALSE
