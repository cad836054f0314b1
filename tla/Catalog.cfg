SPECIFICATION MCSpec
CONSTANTS
    Components = {"catalog", "templates", "cache", "pictures", "sales", "review", "selling", "records", "payouts", "returns"}
    Absent = Absent
    Prices = {1, 2}
    Variants = {v1}
    Pictures = {p1}
    VariantPricing = TRUE
    MaxInFlight = 2
    Categories = {"top", "sub"}
    Root = "root"
    MaxCategoryLevel = 2
    Texts = {}
    Numbers = {"pkg_weight"}
    Booleans = {}
    Selects = {"size"}
    MultiSelects = {"tag"}
    Packaging = {"pkg_weight"}
    Axes = {"size"}
    OptionValues = {1}
    MaxRules = 2
    Facts = {"stock", "sold", "name"}
    Values = {0, 1}
    Readers = {r1}
    Reconciler = worker
    NoValue = NoValue
    FreshFor = 2
    RefreshAfter = 1
    MaxLag = 2
    Objects = {o1, o2, o3}
    MaxMedia = 1
    MaxDeletes = 1
    ShopSet = {s1, s2}
    Items = {i1}
    Reasons = {r1}
    Photos = {o1, o2}
    MaxImages = 1
    ShowUnverified = FALSE
    Consumers = {order}
    OrderService = order
    Uploads = {"u1", "u2"}
    Notices = {"n1"}
    Workers = {w1, w2}
    Owner = "owner"
    RequireProof = TRUE
    MaxVersions = 2
    MaxProofs = 2
    MaxReads = 1
    Addresses = {"a", "b"}
    MaxText = 2
INVARIANTS
    SoldAsShown
    ShopRecordsHold
PROPERTIES
    DecisionsStand
CHECK_DEADLOCK FALSE
