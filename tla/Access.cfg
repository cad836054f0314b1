SPECIFICATION MCSpec
CONSTANTS
    Components = {"staff", "grants", "accounts", "requests", "admins", "audit"}
    Absent = Absent
    Owner = "owner"
    Staff = {"s1", "s2"}
    Joined = {"s1"}
    Permissions = {"staff.manage", "orders.read", "shop.settings.write"}
    OwnerOnly = {"shop.settings.write"}
    Invitations = {n1}
    MaxJobs = 1
    ShopPermissions = {"read", "fulfill", "payout"}
    ShopOwnerOnly = {"payout"}
    ShopOwner = o
    ShopStaff = s
    Addresses = {"a", "b"}
    MaxTokens = 2
    MaxLinks = 2
    Lifetime = 1
    MaxTime = 3
    MaxOutages = 1
    Admins = {"x", "y"}
    Approvers = {"x"}
    Requests = {1, 2}
    Bundles = {"access.manage", "finance.approve"}
    AccessManage = "access.manage"
    FinanceApprove = "finance.approve"
    Operations = {"op"}
    RecoveryCodes = {"code"}
    MaxStep = 2
    Skew = 1
    MaxProofs = 2
    Sources = {1, 2}
    Times = {1, 2}
    Ids = {1}
    Limits = {1, 2}
    MaxPages = 5
    InvitationAttempts = 2
    StaffChanges = 1
    MembershipVersions = 3
    GrantFaults = 1
    MaxCommits = 2
    LinkAttempts = 1
    CredentialChanges = 1
    AccountFaults = 1
    GrantVersions = 2
INVARIANTS
    AccessIsProven
PROPERTY
    GrantsComeFromHolders
CHECK_DEADLOCK FALSE
