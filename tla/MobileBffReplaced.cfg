SPECIFICATION MCSpec
CONSTANTS
    Id = {a}
    Issuance = {i}
    Context = {c, d}
    LockKey = {a, i, c, d}
    Proc = {1, 2, 3, 4}
    NoIssuance = NoIssuance
    NoId = NoId
    NoContext = NoContext
    Capacity = 1
    ManagerCapacity = 2
    ContextCapacity = 1
    ContextLife = 2
    TxCapacity = 1
    TxLife = 1
    SessionTtl = 2
    MobileLife = 1
    Retention = 1
    Kinds = {"desktop", "ubid-mobile-v1"}
    MaxClock = 1
    First = {"bind", "issue", "logout"}
    Second = {"bind", "issue", "logout"}
    Offered = {"bind", "issue", "logout"}
SYMMETRY Symmetry
INVARIANTS OrphanKept
