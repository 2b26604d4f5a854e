SPECIFICATION MCSpec
CONSTANTS
    Id = {a, b}
    Issuance = {i}
    LockKey = {a, b, i}
    Proc = {p, q}
    NoIssuance = NoIssuance
    NoId = NoId
    Capacity = 2
    ManagerCapacity = 1
    SessionTtl = 3
    MobileLife = 1
    Retention = 1
    Kinds = {"desktop", "ubid-mobile-v1"}
    MaxClock = 2
    MaxDesktop = 1
SYMMETRY Symmetry
INVARIANTS OnePresentation RetryKept
PROPERTIES ImplementsPresentation
