SPECIFICATION MCFairSpec
CONSTANTS
    Id = {a, b}
    Issuance = {i}
    Context = {c, d}
    LockKey = {a, b, i, c, d}
    Proc = {1, 2, 3}
    NoIssuance = NoIssuance
    NoId = NoId
    NoContext = NoContext
    Capacity = 2
    ManagerCapacity = 2
    ContextCapacity = 1
    ContextLife = 2
    TxCapacity = 1
    TxLife = 1
    SessionTtl = 2
    MobileLife = 1
    Retention = 1
    Kinds = {"desktop", "ubid-mobile-v1"}
    MaxClock = 1
    First = {"bind", "callback"}
    Second = {"issue", "callback"}
    Offered = {"logout", "status", "offer", "desktop"}
INVARIANTS OneSessionPerLogin
PROPERTIES RequestAnswered
