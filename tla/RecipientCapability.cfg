SPECIFICATION MCSpec
CONSTANTS
    Id = {a, b}
    Issuance = {}
    Proc = {p, q}
    Subject = {u}
    Alias = {x}
    Cap = {k, l}
    NoIssuance = NoIssuance
    NoSubject = NoSubject
    NoAlias = NoAlias
    NoCap = NoCap
    NoId = NoId
    Capacity = 2
    SessionTtl = 2
    MobileLife = 1
    Retention = 1
    Kinds = {"desktop"}
    CapTtl = 1
    CapCapacity = 2
    PerSession = 1
    PerSubject = 1
    MaxClock = 1
SYMMETRY Symmetry
INVARIANTS QuotasRespected BoundToSession FreshEvidence
PROPERTIES NeverBack
