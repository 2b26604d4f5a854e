SPECIFICATION MCSpec
CONSTANTS
    Id = {a, b}
    Issuance = {i, j}
    Proc = {p, q}
    NoIssuance = NoIssuance
    NoId = NoId
    Capacity = 1
    MaxCapacity = 2
    SessionTtl = 2
    MobileLife = 1
    Retention = 2
    Kinds = {"desktop", "ubid-mobile-v1", "ubid-mobile-v2"}
    MaxClock = 2
SYMMETRY Symmetry
INVARIANTS DenialOutlivesCredential CancelledIsDenied
PROPERTIES NoResurrection NonRenewable ImplementsPresentation
