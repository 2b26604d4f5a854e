SPECIFICATION Spec
CONSTANTS
    PairingLife = 5
    ClaimLife = 5
    PreEnrollmentLife = 5
    EnrollmentLife = 2
    ChallengeLife = 2
    MaxRecipients = 2
    MaxLies = 2
    Horizon = 8
    LegacyLife = 1
    NativeLife = 2
INVARIANTS
    StatementExact
    StatementOpen
    VerifiersAgree
CHECK_DEADLOCK FALSE
