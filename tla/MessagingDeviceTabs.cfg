SPECIFICATION DeviceSpec
CONSTANTS
    None = None
    t1 = t1
    t2 = t2
    alice = alice
    bob = bob
    Tab = {t1, t2}
    Subject = {alice}
    Deployed = FALSE
    MaxId = 2
    MaxBegun = 2
    MaxSigned = 2
    MaxSwitch = 0
    MaxExpired = 0
    Withdraws = FALSE
SYMMETRY TabSymmetry
INVARIANTS ReadyIsCurrent
PROPERTIES ReadyIsAuthorized
