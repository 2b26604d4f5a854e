SPECIFICATION LiveDeviceSpec
CONSTANTS
    None = None
    t1 = t1
    t2 = t2
    alice = alice
    bob = bob
    Tab = {t1}
    Subject = {alice, bob}
    Deployed = TRUE
    MaxId = 5
    MaxBegun = 3
    MaxSigned = 5
    MaxSwitch = 2
    MaxExpired = 2
    Withdraws = TRUE
INVARIANTS KeyKept SignsOnce RevokedIsGone
PROPERTIES RetryKept Settles
