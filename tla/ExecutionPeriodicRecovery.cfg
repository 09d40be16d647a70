SPECIFICATION Spec
CONSTANTS
    Hosts = {h1}
    NoHost = NoHost
    Attempts = {a1}
    NoAttempt = NoAttempt
    p1 = p1
    p2 = p2
    k1 = k1
    k2 = k2
    Plans = {p1}
    NoPlan = NoPlan
    NumCmds = 1
    Keys = {k1}
    KeyOf <- KeysShared
    LatchedCmd <- NoneLatched
    Fenced = FALSE
    DurablePlans = TRUE
    MaxEpoch = 2
PROPERTIES
    RecoverySparesTheLiving
CHECK_DEADLOCK FALSE
