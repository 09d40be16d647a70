SPECIFICATION FairSpec
CONSTANTS
    Hosts = {h1, h2}
    NoHost = NoHost
    Attempts = {a1}
    NoAttempt = NoAttempt
    p1 = p1
    p2 = p2
    k1 = k1
    k2 = k2
    Plans = {p1}
    NoPlan = NoPlan
    NumCmds = 1
    Keys = {k1}
    KeyOf <- KeysOneEach
    LatchedCmd <- NoneLatched
    Fenced = TRUE
    DurablePlans = TRUE
    MaxEpoch = 3
PROPERTIES
    ExecutionSettles
CHECK_DEADLOCK FALSE
