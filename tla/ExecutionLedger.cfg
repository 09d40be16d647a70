SPECIFICATION Spec
CONSTANTS
    Hosts = {h1, h2}
    NoHost = NoHost
    Attempts = {a1, a2}
    NoAttempt = NoAttempt
    p1 = p1
    p2 = p2
    k1 = k1
    k2 = k2
    Plans = {p1, p2}
    NoPlan = NoPlan
    NumCmds = 1
    Keys = {k1}
    KeyOf <- KeysShared
    LatchedCmd <- FirstLatched
    Fenced = TRUE
    DurablePlans = FALSE
    MaxEpoch = 2
SYMMETRY Symmetry
INVARIANTS
    AtMostOneWrite
    LedgerIsHonest
CHECK_DEADLOCK FALSE
