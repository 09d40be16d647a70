SPECIFICATION Spec
CONSTANTS
    Hosts = {h1, h2}
    NoHost = NoHost
    Attempts = {a1}
    NoAttempt = NoAttempt
    p1 = p1
    p2 = p2
    k1 = k1
    k2 = k2
    Plans = {p1}
    NoPlan = NoPlan
    NumCmds = 2
    Keys = {k1, k2}
    KeyOf <- KeysOneEach
    LatchedCmd <- NoneLatched
    Fenced = TRUE
    DurablePlans = TRUE
    MaxEpoch = 2
INVARIANTS
    TypeOK
    DeposedHostStops
PROPERTIES
    ImplementsLifecycle
    EvidenceIsFinal
    RecoverySparesTheLiving
CHECK_DEADLOCK FALSE
