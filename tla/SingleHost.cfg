SPECIFICATION ControlSpec
CONSTANTS
    Hosts = {h1}
    NoHost = NoHost
    Attempts = {a1, a2}
    NoAttempt = NoAttempt
    p1 = p1
    p2 = p2
    k1 = k1
    k2 = k2
    Plans = {p1}
    NoPlan = NoPlan
    NumCmds = 2
    Keys = {k1, k2}
    KeyOf <- KeysOneEach
    LatchedCmd <- FirstLatched
    Fenced = FALSE
    DurablePlans = TRUE
    MaxEpoch = 2
    Orders = {b1, b2}
    Supervisor = Supervisor
    LeaseLength = 2
    Margin = 1
    Commands = 2
    MaxReboots = 1
    n1 = n1
    n2 = n2
    n3 = n3
    sA = sA
    sB = sB
    lamp = lamp
    EntityOrder <- Listing
    SourceOf <- TwoSources
    DeviceOf <- OwnDevice
    NameOf <- SameName
    Writers = {n1, n2}
    Snapshots <- Discoveries
    NoEntity = NoEntity
    NoId = NoId
    NoName = NoName
    NoDigest = NoDigest
    MaxSuffix = 3
    MaxRefreshes = 2
    MaxUpsets = 1
INVARIANTS
    OneExecutorPerPlan
    VerdictIsHonest
    LatchIsKnown
    InventoryIsSound
PROPERTIES
    LeasesEnd
CHECK_DEADLOCK FALSE
