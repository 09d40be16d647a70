SPECIFICATION FairSpec
CONSTANTS
    m1 = m1
    m2 = m2
    Plans = {m1, m2}
    NoPlan = NoPlan
    Members <- TwoMembers
    Pred <- Chain
    At <- AtLater
    Grace = 1
    Tools = {}
    Fates = {"revoked"}
    Fenced = FALSE
    MaxTime = 5
    MaxCrashes = 1
PROPERTIES
    RuntimeComesUp
CHECK_DEADLOCK FALSE
