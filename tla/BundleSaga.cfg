SPECIFICATION BundleSpec
CONSTANTS
    m1 = m1
    m2 = m2
    Plans = {m1, m2}
    NoPlan = NoPlan
    Members <- TwoMembers
    Pred <- Chain
    At <- AtLater
    Grace = 1
    Tools = {}
    Fates = {"expired", "revoked"}
    Fenced = FALSE
    MaxTime = 5
    MaxCrashes = 1
INVARIANTS
    TypeOK
    MembersAreConfirmed
    AuthorityPrecedesEffect
    RowIsHonest
PROPERTIES
    RowSettles
    BundleSettles
CHECK_DEADLOCK FALSE
