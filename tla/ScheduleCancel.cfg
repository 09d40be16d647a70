SPECIFICATION Spec
CONSTANTS
    m1 = m1
    m2 = m2
    Plans = {m1}
    NoPlan = NoPlan
    Members <- NoMembers
    Pred <- NoPred
    At <- AtTwo
    Grace = 1
    Tools = {"schedule", "cancel"}
    Fates = {}
    Fenced = FALSE
    MaxTime = 4
    MaxCrashes = 0
INVARIANTS
    CancelledPlanNeverActed
CHECK_DEADLOCK FALSE
