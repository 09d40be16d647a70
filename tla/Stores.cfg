SPECIFICATION StoresSpec
CONSTANTS
    g1 = g1
    g2 = g2
    g3 = g3
    x1 = x1
    d1 = d1
    d2 = d2
    s1 = s1
    u1 = u1
    q1 = q1
    q2 = q2
    v1 = v1
    v2 = v2
    Grants = {g1, g2, g3}
    NoGrant = NoGrant
    NonceOf <- SharedNonce
    PlanOf <- OnePlan
    RequestOf <- SharedRequest
    NoRequest = NoRequest
    Callers = {x1, d1, d2, s1, u1, q1, q2}
    Teams = {{g1, g2, g3, x1, d1}, {g1, s1, d1}, {g1, s1, d2}, {g1, g2, g3, x1, u1}, {g1, g3, q1, q2}}
    KindOf <- CallKinds
    RecordOf <- SharedRecord
    NoRecord = NoRecord
    Revokers = {v1, v2}
    Resident = {v1}
    TTL = 1
    MaxTime = 1
    e1 = e1
    e2 = e2
    NoEvent = NoEvent
    RuleIds = {1, 2}
    EventAt <- EventTimes
    TimeRules = {2}
    Cooldown = 1
    Lifetime = 1
    EventTTL = 1
    MaxEdits = 1
    MaxDeliveries = 3
    MaxMinutes = 1
    Points = {y1, y2}
    NoReading = NoReading
    QueueMax = 1
    StaleAfter = 0
    Budgets <- FourBudgets
    t1 = t1
    t2 = t2
    c1 = c1
    Transfers = {t1, t2}
    Connections = {c1, c2}
    NewOnes = {t1}
    Serves <- OneConnection
    Listers = {l1}
    NoTransfer = NoTransfer
    NoProfile = NoProfile
    MaxFaults = 2
    Objects = {o1, o2, o3}
    NoObject = NoObject
    MaxTroubles = 2
    Limits <- FourLimits
    VisitTTL = 2
    ReviewTTL = 2
    ConsentTTL = 2
INVARIANTS
    StoresTypeOK
    RuleActsSparingly
    SecretsAreAccounted
    ConnectionsAreSound
PROPERTIES
    LedgerKeepsItsWord
    ValuesAreHonest
    ConsentIsInformed
CHECK_DEADLOCK FALSE
