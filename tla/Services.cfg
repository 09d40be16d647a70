SPECIFICATION ServicesSpec
CONSTANTS
    hh1 = hh1
    hh2 = hh2
    i1 = i1
    i2 = i2
    Households = {hh1, hh2}
    Items = {i1, i2, i3}
    NoItem = NoItem
    MaxPerHousehold = 2
    MaxTotal = 2
    s1 = s1
    s2 = s2
    Schedules = {s1, s2}
    DayLength = 6
    TimeOfDay <- OfDay
    Weekdays <- Days
    Week = 2
    ExpiresAt <- Expiry
    Never = 99
    Transitions <- Zones
    StartTime = 7
    MaxTime = 10
    MaxCrashes = 1
    MaxFaults = 1
    Events = {ev1, ev2}
    Dispatchers = {d1, d2}
    NoDispatcher = NoDispatcher
    BatchSize = 2
    MaxTrouble = 2
    o1 = o1
    o2 = o2
    o3 = o3
    Ops = {o1, o2, o3}
    Mode <- Modes
    NoOp = NoOp
    Stop = Stop
    Capacity = 1
INVARIANTS
    ServicesTypeOK
    WorkIsTended
    OccurrencesAreExact
    DeliveryIsAccounted
    CallersAreAccounted
PROPERTIES
    EveryCallEnds
    DueIsHandled
    EventsAreDelivered
    QueuedWorkIsDone
CHECK_DEADLOCK FALSE
