SPECIFICATION TakeoverSpec
CONSTANTS
    Orders = {b1, b2}
    Supervisor = Supervisor
    LeaseLength = 2
    Margin = 1
    Commands = 2
    MaxReboots = 1
INVARIANTS
    LatchNeverOutlivesLease
CHECK_DEADLOCK FALSE
