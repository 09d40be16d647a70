SPECIFICATION HostsSpec
CONSTANTS
    m1 = m1
    m2 = m2
    Plans = {m1}
    NoPlan = NoPlan
    Members <- OneMember
    Pred <- NoPred
    At <- AtOne
    Grace = 1
    Tools = {"schedule", "execute", "cancel"}
    Fates = {}
    Fenced = TRUE
    MaxTime = 3
    MaxCrashes = 1
    Nodes = {n1, n2}
    Endpoints = 2
    MaxAttempts = 2
    MaxLeases = 2
    Procs = {r1, r2}
    MaxRaises = 1
    f1 = f1
    f2 = f2
    Resumes = {w1, w2}
    Proposals <- SomeProposals
    MaxShifts = 1
    MaxLosses = 1
    MaxRuns = 2
    Backups = {b1}
    NoBackup = NoBackup
    MaxStamp = 2
    MaxRestores = 2
    MaxBlows = 2
INVARIANTS
    DispatchedOnce
    RuntimeIsTidy
    FilesAreSafe
    WorkflowIsFaithful
PROPERTIES
    ImplementsLeaseService
CHECK_DEADLOCK FALSE
