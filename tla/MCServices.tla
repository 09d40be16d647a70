------------------------------ MODULE MCServices ------------------------------
(* The background services that must make progress, checked side by side: the  *)
(* household queues, recurring schedules, the audit outbox and the storage     *)
(* thread.  They share no state; `focus` names the one whose behaviours are    *)
(* explored while the others rest.                                             *)
EXTENDS HouseholdQueue, RecurringSchedules, AuditOutbox, StorageBoundary

CONSTANTS hh1, hh2, i1, i2, s1, s2, o1, o2, o3

VARIABLE focus

\* A daily schedule and one that expires, over a day on which the clocks go
\* forward or back.
OfDay  == [s \in Schedules |-> IF s = s1 THEN 2 ELSE 3]
Days   == [s \in Schedules |-> IF s = s1 THEN {0, 1} ELSE {1}]
Expiry == [s \in Schedules |-> IF s = s1 THEN Never ELSE 10]
Forward == [at |-> 8, shift |-> 2]
Back    == [at |-> 9, shift |-> -2]
Zones   == {Forward, Back}

\* One storage call of each kind.
Modes == [o \in Ops |-> IF o = o1 THEN "plain" ELSE IF o = o2 THEN "drain" ELSE "nowait"]

\* Items and households are interchangeable: all items in one household, or
\* all but one.
Homes == {[i \in Items |-> hh1], [i \in Items |-> IF i = i1 THEN hh1 ELSE hh2]}

QueueRests     == UNCHANGED queueVars
RecurringRests == UNCHANGED recurringVars
OutboxRests    == UNCHANGED outboxVars
StorageRests   == UNCHANGED storageVars

ServicesInit ==
    /\ focus \in {"queue", "recurring", "outbox", "storage"}
    /\ QueueInit /\ home \in Homes /\ (focus # "queue" => home[i1] = home[i2])
    /\ RecurringInit /\ (focus # "recurring" => zone = Forward)
    /\ OutboxInit /\ StorageInit

ServicesNext ==
    /\ \/ focus = "queue" /\ QueueNext /\ RecurringRests /\ OutboxRests /\ StorageRests
       \/ focus = "recurring" /\ RecurringNext /\ QueueRests /\ OutboxRests /\ StorageRests
       \/ focus = "outbox" /\ OutboxNext /\ QueueRests /\ RecurringRests /\ StorageRests
       \/ focus = "storage" /\ StorageNext /\ QueueRests /\ RecurringRests /\ OutboxRests
    /\ UNCHANGED focus

servicesVars == <<focus, queueVars, recurringVars, outboxVars, storageVars>>

\* Each service's own fairness (QueueFairness, RecurringFairness, and so on)
\* while it is the one that moves.
InQueue(A)     == focus = "queue" /\ A
InRecurring(A) == focus = "recurring" /\ A
InOutbox(A)    == focus = "outbox" /\ A
InStorage(A)   == focus = "storage" /\ A

ServicesFairness ==
    /\ \A h \in Households : WF_queueVars(InQueue(Worker(h)))
    /\ \A i \in Items : WF_queueVars(InQueue(Wakeup(i)))
    /\ WF_queueVars(InQueue(CloseEnd))
    /\ WF_recurringVars(InRecurring(SweepStep)) /\ WF_recurringVars(InRecurring(RestartHost))
    /\ WF_recurringVars(InRecurring(Tick))
    /\ \A d \in Dispatchers : WF_outboxVars(InOutbox(DispatchStep(d)))
    /\ \A n \in 1..Cardinality(Events) :
          WF_outboxVars(InOutbox(n \in DOMAIN outbox /\ LeaseEnds(n)))
    /\ WF_storageVars(InStorage(WorkerStep)) /\ WF_storageVars(InStorage(CloserStep))
    /\ \A o \in Ops : WF_storageVars(InStorage(CallerStep(o)))

ServicesSpec == ServicesInit /\ [][ServicesNext]_servicesVars /\ ServicesFairness

\* The type invariants of the services.
ServicesTypeOK ==
    QueueTypeOK /\ RecurringTypeOK /\ OutboxTypeOK /\ StorageTypeOK
=============================================================================
