------------------------- MODULE RecurringSchedules -------------------------
(***************************************************************************)
(* Standing schedules: the recurrence rule (application/recurrence.py), the *)
(* sweep that fires its occurrences (run_due_recurring of                  *)
(* application/scheduler.py) and the rows it works on (the                  *)
(* RecurringScheduleRepository of persistence/repositories.py).             *)
(*                                                                         *)
(* One scheduler owns the store.  Its sweep yields at every await, so the   *)
(* tools that create and cancel a schedule, the clock, and a crash come     *)
(* between any two of its steps.  Time is counted in slots; a local day has *)
(* DayLength of them and the zone may change its offset once.               *)
(***************************************************************************)
EXTENDS Integers, Sequences, FiniteSets, FiniteSetsExt

CONSTANTS
    Schedules,      \* schedule_id: a rule and a command template
    DayLength,      \* slots of a local day
    TimeOfDay,      \* rule.time_of_day of each schedule
    Weekdays,       \* rule.days_of_week, as day numbers modulo Week
    Week,
    ExpiresAt,      \* rule.expires_at, or Never
    Never,
    Transitions,    \* the offset changes to consider: [at, shift]
    StartTime,      \* the clock when the process first starts
    MaxTime,        \* bound of the clock
    MaxCrashes,     \* bound on crashes
    MaxFaults       \* bound on storage and adapter errors

MaxDaysSearched == 8
Horizon == MaxTime + (MaxDaysSearched + 2) * DayLength

ASSUME RecurringAssumption ==
    /\ DayLength \in Nat \ {0} /\ Week \in 1 .. (MaxDaysSearched - 1) /\ MaxTime \in Nat
    /\ IsFiniteSet(Schedules)
    /\ TimeOfDay \in [Schedules -> 0 .. DayLength - 1]
    /\ Weekdays \in [Schedules -> (SUBSET (0 .. Week - 1)) \ {{}}]
    /\ ExpiresAt \in [Schedules -> 0 .. MaxTime \cup {Never}]
    /\ Never \in Int /\ Never > Horizon
    /\ StartTime \in 0 .. MaxTime
    /\ MaxCrashes \in Nat /\ MaxFaults \in Nat

\* Local time is counted from zero too, and a time of the gap stays on its day when
\* clocks that go forward move it (no day is skipped, as in Samoa in 2011).  Both offsets
\* are within a day of UTC (tzinfo.utcoffset).
ASSUME ZoneAssumption ==
    \A z \in Transitions :
        /\ z.at \in Nat /\ z.shift \in Int /\ z.at + z.shift \in Nat
        /\ z.shift > -2 * DayLength
        /\ z.shift > 0 => z.at \div DayLength = (z.at + z.shift + z.shift - 1) \div DayLength

VARIABLES
    zone,           \* the offset change of the household's zone
    clock,
    row,            \* recurring_schedules: status and next_execute_at
    evidence,       \* plans: what is stored of the plan of each occurrence
    fired,           \* physical dispatches of each occurrence: their instants
    sweep,          \* the running sweep
    hostUp, crashes, faults

recurringVars == <<zone, clock, row, evidence, fired, sweep, hostUp, crashes, faults>>

Resting == [pc |-> "rest", at |-> 0, todo |-> << >>]

RecurringInit ==
    /\ zone \in Transitions
    /\ clock = StartTime
    /\ row = [s \in Schedules |-> [status |-> "none", next |-> 0]]
    /\ evidence = [s \in Schedules |-> [o \in 0 .. MaxTime |-> "none"]]
    /\ fired = [s \in Schedules |-> [o \in 0 .. MaxTime |-> << >>]]
    /\ sweep = Resting
    /\ hostUp = TRUE /\ crashes = 0 /\ faults = 0

-----------------------------------------------------------------------------
(* recurrence.py.  A local instant is a slot number of the local calendar.  *)

LocalTime(t) == IF t < zone.at THEN t ELSE t + zone.shift
Date(l)  == l \div DayLength

\* PEP 495 with fold=0: an ambiguous slot is its first pass; a slot of the gap
\* keeps the offset from before the change.
Utc(l) == IF l < zone.at + (IF zone.shift > 0 THEN zone.shift ELSE 0)
          THEN l ELSE l - zone.shift

\* datetime.combine, then the round trip that moves a nonexistent time past
\* the gap.
Candidate(s, d) == LocalTime(Utc(d * DayLength + TimeOfDay[s]))
OnWeekday(s, d) == d % Week \in Weekdays[s]

\* Two datetimes of one zone are compared by their local reading alone.
After(candidate, after) == candidate > LocalTime(after)

NextOccurrence(s, after) ==
    LET today == Date(LocalTime(after))
        hits  == {d \in today .. today + MaxDaysSearched - 1 :
                    OnWeekday(s, d) /\ After(Candidate(s, d), after)}
    IN  Utc(Candidate(s, Min(hits)))

-----------------------------------------------------------------------------
(* The repository.                                                          *)

Active(s)  == row[s].status = "active"
Cancel(s)  == row' = IF Active(s) THEN [row EXCEPT ![s] = [row[s] EXCEPT !.status = "cancelled"]]
              ELSE row
Advance(s) == row' = IF Active(s) THEN [row EXCEPT ![s] = [row[s] EXCEPT !.next = NextOccurrence(s, sweep.at)]]
              ELSE row

\* list_active: the active rows ordered by next_execute_at, equal ones in any order.
ListsActive ==
    LET found == {[id |-> s, due |-> row[s].next] : s \in {x \in Schedules : Active(x)}} IN
    {l \in [1 .. Cardinality(found) -> found] :
        \A i, j \in DOMAIN l : i < j => l[i] # l[j] /\ l[i].due <= l[j].due}

-----------------------------------------------------------------------------
(* The tools.                                                               *)

\* schedule_recurring: an active row is left as it is, a cancelled one revived.
ScheduleRecurring(s) ==
    /\ hostUp /\ ~Active(s)
    /\ NextOccurrence(s, clock) <= ExpiresAt[s]
    /\ row' = [row EXCEPT ![s] = [status |-> "active", next |-> NextOccurrence(s, clock)]]
    /\ UNCHANGED <<zone, clock, evidence, fired, sweep, hostUp, crashes, faults>>

CancelRecurring(s) ==
    /\ hostUp /\ Active(s)
    /\ Cancel(s)
    /\ UNCHANGED <<zone, clock, evidence, fired, sweep, hostUp, crashes, faults>>

-----------------------------------------------------------------------------
(* The sweep.                                                               *)

Entry == Head(sweep.todo)
VisitAt(pc) == sweep' = [sweep EXCEPT !.pc = pc]
NextEntry == sweep' = IF Len(sweep.todo) = 1 THEN Resting
                      ELSE [sweep EXCEPT !.pc = "visit", !.todo = Tail(sweep.todo)]

BeginSweep ==
    /\ hostUp /\ sweep.pc = "rest"
    /\ \E l \in ListsActive :
         sweep' = IF l = << >> THEN Resting ELSE [pc |-> "visit", at |-> clock, todo |-> l]
    /\ UNCHANGED <<zone, clock, row, evidence, fired, hostUp, crashes, faults>>

\* The stored authority carries the rule's own expiry and is read against the
\* clock; the rule's expiry is read against the sweep.
Expired(e) == \/ clock >= ExpiresAt[e.id]
              \/ e.due > ExpiresAt[e.id]
              \/ sweep.at >= ExpiresAt[e.id]
DueNow(e)  == e.due <= sweep.at

Visit ==
    /\ hostUp /\ sweep.pc = "visit"
    /\ \/ Expired(Entry) /\ Cancel(Entry.id) /\ NextEntry
       \/ ~Expired(Entry) /\ ~DueNow(Entry) /\ NextEntry /\ UNCHANGED row
       \/ ~Expired(Entry) /\ DueNow(Entry) /\ VisitAt("reconcile") /\ UNCHANGED row
    /\ UNCHANGED <<zone, clock, evidence, fired, hostUp, crashes, faults>>

StoredPlan(e) == evidence[e.id][e.due]
Store(e, status) == evidence' = [evidence EXCEPT ![e.id] = [evidence[e.id] EXCEPT ![e.due] = status]]

\* Mutant: a plan found in flight is taken for one that never ran.
KnownSettled(e) == StoredPlan(e) \in {"unknown", "settled"}

\* _reconcile_inflight_plan, then _terminal_plan_evidence: a stored plan is
\* never executed again.
Known(e) == StoredPlan(e) \in {"executing", "unknown", "settled"}

Reconcile ==
    /\ hostUp /\ sweep.pc = "reconcile"
    /\ \/ /\ Known(Entry)
          /\ Store(Entry, IF StoredPlan(Entry) = "executing" THEN "unknown" ELSE StoredPlan(Entry))
          /\ VisitAt("advance")
       \/ ~Known(Entry) /\ VisitAt("validate") /\ UNCHANGED evidence
    /\ UNCHANGED <<zone, clock, row, fired, hostUp, crashes, faults>>

\* validate: READY goes to the executor, anything else skips the occurrence.
\* The executor may also report failure before it claims the plan.
Validate ==
    /\ hostUp /\ sweep.pc = "validate"
    /\ VisitAt("claim") \/ VisitAt("advance")
    /\ UNCHANGED <<zone, clock, row, evidence, fired, hostUp, crashes, faults>>

ClaimExecution ==
    /\ hostUp /\ sweep.pc = "claim"
    /\ Store(Entry, "executing") /\ VisitAt("send")
    /\ UNCHANGED <<zone, clock, row, fired, hostUp, crashes, faults>>

DispatchOccurrence(e) ==
    fired' = [fired EXCEPT ![e.id] = [fired[e.id] EXCEPT ![e.due] = Append(fired[e.id][e.due], clock)]]
SendOccurrence ==
    /\ hostUp /\ sweep.pc = "send"
    /\ DispatchOccurrence(Entry) /\ VisitAt("settle")
    /\ UNCHANGED <<zone, clock, row, evidence, hostUp, crashes, faults>>

SettleOccurrence ==
    /\ hostUp /\ sweep.pc = "settle"
    /\ Store(Entry, "settled") /\ VisitAt("advance")
    /\ UNCHANGED <<zone, clock, row, fired, hostUp, crashes, faults>>

\* Mutant: the row is left at the occurrence that was handled.
AdvanceNothing ==
    /\ hostUp /\ sweep.pc = "advance"
    /\ NextEntry
    /\ UNCHANGED <<zone, clock, row, evidence, fired, hostUp, crashes, faults>>

AdvanceRow ==
    /\ hostUp /\ sweep.pc = "advance"
    /\ Advance(Entry.id) /\ NextEntry
    /\ UNCHANGED <<zone, clock, evidence, fired, hostUp, crashes, faults>>

\* An exception while one entry is handled: the sweep goes on with the next.
\* A plan that was claimed is marked UNKNOWN, unless that write fails too
\* (_mark_unknown_after_exception swallows the error); an adapter that raised
\* may have acted.
EntryFails ==
    /\ hostUp /\ faults < MaxFaults
    /\ sweep.pc \in {"reconcile", "claim", "send", "settle", "advance"}
    /\ \/ sweep.pc \in {"send", "settle"} /\ Store(Entry, "unknown")
       \/ UNCHANGED evidence
    /\ \/ sweep.pc = "send" /\ DispatchOccurrence(Entry)
       \/ UNCHANGED fired
    /\ NextEntry
    /\ faults' = faults + 1
    /\ UNCHANGED <<zone, clock, row, hostUp, crashes>>

-----------------------------------------------------------------------------
(* The process and the clock.                                               *)

KillHost ==
    /\ hostUp /\ crashes < MaxCrashes
    /\ hostUp' = FALSE /\ crashes' = crashes + 1
    /\ sweep' = Resting
    /\ UNCHANGED <<zone, clock, row, evidence, fired, faults>>

\* Startup recovery turns every EXECUTING plan into UNKNOWN.
RestartHost ==
    /\ ~hostUp
    /\ hostUp' = TRUE
    /\ evidence' = [s \in Schedules |-> [o \in 0 .. MaxTime |->
                      IF evidence[s][o] = "executing" THEN "unknown" ELSE evidence[s][o]]]
    /\ UNCHANGED <<zone, clock, row, fired, sweep, crashes, faults>>

Tick ==
    /\ clock < MaxTime
    /\ clock' = clock + 1
    /\ UNCHANGED <<zone, row, evidence, fired, sweep, hostUp, crashes, faults>>

SweepStep == \/ BeginSweep \/ Visit \/ Reconcile \/ Validate \/ ClaimExecution
             \/ SendOccurrence \/ SettleOccurrence \/ AdvanceRow

RecurringNext ==
    \/ \E s \in Schedules : ScheduleRecurring(s) \/ CancelRecurring(s)
    \/ SweepStep \/ EntryFails
    \/ KillHost \/ RestartHost \/ Tick

RecurringSpec == RecurringInit /\ [][RecurringNext]_recurringVars

\* The poll loop keeps sweeping, the supervisor restarts the process, and time
\* passes.
RecurringFairness ==
    /\ WF_recurringVars(SweepStep) /\ WF_recurringVars(RestartHost) /\ WF_recurringVars(Tick)

-----------------------------------------------------------------------------
(* Properties.                                                              *)

Sends(s, o) == Len(fired[s][o])
Fired(s)    == {o \in 0 .. MaxTime : Sends(s, o) > 0}

\* Rows, plans and the sweep hold the values the code can store.
RecurringTypeOK ==
    /\ clock \in 0 .. MaxTime
    /\ \A s \in Schedules :
         /\ row[s].status \in {"none", "active", "cancelled"}
         /\ row[s].next \in 0 .. Horizon
         /\ \A o \in 0 .. MaxTime : evidence[s][o] \in {"none", "executing", "unknown", "settled"}
    /\ sweep.pc \in {"rest", "visit", "reconcile", "validate", "claim", "send", "settle", "advance"}
    /\ (sweep.pc = "rest") <=> (sweep.todo = << >>)
    /\ crashes \in 0 .. MaxCrashes /\ faults \in 0 .. MaxFaults

\* A schedule fires at most once on a local day, on the 23-hour and on the
\* 25-hour day too, whatever crashes, errors, cancellations and re-creations
\* come between (next_occurrence; the evidence checks of run_due_recurring).
OncePerLocalDay ==
    \A s \in Schedules : \A o, p \in Fired(s) :
        Date(LocalTime(o)) = Date(LocalTime(p)) => o = p /\ Sends(s, o) = 1

\* An occurrence is dispatched at or after its instant, and its instant is the
\* rule's local time on a day the rule names (the gap moves it, never drops it).
DispatchedOnTime ==
    \A s \in Schedules : \A o \in Fired(s) :
        /\ \A i \in 1 .. Sends(s, o) : fired[s][o][i] >= o
        /\ OnWeekday(s, Date(LocalTime(o)))
        /\ LocalTime(o) = Candidate(s, Date(LocalTime(o)))

\* next_occurrence is the first instant after its argument at which the rule
\* fires, as its docstring says, except in the second pass of a repeated hour.
SecondPass(t) == zone.shift < 0 /\ t >= zone.at /\ t < zone.at - zone.shift
NextIsFirst ==
    \A s \in Schedules : ~SecondPass(clock) =>
        NextOccurrence(s, clock) =
            Min({u \in {Utc(Candidate(s, d)) : d \in {x \in 0 .. Date(Horizon) : OnWeekday(s, x)}} :
                    u > clock})

\* What a recurring schedule sends is exactly what its rule says, once.
OccurrencesAreExact == OncePerLocalDay /\ DispatchedOnTime /\ NextIsFirst

\* A schedule that is due does not stay due: its occurrence is dispatched,
\* skipped or reconciled and the row moves on, or the schedule is cancelled
\* (also when the second pass of a repeated hour yields the same occurrence).
Due(s) == Active(s) /\ row[s].next <= clock
DueIsHandled == \A s \in Schedules : Due(s) ~> ~Due(s)
=============================================================================
