--------------------------- MODULE ControlTakeover ---------------------------
(***************************************************************************)
(* Control leases over one latched actuator (a battery or a charger):      *)
(*   runtime/control_takeover.py     BatteryControlCoordinator             *)
(*   application/executor.py         acquire, check, stop and release      *)
(*   application/runtime_factory.py  run_control_supervisor, startup       *)
(*                                                                         *)
(* Plans execute concurrently; the supervisor polls beside them; each      *)
(* adapter call is a point where the others go on.  A command leaves the   *)
(* actuator on until it is stopped.  Feedback is configured, and, as for   *)
(* every adapter of the repository, leases cannot be renewed.              *)
(***************************************************************************)
EXTENDS Naturals, FiniteSets

CONSTANTS
    Orders,        \* plans that command the actuator
    Supervisor,    \* run_control_supervisor
    LeaseLength,   \* lease_seconds
    Margin,        \* the supervisor's margin, a fifth of it
    Commands,      \* commands of a plan
    MaxReboots     \* bound on crashes

ASSUME TakeoverAssumption ==
    /\ Supervisor \notin Orders
    /\ LeaseLength \in Nat /\ Margin \in Nat /\ Commands \in Nat /\ MaxReboots \in Nat

VARIABLES
    power,       \* the actuator is on
    control,     \* order -> [status, left]: its entry in _results and time to expires_at
    order,       \* order -> where its execution is
    done,        \* order -> commands it is through with
    stopping,    \* order or supervisor -> its emergency_stop
    startup,     \* how far reconcile_startup is
    touched,     \* history: a command reached the actuator since the last start
    raced,       \* history: one did while its lease was being given up
    reboots

takeoverVars == <<power, control, order, done, stopping, startup, touched, raced, reboots>>

Statuses == {"none", "acquired", "rejected", "expired", "released", "unknown"}
Stages == {"idle", "acquiring", "ready", "sending", "sent", "stopping", "releasing",
           "yielding", "ended"}
NoStop == [of |-> Supervisor, step |-> "none", saw |-> FALSE]
NoControl == [status |-> "none", left |-> 0]
Stoppers == Orders \cup {Supervisor}

TakeoverInit ==
    /\ power \in BOOLEAN
    /\ control = [o \in Orders |-> NoControl]
    /\ order = [o \in Orders |-> "idle"] /\ done = [o \in Orders |-> 0]
    /\ stopping = [s \in Stoppers |-> NoStop]
    /\ startup = "begin" /\ touched = FALSE /\ raced = FALSE /\ reboots = 0

Enter(o, s) == order' = [order EXCEPT ![o] = s]
SetStatus(o, st) == control' = [control EXCEPT ![o] = [status |-> st, left |-> 0]]
LiveLease(o) == control[o].status = "acquired" /\ control[o].left > 0

-----------------------------------------------------------------------------
(* reconcile_startup, before anything is executed.                          *)

\* Cached evidence that is missing or safe calls for a live read; evidence that
\* is unsafe, and a live read that is, for a stop and a read.
BeginStartup ==
    /\ startup = "begin" /\ startup' \in {"look", "stop"}
    /\ UNCHANGED <<power, control, order, done, stopping, touched, raced, reboots>>

LooksSafe == ~power

StartupLook ==
    /\ startup = "look"
    /\ startup' \in (IF LooksSafe THEN {"reconciled", "stop"} ELSE {"stop"})  \* or the read fails
    /\ UNCHANGED <<power, control, order, done, stopping, touched, raced, reboots>>

StartupStop ==
    /\ startup = "stop"
    /\ power' \in {power, FALSE}
    /\ startup' \in {"verify", "failed"}
    /\ UNCHANGED <<control, order, done, stopping, touched, raced, reboots>>

StartupVerify ==
    /\ startup = "verify"
    /\ startup' \in (IF power THEN {"failed"} ELSE {"reconciled", "failed"})
    /\ UNCHANGED <<power, control, order, done, stopping, touched, raced, reboots>>

-----------------------------------------------------------------------------
(* acquire_for_plan.                                                        *)

\* An unknown or a live lease of another order refuses; the others that have
\* run out are marked.  A refusal leaves no entry.
Acquire(o) ==
    LET others  == Orders \ {o}
        blocked == \E q \in others : control[q].status = "unknown" \/ LiveLease(q)
    IN  /\ order[o] = "idle" /\ startup \in {"reconciled", "failed"}
        /\ IF startup = "failed" \/ blocked
           THEN Enter(o, "ended") /\ UNCHANGED control
           ELSE /\ Enter(o, "acquiring")
                /\ control' = [q \in Orders |->
                                 IF q # o /\ control[q].status = "acquired"
                                 THEN [status |-> "expired", left |-> 0] ELSE control[q]]
        /\ UNCHANGED <<power, done, stopping, startup, touched, raced, reboots>>

\* The adapter answers: a lease, or a refusal, which is remembered.
Acquired(o) ==
    /\ order[o] = "acquiring"
    /\ \/ /\ control' = [control EXCEPT ![o] = [status |-> "acquired", left |-> LeaseLength]]
          /\ Enter(o, "ready")
       \/ SetStatus(o, "rejected") /\ Enter(o, "ended")
    /\ UNCHANGED <<power, done, stopping, startup, touched, raced, reboots>>

-----------------------------------------------------------------------------
(* The commands.                                                            *)

BeginStop(s, o) == stopping' = [stopping EXCEPT ![s] = [of |-> o, step |-> "write", saw |-> FALSE]]

\* assert_still_owned and, in the same step of the lane, adapter.execute; an
\* order that does not own the actuator stops it.
SendOrder(o) ==
    /\ order[o] = "ready"
    /\ IF LiveLease(o)
       THEN Enter(o, "sending") /\ UNCHANGED <<control, stopping>>
       ELSE /\ Enter(o, "stopping") /\ BeginStop(o, o)
            /\ IF control[o].status = "acquired" THEN SetStatus(o, "expired") ELSE UNCHANGED control
    /\ UNCHANGED <<power, done, startup, touched, raced, reboots>>

\* The command takes effect.
TakeEffect(o) ==
    /\ order[o] = "sending"
    /\ Enter(o, "sent")
    /\ power' = TRUE /\ touched' = TRUE
    /\ raced' = (raced \/ control[o].status # "acquired"
                       \/ \E s \in Stoppers : stopping[s].step # "none" /\ stopping[s].of = o)
    /\ UNCHANGED <<control, done, stopping, startup, reboots>>

\* The command is over: the first must have been confirmed for others to follow.
AfterCommand(o, confirmed) ==
    LET more == done[o] + 1 < Commands /\ (done[o] > 0 \/ confirmed)
    IN  /\ done' = [done EXCEPT ![o] = IF more THEN @ + 1 ELSE 0]
        /\ Enter(o, IF more THEN "ready" ELSE "releasing")

\* Acknowledgement and readback.  A call that raises took effect or did not.
SettleOrder(o) ==
    /\ order[o] \in {"sending", "sent"}
    /\ \/ order[o] = "sent" /\ AfterCommand(o, TRUE)
       \/ AfterCommand(o, FALSE)
    /\ UNCHANGED <<power, control, stopping, startup, touched, raced, reboots>>

\* release_for_plan, at the end and after an exception: a live entry is stopped.
ReleaseControl(o) ==
    /\ order[o] = "releasing"
    /\ IF control[o].status = "acquired"
       THEN Enter(o, "yielding") /\ BeginStop(o, o)
       ELSE Enter(o, "ended") /\ UNCHANGED stopping
    /\ UNCHANGED <<power, control, done, startup, touched, raced, reboots>>

-----------------------------------------------------------------------------
(* emergency_stop, by an execution or the supervisor.                       *)

\* Mutant: an acknowledged stop counts, whatever the readback says.
StopProvenByAck(s) == TRUE
StopProven(s) == ~stopping[s].saw

\* The entry gets its status, and the execution that asked goes on: after a
\* command it could not send, or after its release.
EndStop(s, st) ==
    /\ SetStatus(stopping[s].of, st)
    /\ stopping' = [stopping EXCEPT ![s] = NoStop]
    /\ CASE s = Supervisor -> UNCHANGED <<order, done>>
         [] s # Supervisor /\ order[s] = "stopping" -> AfterCommand(s, FALSE)
         [] OTHER -> Enter(s, "ended") /\ UNCHANGED done

\* The stop is sent.  Accepted or not, it may take effect; a refusal or an error
\* revokes the lease.
StopWrite(s) ==
    /\ stopping[s].step = "write"
    /\ power' \in {power, FALSE}
    /\ \/ /\ stopping' = [stopping EXCEPT ![s].step = "read"]
          /\ UNCHANGED <<control, order, done>>
       \/ EndStop(s, "unknown")
    /\ UNCHANGED <<startup, touched, raced, reboots>>

\* The feedback is read ...
StopRead(s) ==
    /\ stopping[s].step = "read"
    /\ \/ /\ stopping' = [stopping EXCEPT ![s] = [of |-> @.of, step |-> "judge", saw |-> power]]
          /\ UNCHANGED <<control, order, done>>
       \/ EndStop(s, "unknown")
    /\ UNCHANGED <<power, startup, touched, raced, reboots>>

\* ... and what was seen decides.
StopJudge(s) ==
    /\ stopping[s].step = "judge"
    /\ EndStop(s, IF StopProven(s) THEN "released" ELSE "unknown")
    /\ UNCHANGED <<power, startup, touched, raced, reboots>>

\* supervise_once: a lease within the margin of its end, or past it, is stopped.
\* Mutant: one that has already run out is passed over.
InMarginStill(o) == control[o].left > 0 /\ control[o].left <= Margin
InMargin(o) == control[o].left <= Margin

Supervise(o) ==
    /\ stopping[Supervisor] = NoStop
    /\ control[o].status = "acquired" /\ InMargin(o)
    /\ BeginStop(Supervisor, o)
    /\ UNCHANGED <<power, control, order, done, startup, touched, raced, reboots>>

-----------------------------------------------------------------------------
TakeoverTick ==
    /\ \E o \in Orders : control[o].left > 0
    /\ control' = [o \in Orders |-> IF control[o].left > 0 THEN [control[o] EXCEPT !.left = @ - 1]
                                                           ELSE control[o]]
    /\ UNCHANGED <<power, order, done, stopping, startup, touched, raced, reboots>>

\* The process dies; a command on its way may still take effect.  Executions are
\* not repeated (PlanExecution), leases are forgotten, the actuator goes on.
Reboot ==
    /\ reboots < MaxReboots /\ reboots' = reboots + 1
    /\ power' \in (IF \E o \in Orders : order[o] = "sending" THEN {power, TRUE} ELSE {power})
    /\ control' = [o \in Orders |-> NoControl]
    /\ order' = [o \in Orders |-> IF order[o] = "idle" THEN "idle" ELSE "ended"]
    /\ stopping' = [s \in Stoppers |-> NoStop]
    /\ done' = [o \in Orders |-> 0]
    /\ startup' = "begin" /\ touched' = FALSE /\ raced' = FALSE

StopStep(s) == StopWrite(s) \/ StopRead(s) \/ StopJudge(s)
StartupStep == BeginStartup \/ StartupLook \/ StartupStop \/ StartupVerify

TakeoverNext ==
    \/ StartupStep
    \/ \E o \in Orders : \/ Acquire(o) \/ Acquired(o) \/ SendOrder(o) \/ TakeEffect(o)
                         \/ SettleOrder(o) \/ ReleaseControl(o) \/ Supervise(o)
    \/ \E s \in Stoppers : StopStep(s)
    \/ TakeoverTick \/ Reboot

TakeoverSpec == TakeoverInit /\ [][TakeoverNext]_takeoverVars

\* Time passes and the supervisor's loop runs; executions may hang.
TakeoverFairness ==
    /\ WF_takeoverVars(TakeoverTick)
    /\ WF_takeoverVars(StopStep(Supervisor) \/ \E o \in Orders : Supervise(o))

-----------------------------------------------------------------------------
TakeoverTypeOK ==
    /\ power \in BOOLEAN /\ touched \in BOOLEAN /\ raced \in BOOLEAN
    /\ control \in [Orders -> [status: Statuses, left: 0..LeaseLength]]
    /\ order \in [Orders -> Stages] /\ done \in [Orders -> 0..Commands]
    /\ \A s \in Stoppers : stopping[s].of \in Stoppers
    /\ startup \in {"begin", "look", "stop", "verify", "reconciled", "failed"}

AtRest ==
    /\ \A o \in Orders : order[o] \in {"idle", "acquiring", "ended"}
    /\ \A s \in Stoppers : stopping[s] = NoStop

\* An actuator that is on is at every moment the subject of a lease that is live,
\* run out or unknown, or of a startup that has not confirmed it off; the one
\* exception is a command sent while its own lease was being given up
\* (emergency_stop, release_for_plan, supervise_once).
LatchIsAccountedFor ==
    power /\ startup = "reconciled" /\ ~raced =>
        \E o \in Orders : control[o].status \in {"acquired", "expired", "unknown"}

\* "A latched inverter command must never outlive the runtime's ownership
\* evidence": with nothing under way, an actuator that is on has a lease that is
\* live or latched unknown.
LatchNeverOutlivesLease ==
    power /\ AtRest /\ startup = "reconciled" =>
        \E o \in Orders : control[o].status \in {"acquired", "unknown"}

\* After a restart no lease is given before the actuator was seen off by this
\* process: whatever the dead one left behind (reconcile_startup).
RestartClearsLatch ==
    startup = "reconciled" /\ ~touched => ~power

\* An actuator that is on is known to be on, before and after a restart.
LatchIsKnown == TakeoverTypeOK /\ LatchIsAccountedFor /\ RestartClearsLatch

\* No lease stays acquired, even when the execution that took it hangs
\* (run_control_supervisor).
LeasesEnd ==
    \A o \in Orders : control[o].status = "acquired" ~> control[o].status # "acquired"
=============================================================================
