------------------------ MODULE ScheduledPlansProofs ------------------------
(***************************************************************************)
(* For every set of plans, every bundle, every pattern of tool calls, sweeps, *)
(* recoveries, crashes and lost grants, a plan reaches the adapter at most    *)
(* once (DispatchedOnce).                                                     *)
(*                                                                            *)
(* The argument: claim_for_execution is the only way from READY to EXECUTING  *)
(* and nothing leads back to READY.  So a READY plan has no execution past    *)
(* its claim and no adapter call (ReadyUntouched), an execution that has its  *)
(* claim is alone with its plan (AloneWithPlan), and one that has not sent    *)
(* yet finds the plan unsent (ActingUnsent).  All steps but the claim and the *)
(* send are Sober: they bring no execution past its claim, call no adapter    *)
(* and make no plan READY.                                                    *)
(***************************************************************************)
EXTENDS ScheduledPlans, TLAPS

Busy == {"acting", "sent"}
Statuses == {"ready", "executing"} \cup TerminalPlan

RowControl ==
    /\ planSt \in [Plans -> Statuses]
    /\ calls \in [Plans -> Nat]

\* A caller that has asked for an execution has named a plan.
CallControl ==
    /\ xSt \in [Callers -> {"none", "called", "done"} \cup Busy]
    /\ xPlan \in [Callers -> Plans \cup {NoPlan}]
    /\ \A c \in Callers : xSt[c] \in {"called"} \cup Busy => xPlan[c] \in Plans

\* Places of the scheduler loop that work on the row sPlan.
RowPlaces == {"inflight", "inflight_mark", "inflight_row", "missed", "missed_member", "evidence",
              "gate", "gate_row", "gate_member", "exec", "complete", "record", "fixup"}
SchedControl ==
    /\ sTodo \subseteq Plans
    /\ sPc \in RowPlaces => sPlan \in Plans

ToolControl == tPc # "idle" => tPlan \in Plans

Control == RowControl /\ CallControl /\ SchedControl /\ ToolControl

ReadyUntouched ==
    \A p \in Plans : planSt[p] = "ready" =>
        /\ calls[p] = 0
        /\ \A c \in Callers : xSt[c] \in Busy => xPlan[c] # p

ActingUnsent == \A c \in Callers : xSt[c] = "acting" => calls[xPlan[c]] = 0

AloneWithPlan ==
    \A c, d \in Callers :
        xSt[c] \in Busy /\ xSt[d] \in Busy /\ xPlan[c] = xPlan[d] => c = d

OnceInv == ReadyUntouched /\ ActingUnsent /\ AloneWithPlan /\ DispatchedOnce

\* What every step but ExecClaim and ExecSend is.
Sober ==
    /\ calls' = calls
    /\ \A p \in Plans : planSt'[p] = "ready" => planSt[p] = "ready"
    /\ \A c \in Callers : xSt'[c] \in Busy => xSt'[c] = xSt[c] /\ xPlan'[c] = xPlan[c]

-----------------------------------------------------------------------------
(* Initial states. *)

LEMMA InitControl == Init => Control
BY DEF Init, Control, RowControl, CallControl, SchedControl, ToolControl, Statuses, Busy, RowPlaces

LEMMA InitOnce == Init => OnceInv
BY DEF Init, OnceInv, ReadyUntouched, ActingUnsent, AloneWithPlan, DispatchedOnce, Busy

-----------------------------------------------------------------------------
(* The three kinds of steps. *)

\* A Sober step can disturb none of the parts.
LEMMA SoberKeepsOnce == Control /\ OnceInv /\ Sober => OnceInv'
<1> SUFFICES ASSUME Control, OnceInv, Sober PROVE OnceInv'
  OBVIOUS
<1> USE DEF OnceInv, Sober
<1>1. ReadyUntouched'
  BY DEF ReadyUntouched
<1>2. ActingUnsent'
  BY DEF ActingUnsent, Busy
<1>3. AloneWithPlan'
  BY DEF AloneWithPlan
<1>4. DispatchedOnce'
  BY DEF DispatchedOnce
<1> QED
  BY <1>1, <1>2, <1>3, <1>4

\* The claim: the plan was READY, so nobody else is busy with it and nothing was
\* sent for it.
LEMMA ClaimKeepsOnce ==
    ASSUME Control, OnceInv, NEW c \in Callers, ExecClaim(c)
    PROVE  OnceInv'
<1> DEFINE p == xPlan[c]
<1>1. p \in Plans /\ planSt[p] = "ready" /\ calls[p] = 0
  BY DEF ExecClaim, Claimable, Control, CallControl, OnceInv, ReadyUntouched
<1>2. /\ planSt' = [planSt EXCEPT ![p] = "executing"]
      /\ xSt' = [xSt EXCEPT ![c] = "acting"]
      /\ xPlan' = xPlan /\ calls' = calls
  BY DEF ExecClaim
<1>3. /\ planSt \in [Plans -> Statuses] /\ xSt \in [Callers -> {"none", "called", "done"} \cup Busy]
  BY DEF Control, RowControl, CallControl
<1>4. \A d \in Callers : d # c /\ xSt[d] \in Busy => xPlan[d] # p
  BY <1>1 DEF OnceInv, ReadyUntouched
<1>5. \A d \in Callers : xSt'[d] = IF d = c THEN "acting" ELSE xSt[d]
  BY <1>2, <1>3
<1>6. ReadyUntouched'
  BY <1>1, <1>2, <1>3, <1>5 DEF OnceInv, ReadyUntouched
<1>7. ActingUnsent'
  BY <1>1, <1>2, <1>5 DEF OnceInv, ActingUnsent
<1>8. AloneWithPlan'
  BY <1>2, <1>4, <1>5 DEF OnceInv, AloneWithPlan
<1>9. DispatchedOnce'
  BY <1>2 DEF OnceInv, DispatchedOnce
<1> QED
  BY <1>6, <1>7, <1>8, <1>9 DEF OnceInv

\* The send: the first for its plan, and no other execution is busy with it.
LEMMA SendKeepsOnce ==
    ASSUME Control, OnceInv, NEW c \in Callers, ExecSend(c)
    PROVE  OnceInv'
<1> DEFINE p == xPlan[c]
<1>1. p \in Plans /\ xSt[c] = "acting" /\ calls[p] = 0 /\ planSt[p] # "ready"
  BY DEF ExecSend, Control, CallControl, OnceInv, ReadyUntouched, ActingUnsent, Busy
<1>2. /\ calls' = [calls EXCEPT ![p] = @ + 1]
      /\ xSt' = [xSt EXCEPT ![c] = "sent"]
      /\ xPlan' = xPlan /\ planSt' = planSt
  BY DEF ExecSend, rows
<1>3. /\ calls \in [Plans -> Nat] /\ xSt \in [Callers -> {"none", "called", "done"} \cup Busy]
  BY DEF Control, RowControl, CallControl
<1>4. \A d \in Callers : d # c /\ xSt[d] \in Busy => xPlan[d] # p
  BY <1>1 DEF OnceInv, AloneWithPlan, Busy
<1>5. \A d \in Callers : xSt'[d] = IF d = c THEN "sent" ELSE xSt[d]
  BY <1>2, <1>3
<1>6. \A q \in Plans : calls'[q] = IF q = p THEN 1 ELSE calls[q]
  BY <1>1, <1>2, <1>3
<1>7. ReadyUntouched'
  BY <1>1, <1>2, <1>5, <1>6 DEF OnceInv, ReadyUntouched, Busy
<1>8. ActingUnsent'
  <2> SUFFICES ASSUME NEW d \in Callers, xSt'[d] = "acting" PROVE calls'[xPlan'[d]] = 0
    BY DEF ActingUnsent
  <2>1. d # c /\ xSt[d] = "acting"
    BY <1>5
  <2>2. xPlan[d] \in Plans /\ xPlan[d] # p /\ calls[xPlan[d]] = 0
    BY <2>1, <1>4 DEF Control, CallControl, OnceInv, ActingUnsent, Busy
  <2> QED
    BY <2>2, <1>2, <1>6
<1>9. AloneWithPlan'
  BY <1>2, <1>4, <1>5 DEF OnceInv, AloneWithPlan, Busy
<1>10. DispatchedOnce'
  BY <1>6 DEF OnceInv, DispatchedOnce
<1> QED
  BY <1>7, <1>8, <1>9, <1>10 DEF OnceInv

-----------------------------------------------------------------------------
(* Effects on plans and calls that several actions share. *)

Quiet == RowControl' /\ CallControl' /\ Sober

LEMMA QuietPlans ==
    ASSUME Control, UNCHANGED execVars,
           planSt' \in [Plans -> Statuses],
           \A p \in Plans : planSt'[p] = "ready" => planSt[p] = "ready"
    PROVE  Quiet
BY DEF Control, RowControl, CallControl, execVars, Quiet, Sober

LEMMA QuietUnchanged ==
    ASSUME Control, UNCHANGED planSt, UNCHANGED execVars
    PROVE  Quiet
BY QuietPlans DEF Control, RowControl

LEMMA QuietCall ==
    ASSUME Control, UNCHANGED planSt, NEW c \in Callers, NEW p \in Plans, Call(c, p)
    PROVE  Quiet
BY DEF Control, RowControl, CallControl, Call, Quiet, Sober, Busy

LEMMA QuietReturn ==
    ASSUME Control, UNCHANGED planSt, NEW c \in Callers, Return(c)
    PROVE  Quiet
BY DEF Control, RowControl, CallControl, Return, Quiet, Sober, Busy

LEMMA QuietDone ==
    ASSUME Control, NEW c \in Callers, NEW res, Done(c, res),
           planSt' \in [Plans -> Statuses],
           \A p \in Plans : planSt'[p] = "ready" => planSt[p] = "ready"
    PROVE  Quiet
BY DEF Control, RowControl, CallControl, Done, Quiet, Sober, Busy

-----------------------------------------------------------------------------
(* The executor's own steps. *)

LEMMA ExecRefusedSober ==
    ASSUME Control, NEW c \in Callers, ExecRefused(c)
    PROVE  Control' /\ Sober
<1>1. Quiet
  BY QuietDone DEF ExecRefused, rows, Control, RowControl
<1> QED
  BY <1>1 DEF Quiet, Control, SchedControl, ToolControl, ExecRefused, schedVars, toolVars

LEMMA ExecFinishSober ==
    ASSUME Control, NEW c \in Callers, NEW o \in {"confirmed", "failed", "unknown"},
           NEW released \in BOOLEAN, ExecFinish(c, o, released)
    PROVE  Control' /\ Sober
<1>1. planSt' \in [Plans -> Statuses] /\ \A p \in Plans : planSt'[p] = "ready" => planSt[p] = "ready"
  <2>1. Settlement(o, released) \in Statuses /\ Settlement(o, released) # "ready"
    BY DEF Settlement, Statuses, TerminalPlan
  <2> QED
    BY <2>1 DEF ExecFinish, Control, RowControl
<1>2. Done(c, o) \/ Done(c, "refused")
  BY DEF ExecFinish
<1>3. Quiet
  BY <1>1, <1>2, QuietDone
<1> QED
  BY <1>3 DEF Quiet, Control, SchedControl, ToolControl, ExecFinish, schedVars, toolVars

LEMMA ExecRaiseSober ==
    ASSUME Control, NEW c \in Callers, ExecRaise(c)
    PROVE  Control' /\ Sober
<1>1. planSt' \in [Plans -> Statuses] /\ \A p \in Plans : planSt'[p] = "ready" => planSt[p] = "ready"
  BY DEF ExecRaise, Control, RowControl, Statuses, TerminalPlan
<1>2. Quiet
  BY <1>1, QuietDone DEF ExecRaise
<1> QED
  BY <1>2 DEF Quiet, Control, SchedControl, ToolControl, ExecRaise, schedVars, toolVars

LEMMA ExecClaimControl ==
    ASSUME Control, NEW c \in Callers, ExecClaim(c)
    PROVE  Control'
<1>1. RowControl'
  BY DEF ExecClaim, Control, RowControl, Statuses
<1>2. CallControl'
  BY DEF ExecClaim, Control, CallControl, Busy
<1> QED
  BY <1>1, <1>2 DEF Control, SchedControl, ToolControl, ExecClaim, schedVars, toolVars

LEMMA ExecSendControl ==
    ASSUME Control, NEW c \in Callers, ExecSend(c)
    PROVE  Control'
<1>1. RowControl'
  <2>1. xPlan[c] \in Plans
    BY DEF ExecSend, Control, CallControl, Busy
  <2> QED
    BY <2>1 DEF ExecSend, Control, RowControl, rows
<1>2. CallControl'
  BY DEF ExecSend, Control, CallControl, Busy
<1> QED
  BY <1>1, <1>2 DEF Control, SchedControl, ToolControl, ExecSend, schedVars, toolVars

-----------------------------------------------------------------------------
(* The scheduler loop and recovery. *)

\* A step that keeps the row at hand, or leaves the places that have one.
LEMMA SchedStay ==
    ASSUME Control, sPc \in RowPlaces \/ sPc' \notin RowPlaces, UNCHANGED <<sPlan, sTodo>>
    PROVE  SchedControl'
BY DEF Control, SchedControl

LEMMA SweepSober ==
    ASSUME Control, Sweep
    PROVE  Control' /\ Sober
<1>1. Quiet
  BY QuietUnchanged DEF Sweep, rows
<1>2. SchedControl'
  BY DEF Sweep, SchedControl, RowPlaces
<1> QED
  BY <1>1, <1>2 DEF Quiet, Control, ToolControl, Sweep, SchedOnly, toolVars

LEMMA SNextSober ==
    ASSUME Control, NEW p \in Plans, SNext(p)
    PROVE  Control' /\ Sober
<1>1. Quiet
  BY QuietUnchanged DEF SNext
<1>2. SchedControl'
  BY DEF SNext, Control, SchedControl
<1> QED
  BY <1>1, <1>2 DEF Quiet, Control, ToolControl, SNext, SchedOnly, toolVars

\* Steps that touch neither a plan nor an execution.
SchedPlain ==
    \/ SEnd \/ SInflight \/ SInflightRow \/ SMissed \/ SMissedMember \/ SEvidence
    \/ SGateRow \/ SGateMember \/ SFixup \/ RecList \/ RecMember \/ RecSave \/ RecSettle
    \/ RecDone

LEMMA SchedPlainSober ==
    ASSUME Control, SchedPlain
    PROVE  Control' /\ Sober
<1>1. UNCHANGED planSt /\ UNCHANGED execVars /\ UNCHANGED toolVars
  BY DEF SchedPlain, SEnd, SInflight, SInflightRow, SMissed, SMissedMember, SEvidence, SGateRow,
         SGateMember, SFixup, RecList, RecMember, RecSave, RecSettle, RecDone, SchedOnly, rows
<1>2. SchedControl'
  <2>1. CASE SEnd \/ RecList \/ RecMember \/ RecSave \/ RecSettle
    BY <2>1, SchedStay DEF SEnd, RecList, RecMember, RecSave, RecSettle, SGoto, RowPlaces
  <2>2. CASE SInflight \/ SInflightRow \/ SMissed \/ SEvidence \/ SGateRow \/ SGateMember \/ SFixup
    BY <2>2, SchedStay DEF SInflight, SInflightRow, SMissed, SEvidence, SGateRow, SGateMember,
                           SFixup, SGoto, RowPlaces
  <2>3. CASE SMissedMember \/ RecDone
    BY <2>3 DEF SMissedMember, RecDone, SGoto, RowPlaces, Control, SchedControl
  <2> QED
    BY <2>1, <2>2, <2>3 DEF SchedPlain
<1>3. Quiet
  BY <1>1, QuietUnchanged
<1> QED
  BY <1>1, <1>2, <1>3 DEF Quiet, Control, ToolControl, toolVars

\* Marking plans UNKNOWN: the in-flight test and plan recovery.
LEMMA MarkingSober ==
    ASSUME Control, SInflightMark \/ RecPlans
    PROVE  Control' /\ Sober
<1>1. planSt' \in [Plans -> Statuses] /\ \A p \in Plans : planSt'[p] = "ready" => planSt[p] = "ready"
  BY DEF SInflightMark, RecPlans, Control, RowControl, Statuses, TerminalPlan
<1>2. UNCHANGED execVars /\ UNCHANGED toolVars
  BY DEF SInflightMark, RecPlans, SchedOnly
<1>3. SchedControl'
  BY SchedStay DEF SInflightMark, RecPlans, SGoto, RowPlaces
<1>4. Quiet
  BY <1>1, <1>2, QuietPlans
<1> QED
  BY <1>2, <1>3, <1>4 DEF Quiet, Control, ToolControl, toolVars

\* The scheduler's call of execute() and what it does with the result.
LEMMA SchedCallSober ==
    ASSUME Control, SGate \/ SExecEnded \/ SComplete \/ SRecord
    PROVE  Control' /\ Sober
<1>1. UNCHANGED planSt /\ UNCHANGED toolVars
  BY DEF SGate, SExecEnded, SComplete, SRecord, SchedOnly, rows
<1>2. SchedControl'
  BY SchedStay DEF SGate, SExecEnded, SComplete, SRecord, SGoto, RowPlaces
<1>3. Quiet
  <2>1. CASE SGate
    <3>1. sPlan \in Plans
      BY <2>1 DEF SGate, Control, SchedControl, RowPlaces
    <3>2. Call("sched", sPlan) \/ UNCHANGED execVars
      BY <2>1 DEF SGate
    <3> QED
      BY <1>1, <3>1, <3>2, QuietCall, QuietUnchanged DEF Callers
  <2>2. CASE SExecEnded \/ SComplete \/ SRecord
    <3>1. Return("sched") \/ UNCHANGED execVars
      BY <2>2 DEF SExecEnded, SComplete, SRecord
    <3> QED
      BY <1>1, <3>1, QuietReturn, QuietUnchanged DEF Callers
  <2> QED
    BY <2>1, <2>2
<1> QED
  BY <1>1, <1>2, <1>3 DEF Quiet, Control, ToolControl, toolVars

LEMMA SchedSober ==
    ASSUME Control, Sched
    PROVE  Control' /\ Sober
BY SNextSober, SchedPlainSober, MarkingSober, SchedCallSober DEF Sched, SchedPlain

-----------------------------------------------------------------------------
(* The saga. *)

LEMMA SagaSober ==
    ASSUME Control, CommitBegin \/ Saga
    PROVE  Control' /\ Sober
<1>1. UNCHANGED planSt /\ UNCHANGED toolVars /\ UNCHANGED schedVars
  BY DEF Saga, CommitBegin, CommitSave, CommitReserve, CommitApprove, CommitScheduleAll, CommitConsumeAll,
         CommitUndo, CommitConsume, CommitExecute, CommitMark, CommitScheduleRest, CommitComplete,
         CommitFail, SagaOnly, rows
<1>2. Quiet
  <2>1. CASE CommitExecute
    <3>1. PICK i \in 1..Len(Members) : Call("saga", Members[i])
      BY <2>1 DEF CommitExecute
    <3>2. Members[i] \in Plans
      BY <3>1, MembersAssumption
    <3> QED
      BY <1>1, <3>1, <3>2, QuietCall DEF Callers
  <2>2. CASE CommitMark
    BY <1>1, <2>2, QuietReturn DEF CommitMark, Callers
  <2>3. CASE ~CommitExecute /\ ~CommitMark
    <3>1. UNCHANGED execVars
      BY <2>3 DEF Saga, CommitBegin, CommitSave, CommitReserve, CommitApprove, CommitScheduleAll,
         CommitConsumeAll, CommitUndo, CommitConsume, CommitScheduleRest, CommitComplete, CommitFail
    <3> QED
      BY <1>1, <3>1, QuietUnchanged
  <2> QED
    BY <2>1, <2>2, <2>3
<1> QED
  BY <1>1, <1>2 DEF Quiet, Control, SchedControl, ToolControl, toolVars, schedVars

-----------------------------------------------------------------------------
(* Tools. *)

LEMMA ToolBeginSober ==
    ASSUME Control, NEW op \in Tools, NEW p \in Plans, ToolBegin(op, p)
    PROVE  Control' /\ Sober
<1>1. Quiet
  BY QuietUnchanged DEF ToolBegin, rows
<1> QED
  BY <1>1 DEF Quiet, Control, SchedControl, ToolControl, ToolBegin, ToolOnly, schedVars

LEMMA ToolSober ==
    ASSUME Control, Tool
    PROVE  Control' /\ Sober
<1>1. ToolControl'
  BY DEF Tool, ToolSchedule, ToolPersist, ToolExecute, ToolExecEnded, ToolCancel, ToolCancelPlan,
         TGoto, TEnd, Control, ToolControl
<1>2. SchedControl'
  BY DEF Tool, ToolSchedule, ToolPersist, ToolExecute, ToolExecEnded, ToolCancel, ToolCancelPlan,
         ToolOnly, schedVars, Control, SchedControl
<1>3. Quiet
  <2>1. CASE ToolSchedule \/ ToolPersist \/ ToolCancel
    BY <2>1, QuietUnchanged DEF ToolSchedule, ToolPersist, ToolCancel
  <2>2. CASE ToolExecute
    <3>1. tPlan \in Plans
      BY <2>2 DEF ToolExecute, Control, ToolControl
    <3> QED
      BY <2>2, <3>1, QuietCall DEF ToolExecute, Callers, rows
  <2>3. CASE ToolExecEnded
    BY <2>3, QuietReturn DEF ToolExecEnded, Callers, rows
  <2>4. CASE ToolCancelPlan
    <3>1. planSt' \in [Plans -> Statuses] /\ \A p \in Plans : planSt'[p] = "ready" => planSt[p] = "ready"
      BY <2>4 DEF ToolCancelPlan, Control, RowControl, Statuses, TerminalPlan
    <3> QED
      BY <2>4, <3>1, QuietPlans DEF ToolCancelPlan
  <2> QED
    BY <2>1, <2>2, <2>3, <2>4 DEF Tool
<1> QED
  BY <1>1, <1>2, <1>3 DEF Quiet, Control

-----------------------------------------------------------------------------
(* The environment and the process. *)

LEMMA TickSober ==
    ASSUME Control, Tick \/ Restart \/ \E fate \in Fates : Befall(fate)
    PROVE  Control' /\ Sober
<1>1. UNCHANGED planSt /\ UNCHANGED execVars /\ UNCHANGED toolVars /\ UNCHANGED <<sPlan, sTodo>>
  BY DEF Tick, Restart, Befall, rows, schedVars
<1>2. SchedControl'
  BY <1>1 DEF Tick, Restart, Befall, schedVars, Control, SchedControl, RowPlaces
<1>3. Quiet
  BY <1>1, QuietUnchanged
<1> QED
  BY <1>1, <1>2, <1>3 DEF Quiet, Control, ToolControl, toolVars

LEMMA CrashSober ==
    ASSUME Control, Crash
    PROVE  Control' /\ Sober
<1>1. RowControl' /\ SchedControl' /\ ToolControl'
  BY DEF Crash, rows, Control, RowControl, SchedControl, ToolControl, RowPlaces
<1>2. CallControl'
  BY DEF Crash, CallControl, Busy
<1>3. Sober
  BY DEF Crash, Sober, Busy, rows
<1> QED
  BY <1>1, <1>2, <1>3 DEF Control

-----------------------------------------------------------------------------
LEMMA NextSober ==
    ASSUME Control, Next
    PROVE  /\ Control'
           /\ Sober \/ \E c \in Callers : ExecClaim(c) \/ ExecSend(c)
<1>1. CASE Tick \/ Restart \/ \E fate \in Fates : Befall(fate)
  BY <1>1, TickSober
<1>2. CASE Crash
  BY <1>2, CrashSober
<1>3. CASE Sweep \/ Sched
  BY <1>3, SweepSober, SchedSober
<1>4. CASE CommitBegin \/ Saga
  BY <1>4, SagaSober
<1>5. CASE Tool \/ \E op \in Tools, p \in Plans : ToolBegin(op, p)
  BY <1>5, ToolSober, ToolBeginSober
<1>6. ASSUME NEW c \in Callers, Exec(c)
      PROVE  /\ Control'
             /\ Sober \/ \E d \in Callers : ExecClaim(d) \/ ExecSend(d)
  BY <1>6, ExecClaimControl, ExecSendControl, ExecRefusedSober, ExecFinishSober, ExecRaiseSober
     DEF Exec
<1> QED
  BY <1>1, <1>2, <1>3, <1>4, <1>5, <1>6 DEF Next

\* The inductive step for all of Next, and for stuttering.
LEMMA OnceStep == Control /\ OnceInv /\ [Next]_vars => Control' /\ OnceInv'
<1> SUFFICES ASSUME Control, OnceInv, [Next]_vars PROVE Control' /\ OnceInv'
  OBVIOUS
<1>1. CASE Next
  BY <1>1, NextSober, SoberKeepsOnce, ClaimKeepsOnce, SendKeepsOnce
<1>2. CASE UNCHANGED vars
  <2>1. Quiet
    BY <1>2, QuietUnchanged DEF vars, rows
  <2>2. Control'
    BY <1>2, <2>1 DEF vars, schedVars, toolVars, Quiet, Control, SchedControl, ToolControl
  <2> QED
    BY <2>1, <2>2, SoberKeepsOnce DEF Quiet
<1> QED
  BY <1>1, <1>2

\* Whoever gets to a plan, however often sweeps, clients, sagas and restarts
\* come back to it, its commands go to the adapter through one execution only:
\* Scheduler.run_due, BundleCommitService.commit and execute_plan all pass the
\* compare-and-set of claim_for_execution.
THEOREM PlanDispatchedOnce == Spec => []DispatchedOnce
<1>1. Init => Control /\ OnceInv
  BY InitControl, InitOnce
<1>2. Control /\ OnceInv => DispatchedOnce
  BY DEF OnceInv
<1> QED
  BY <1>1, <1>2, OnceStep, PTL DEF Spec
-----------------------------------------------------------------------------
(* Type correctness. *)

Results == {"none", "confirmed", "failed", "unknown", "refused", "raised"}
Settled == {"confirmed", "failed", "unknown"}
RowStatus == {"absent", "pending", "executed", "failed", "unknown", "missed", "cancelled"}

EnvType ==
    /\ now \in Nat /\ crashes \in 0..MaxCrashes
    /\ up \in {"down", "recovering", "up"} /\ grant \in {"valid", "expired", "revoked"}

RowType ==
    /\ row \in [Plans -> RowStatus]
    /\ resv \in {"none", "reserved", "committed", "released"}

RecordType == bundle \in Record /\ rCopy \in Record /\ cCopy \in Record

\* What the writers of the record rely on: a saga that executes works on a
\* member, and one that fails has a status to save.
PlaceType ==
    /\ cTodo \subseteq MemberSet /\ rNext \in 1..(Len(Members) + 1)
    /\ cPc = "fail" => cEnd \in BundleStatus \ {"absent"}
    /\ cPc = "exec" => xPlan["saga"] \in MemberSet

\* An execution that returned an outcome has settled its plan, and the scheduler
\* completes and records the row at hand only with such an outcome.
ResultType ==
    /\ xRes \in [Callers -> Results]
    /\ \A c \in Callers : xSt[c] = "done" => xRes[c] # "none"
    /\ \A c \in Callers : xSt[c] = "done" /\ xRes[c] \in Settled =>
           xPlan[c] \in Plans /\ planSt[xPlan[c]] \in TerminalPlan
    /\ up = "down" => sPc = "down"
    /\ xSt["sched"] # "none" => sPc \in {"exec", "complete", "record"} /\ xPlan["sched"] = sPlan
    /\ sPc \in {"complete", "record"} => xSt["sched"] = "done" /\ xRes["sched"] \in Settled

\* A COMPLETED plan has confirmed outcomes, and outcomes are persisted only with
\* the status that ends the plan.
OutcomesTell ==
    /\ outc \in [Plans -> {"none"} \cup Settled]
    /\ \A p \in Plans : /\ planSt[p] = "completed" => outc[p] = "confirmed"
                        /\ outc[p] # "none" => planSt[p] \in TerminalPlan

StoreType == EnvType /\ RowType /\ RecordType /\ PlaceType /\ ResultType /\ OutcomesTell

LEMMA MembersArePlans == MemberSet \subseteq Plans
BY MembersAssumption DEF MemberSet

LEMMA TypesTogether == Control /\ StoreType => TypeOK
BY DEF Control, RowControl, CallControl, SchedControl, StoreType, EnvType, RowType, RecordType,
       PlaceType, OutcomesTell, Settled, TypeOK, Statuses, Busy, RowStatus

LEMMA NoBundleType == NoBundle \in Record
BY DEF NoBundle, Record, BundleStatus, MemberStatus, OpenBundle

LEMMA InitStore == Init => StoreType
<1> SUFFICES ASSUME Init PROVE StoreType
  OBVIOUS
<1>1. Len(Members) \in Nat
  BY MembersAssumption
<1> QED
  BY <1>1, NoBundleType, TimeAssumption
     DEF Init, StoreType, EnvType, RowType, RecordType, PlaceType, ResultType, Results, RowStatus,
         OutcomesTell, Callers

-----------------------------------------------------------------------------
(* The statuses that the writers of the record compute. *)

LEMMA AggregateType == ASSUME NEW mem PROVE Aggregate(mem) \in BundleStatus \ {"absent"}
BY DEF Aggregate, BundleStatus, OpenBundle

LEMMA RecoveredStatusType == ASSUME NEW mem PROVE RecoveredStatus(mem) \in BundleStatus \ {"absent"}
BY DEF RecoveredStatus, BundleStatus, OpenBundle

LEMMA RecoveredMemberType == ASSUME NEW m PROVE RecoveredMember(m) \in MemberStatus
BY DEF RecoveredMember, MemberStatus, MemberDone

LEMMA RecordMemberType ==
    ASSUME bundle \in Record, NEW p, NEW status \in MemberStatus, RecordMember(p, status)
    PROVE  bundle' \in Record
<1>1. CASE InBundle(p) /\ bundle.mem[p] \notin MemberDone
  <2>1. PICK mem : /\ mem = [bundle.mem EXCEPT ![p] = status]
                   /\ bundle' = [status |-> Aggregate(mem), mem |-> mem,
                                 evid |-> [bundle.evid EXCEPT ![p] = (status = "executed")]]
    BY <1>1 DEF RecordMember
  <2>2. mem \in [MemberSet -> MemberStatus]
    BY <2>1 DEF Record
  <2>3. [bundle.evid EXCEPT ![p] = (status = "executed")] \in [MemberSet -> BOOLEAN]
    BY DEF Record
  <2> QED
    BY <2>1, <2>2, <2>3, AggregateType DEF Record
<1>2. CASE ~(InBundle(p) /\ bundle.mem[p] \notin MemberDone)
  BY <1>2 DEF RecordMember
<1> QED
  BY <1>1, <1>2

\* Writing a member's status, or the whole record's, keeps it a record.
LEMMA WithMember ==
    ASSUME NEW rec \in Record, NEW m \in MemberSet, NEW status \in MemberStatus
    PROVE  [rec EXCEPT !.mem[m] = status] \in Record
BY DEF Record

LEMMA WithStatus ==
    ASSUME NEW rec \in Record, NEW status \in BundleStatus
    PROVE  [rec EXCEPT !.status = status] \in Record
BY DEF Record

LEMMA TransitionType ==
    ASSUME RowType, NEW p, NEW status \in RowStatus, row' = Transition(p, status)
    PROVE  row' \in [Plans -> RowStatus]
BY DEF RowType, Transition
-----------------------------------------------------------------------------
(* What each actor leaves alone. *)

LEMMA ExecFrame ==
    ASSUME NEW c \in Callers, Exec(c)
    PROVE  UNCHANGED <<env, row, bundle, resv, schedVars, sagaVars, toolVars>>
BY DEF Exec, ExecClaim, ExecRefused, ExecSend, ExecFinish, ExecRaise, rows

LEMMA ToolFrame ==
    ASSUME Tool \/ \E op \in Tools, p \in Plans : ToolBegin(op, p)
    PROVE  UNCHANGED <<env, bundle, resv, schedVars, sagaVars>>
BY DEF Tool, ToolBegin, ToolSchedule, ToolPersist, ToolExecute, ToolExecEnded, ToolCancel,
       ToolCancelPlan, ToolOnly, rows

LEMMA SagaFrame ==
    ASSUME CommitBegin \/ Saga
    PROVE  UNCHANGED <<env, planSt, schedVars, toolVars>>
BY DEF CommitBegin, Saga, CommitSave, CommitReserve, CommitApprove, CommitScheduleAll, CommitConsumeAll,
       CommitUndo, CommitConsume, CommitExecute, CommitMark, CommitScheduleRest, CommitComplete,
       CommitFail, SagaOnly, rows

LEMMA SchedFrame ==
    ASSUME Sweep \/ Sched
    PROVE  UNCHANGED <<now, crashes, grant, sagaVars, toolVars>>
BY DEF Sweep, Sched, SNext, SEnd, SInflight, SInflightMark, SInflightRow, SMissed, SMissedMember,
       SEvidence, SGate, SGateRow, SGateMember, SExecEnded, SComplete, SRecord, SFixup, RecPlans,
       RecList, RecMember, RecSave, RecSettle, RecDone, SchedOnly, env

\* A settled plan is never touched again.
PlansFinal == \A p \in Plans : planSt[p] \in TerminalPlan => planSt'[p] = planSt[p]

LEMMA NextPlansFinal == ASSUME Control, Next PROVE PlansFinal
<1>1. CASE \E c \in Callers : Exec(c)
  BY <1>1 DEF PlansFinal, Exec, ExecClaim, Claimable, ExecRefused, ExecSend, ExecFinish, ExecRaise,
              rows, TerminalPlan, Control, RowControl
<1>2. CASE Sweep \/ Sched
  <2>1. CASE SInflightMark \/ RecPlans
    BY <2>1 DEF PlansFinal, SInflightMark, RecPlans, Orphan, TerminalPlan, Control, RowControl
  <2>2. CASE ~SInflightMark /\ ~RecPlans
    BY <1>2, <2>2 DEF PlansFinal, Sweep, Sched, SNext, SEnd, SInflight, SInflightRow, SMissed,
       SMissedMember, SEvidence, SGate, SGateRow, SGateMember, SExecEnded, SComplete, SRecord, SFixup,
       RecList, RecMember, RecSave, RecSettle, RecDone, rows
  <2> QED
    BY <2>1, <2>2
<1>3. CASE CommitBegin \/ Saga
  BY <1>3, SagaFrame DEF PlansFinal
<1>4. CASE Tool \/ \E op \in Tools, p \in Plans : ToolBegin(op, p)
  BY <1>4 DEF PlansFinal, Tool, ToolBegin, ToolSchedule, ToolPersist, ToolExecute, ToolExecEnded,
       ToolCancel, ToolCancelPlan, CancelOpen, rows, TerminalPlan, Control, RowControl
<1>5. CASE Tick \/ Crash \/ Restart \/ \E fate \in Fates : Befall(fate)
  BY <1>5 DEF PlansFinal, Tick, Crash, Restart, Befall, rows
<1> QED
  BY <1>1, <1>2, <1>3, <1>4, <1>5 DEF Next

\* Outcomes are written once, by the settlement.
OutcomesFinal == \A p \in Plans : outc[p] # "none" => outc'[p] = outc[p]

LEMMA OutcomesKept ==
    ASSUME Control, OutcomesTell, PlansFinal, UNCHANGED outc,
           \A p \in Plans : planSt'[p] = "completed" => planSt[p] = "completed"
    PROVE  OutcomesTell' /\ OutcomesFinal
BY DEF OutcomesTell, OutcomesFinal, PlansFinal

LEMMA OutcomesStep ==
    ASSUME Control, OutcomesTell, Next
    PROVE  OutcomesTell' /\ OutcomesFinal
<1>0. PlansFinal
  BY NextPlansFinal
<1>1. ASSUME NEW c \in Callers, Exec(c) PROVE OutcomesTell' /\ OutcomesFinal
  <2>1. ASSUME NEW o \in Settled, NEW released \in BOOLEAN, ExecFinish(c, o, released)
        PROVE  OutcomesTell' /\ OutcomesFinal
    <3>1. xPlan[c] \in Plans
      BY <2>1 DEF ExecFinish, Control, CallControl
    <3>2. CASE planSt[xPlan[c]] = "executing"
      <4>1. /\ planSt' = [planSt EXCEPT ![xPlan[c]] = Settlement(o, released)]
            /\ outc' = [outc EXCEPT ![xPlan[c]] = o]
        BY <2>1, <3>2 DEF ExecFinish
      <4>2. /\ Settlement(o, released) \in TerminalPlan
            /\ Settlement(o, released) = "completed" => o = "confirmed"
        BY DEF Settlement, TerminalPlan, Settled
      <4>3. outc[xPlan[c]] = "none"
        BY <3>1, <3>2 DEF OutcomesTell, TerminalPlan
      <4> QED
        BY <3>1, <4>1, <4>2, <4>3 DEF OutcomesTell, OutcomesFinal, Control, RowControl
    <3>3. CASE planSt[xPlan[c]] # "executing"
      BY <1>0, <2>1, <3>3, OutcomesKept DEF ExecFinish
    <3> QED
      BY <3>2, <3>3
  <2>2. CASE ExecClaim(c) \/ ExecRefused(c) \/ ExecSend(c) \/ ExecRaise(c)
    <3>1. UNCHANGED outc /\ \A p \in Plans : planSt'[p] = "completed" => planSt[p] = "completed"
      BY <2>2 DEF ExecClaim, ExecRefused, ExecSend, ExecRaise, rows, Control, RowControl
    <3> QED
      BY <1>0, <3>1, OutcomesKept
  <2> QED
    BY <1>1, <2>1, <2>2 DEF Exec, Settled
<1>2. CASE Sweep \/ Sched
  <2>1. CASE SInflightMark \/ RecPlans
    BY <1>0, <2>1, OutcomesKept DEF SInflightMark, RecPlans, execVars, Control, RowControl
  <2>2. CASE ~SInflightMark /\ ~RecPlans
    <3>1. UNCHANGED <<planSt, outc>>
      BY <1>2, <2>2 DEF Sweep, Sched, SNext, SEnd, SInflight, SInflightRow, SMissed, SMissedMember,
         SEvidence, SGate, SGateRow, SGateMember, SExecEnded, SComplete, SRecord, SFixup, RecList,
         RecMember, RecSave, RecSettle, RecDone, rows, execVars, Call, Return
    <3> QED
      BY <1>0, <3>1, OutcomesKept
  <2> QED
    BY <2>1, <2>2
<1>3. CASE CommitBegin \/ Saga
  <2>1. UNCHANGED <<planSt, outc>>
    BY <1>3, SagaFrame DEF CommitBegin, Saga, CommitSave, CommitReserve, CommitApprove, CommitScheduleAll,
       CommitConsumeAll, CommitUndo, CommitConsume, CommitExecute, CommitMark, CommitScheduleRest,
       CommitComplete, CommitFail, execVars, Call, Return
  <2> QED
    BY <1>0, <2>1, OutcomesKept
<1>4. CASE Tool \/ \E op \in Tools, p \in Plans : ToolBegin(op, p)
  <2>1. UNCHANGED outc /\ \A p \in Plans : planSt'[p] = "completed" => planSt[p] = "completed"
    BY <1>4 DEF Tool, ToolBegin, ToolSchedule, ToolPersist, ToolExecute, ToolExecEnded, ToolCancel,
       ToolCancelPlan, rows, execVars, Call, Return, Control, RowControl
  <2> QED
    BY <1>0, <2>1, OutcomesKept
<1>5. CASE Tick \/ Crash \/ Restart \/ \E fate \in Fates : Befall(fate)
  BY <1>0, <1>5, OutcomesKept DEF Tick, Crash, Restart, Befall, rows, execVars
<1> QED
  BY <1>1, <1>2, <1>3, <1>4, <1>5 DEF Next

-----------------------------------------------------------------------------
(* Results.  Calls and returns of one caller leave the others alone. *)

LEMMA CalledResults ==
    ASSUME Control, ResultType, PlansFinal, NEW c \in Callers,
           Return(c) \/ \E p \in Plans : Call(c, p),
           c # "sched", UNCHANGED <<sPc, sPlan, up>>
    PROVE  ResultType'
<1>1. \A d \in Callers : d # c => xSt'[d] = xSt[d] /\ xPlan'[d] = xPlan[d] /\ xRes'[d] = xRes[d]
  BY DEF Call, Return, Control, CallControl, ResultType
<1>2. xSt'[c] # "done" /\ xRes' \in [Callers -> Results]
  BY DEF Call, Return, Control, CallControl, ResultType, Results
<1> QED
  BY <1>1, <1>2 DEF ResultType, PlansFinal, Callers

LEMMA KeptResults ==
    ASSUME ResultType, PlansFinal, UNCHANGED execVars, UNCHANGED <<sPc, sPlan, up>>
    PROVE  ResultType'
BY DEF ResultType, PlansFinal, execVars

LEMMA ExecResults ==
    ASSUME Control, ResultType, PlansFinal, NEW c \in Callers, Exec(c)
    PROVE  ResultType'
<1>1. xPlan' = xPlan /\ xSt[c] \notin {"none", "done"} /\ xPlan[c] \in Plans
  BY DEF Exec, ExecClaim, ExecRefused, ExecSend, ExecFinish, ExecRaise, Done, Control, CallControl, Busy
<1>2. UNCHANGED <<sPc, sPlan, up>>
  BY ExecFrame DEF schedVars, env
<1>3. \/ xRes' = xRes /\ \E l \in Busy : xSt' = [xSt EXCEPT ![c] = l]
      \/ \E res \in Results \ {"none"} :
            Done(c, res) /\ (res \in Settled => planSt'[xPlan[c]] \in TerminalPlan)
  <2>1. CASE ExecClaim(c) \/ ExecSend(c)
    BY <2>1 DEF ExecClaim, ExecSend, Busy
  <2>2. CASE ExecRefused(c) \/ ExecRaise(c)
    BY <2>2 DEF ExecRefused, ExecRaise, Results, Settled
  <2>3. ASSUME NEW o \in Settled, NEW released \in BOOLEAN, ExecFinish(c, o, released)
        PROVE  \E res \in Results \ {"none"} :
                  Done(c, res) /\ (res \in Settled => planSt'[xPlan[c]] \in TerminalPlan)
    <3>1. CASE planSt[xPlan[c]] = "executing"
      <4>1. planSt'[xPlan[c]] = Settlement(o, released) /\ Done(c, o)
        BY <1>1, <2>3, <3>1 DEF ExecFinish, Control, RowControl
      <4> QED
        BY <4>1 DEF Settlement, TerminalPlan, Settled, Results
    <3>2. CASE planSt[xPlan[c]] # "executing"
      BY <2>3, <3>2 DEF ExecFinish, Settled, Results
    <3> QED
      BY <3>1, <3>2
  <2> QED
    BY <2>1, <2>2, <2>3 DEF Exec, Settled
<1>4. \A d \in Callers : d # c => xSt'[d] = xSt[d] /\ xRes'[d] = xRes[d]
  BY <1>3 DEF Done, Control, CallControl, ResultType
<1>5. /\ xRes' \in [Callers -> Results]
      /\ xSt'[c] = "done" => xRes'[c] # "none"
      /\ xSt'[c] = "done" /\ xRes'[c] \in Settled => planSt'[xPlan[c]] \in TerminalPlan
  BY <1>3 DEF Done, Busy, Control, CallControl, ResultType
<1>6. sPc \in {"complete", "record"} => c # "sched"
  BY <1>1 DEF ResultType
<1> QED
  BY <1>1, <1>2, <1>4, <1>5, <1>6 DEF ResultType, PlansFinal, Callers

\* The scheduler's own calls: from the gate to the record.
LEMMA SchedResults ==
    ASSUME Control, ResultType, PlansFinal, Sweep \/ Sched
    PROVE  ResultType'
<1>0. up' = "down" => sPc' = "down"
  <2>1. sPc # "down"
    BY DEF Sweep, Sched, SNext, SEnd, SInflight, SInflightMark, SInflightRow, SMissed, SMissedMember,
       SEvidence, SGate, SGateRow, SGateMember, SExecEnded, SComplete, SRecord, SFixup, RecPlans,
       RecList, RecMember, RecSave, RecSettle, RecDone
  <2>2. up' = up \/ up' = "up" \/ (up' = "down" /\ sPc' = "down")
    BY DEF Sweep, Sched, SNext, SEnd, SInflight, SInflightMark, SInflightRow, SMissed, SMissedMember,
       SEvidence, SGate, SGateRow, SGateMember, SExecEnded, SComplete, SRecord, SFixup, RecPlans,
       RecList, RecMember, RecSave, RecSettle, RecDone, SchedOnly, env
  <2> QED
    BY <2>1, <2>2 DEF ResultType
<1>1. CASE SGate
  <2>1. sPc = "gate" /\ xSt["sched"] = "none" /\ sPlan \in Plans
    BY <1>1 DEF SGate, ResultType, Control, SchedControl, RowPlaces
  <2>2. sPlan' = sPlan /\ sPc' \in {"exec", "gate_row"}
    BY <1>1 DEF SGate, SGoto
  <2>3. CASE UNCHANGED execVars
    BY <1>0, <2>1, <2>2, <2>3 DEF ResultType, PlansFinal, execVars
  <2>4. CASE Call("sched", sPlan) /\ sPc' = "exec"
    <3>1. \A d \in Callers : d # "sched" => xSt'[d] = xSt[d] /\ xPlan'[d] = xPlan[d]
      BY <2>4 DEF Call, Control, CallControl
    <3>2. xSt'["sched"] = "called" /\ xPlan'["sched"] = sPlan /\ xRes' = xRes
      BY <2>4 DEF Call, Control, CallControl, Callers
    <3> QED
      BY <1>0, <2>2, <2>4, <3>1, <3>2 DEF ResultType, PlansFinal, Callers
  <2> QED
    BY <1>1, <2>3, <2>4 DEF SGate, SGoto
<1>2. CASE SExecEnded \/ SComplete \/ SRecord
  <2>1. sPlan' = sPlan /\ sPc \in {"exec", "complete", "record"} /\ xSt["sched"] = "done"
    BY <1>2 DEF SExecEnded, SComplete, SRecord, SGoto, ResultType
  <2>2. CASE UNCHANGED execVars
    <3>1. sPc' \in {"complete", "record"} /\ xRes["sched"] \in Settled
      BY <1>2, <2>2 DEF SExecEnded, SComplete, SRecord, SGoto, Return, execVars, ResultType, Results,
                        Settled, Callers, Control, CallControl
    <3> QED
      BY <1>0, <2>1, <2>2, <3>1 DEF ResultType, PlansFinal, execVars
  <2>3. CASE Return("sched") /\ sPc' \in {"next", "fixup"}
    <3>1. \A d \in Callers : d # "sched" => xSt'[d] = xSt[d] /\ xPlan'[d] = xPlan[d] /\ xRes'[d] = xRes[d]
      BY <2>3 DEF Return, Control, CallControl, ResultType
    <3>2. xSt'["sched"] = "none" /\ xRes' \in [Callers -> Results]
      BY <2>3 DEF Return, Control, CallControl, Callers, ResultType, Results
    <3> QED
      BY <1>0, <2>3, <3>1, <3>2 DEF ResultType, PlansFinal, Callers
  <2> QED
    BY <1>2, <2>2, <2>3 DEF SExecEnded, SComplete, SRecord, SGoto
<1>3. CASE ~SGate /\ ~SExecEnded /\ ~SComplete /\ ~SRecord
  <2>1. UNCHANGED execVars /\ sPc \notin {"exec", "complete", "record"}
        /\ sPc' \notin {"complete", "record"}
    <3>1. CASE SInflight \/ SInflightMark \/ SInflightRow \/ SMissed \/ SMissedMember \/ SEvidence
      BY <3>1 DEF SInflight, SInflightMark, SInflightRow, AfterInflight, SMissed, SMissedMember,
                  SEvidence, SGoto
    <3>2. CASE SGateRow \/ SGateMember \/ SFixup
      BY <3>2 DEF SGateRow, SGateMember, SFixup, SGoto
    <3>3. CASE Sweep \/ SEnd \/ \E p \in Plans : SNext(p)
      BY <3>3 DEF Sweep, SEnd, SNext, SGoto
    <3>4. CASE RecPlans \/ RecList \/ RecMember \/ RecSave \/ RecSettle \/ RecDone
      BY <3>4 DEF RecPlans, RecList, RecMember, RecSave, RecSettle, RecDone, SGoto
    <3> QED
      BY <1>3, <3>1, <3>2, <3>3, <3>4 DEF Sched
  <2> QED
    BY <1>0, <2>1 DEF ResultType, PlansFinal, execVars
<1> QED
  BY <1>1, <1>2, <1>3

-----------------------------------------------------------------------------
(* The stores, actor by actor. *)

LEMMA ExecStore ==
    ASSUME Control, StoreType, NEW c \in Callers, Exec(c)
    PROVE  EnvType' /\ RowType' /\ RecordType' /\ PlaceType'
<1>1. xPlan' = xPlan
  BY DEF Exec, ExecClaim, ExecRefused, ExecSend, ExecFinish, ExecRaise, Done
<1> QED
  BY <1>1, ExecFrame DEF StoreType, EnvType, RowType, RecordType, PlaceType, env, schedVars, sagaVars

LEMMA ToolStore ==
    ASSUME Control, StoreType, Tool \/ \E op \in Tools, p \in Plans : ToolBegin(op, p)
    PROVE  EnvType' /\ RowType' /\ RecordType' /\ PlaceType'
<1>1. EnvType' /\ RecordType' /\ resv' = resv
  BY ToolFrame DEF StoreType, EnvType, RecordType, env, schedVars, sagaVars
<1>2. row' \in [Plans -> RowStatus]
  BY TransitionType DEF Tool, ToolBegin, ToolSchedule, ToolPersist, ToolExecute, ToolExecEnded,
     ToolCancel, ToolCancelPlan, rows, StoreType, RowType, RowStatus
<1>3. xPlan'["saga"] = xPlan["saga"]
  BY DEF Tool, ToolBegin, ToolSchedule, ToolPersist, ToolExecute, ToolExecEnded, ToolCancel,
         ToolCancelPlan, Call, Return, execVars, Callers, Control, CallControl
<1>4. PlaceType'
  BY <1>3, ToolFrame DEF StoreType, PlaceType, schedVars, sagaVars
<1> QED
  BY <1>1, <1>2, <1>4 DEF StoreType, RowType

LEMMA ToolResults ==
    ASSUME Control, ResultType, PlansFinal,
           Tool \/ \E op \in Tools, p \in Plans : ToolBegin(op, p)
    PROVE  ResultType'
<1>1. UNCHANGED <<sPc, sPlan, up>>
  BY ToolFrame DEF schedVars, env
<1>2. CASE ToolExecute \/ ToolExecEnded
  <2>1. Return("tool") \/ \E p \in Plans : Call("tool", p)
    BY <1>2 DEF ToolExecute, ToolExecEnded, Control, ToolControl
  <2> QED
    BY <1>1, <2>1, CalledResults DEF Callers
<1>3. CASE ~ToolExecute /\ ~ToolExecEnded
  <2>1. UNCHANGED execVars
    BY <1>3 DEF Tool, ToolBegin, ToolSchedule, ToolPersist, ToolCancel, ToolCancelPlan
  <2> QED
    BY <1>1, <2>1, KeptResults
<1> QED
  BY <1>2, <1>3

LEMMA SchedRows ==
    ASSUME Control, StoreType, Sweep \/ Sched
    PROVE  row' \in [Plans -> RowStatus]
<1>1. CASE SComplete \/ SFixup \/ \E p \in Plans : SNext(p)
  <2>1. row' = row \/ \E p \in Plans : planSt[p] \in TerminalPlan /\ row' = Transition(p, ScheduleStatus(planSt[p]))
    <3>1. CASE SComplete
      BY <3>1 DEF SComplete, StoreType, ResultType, Control, SchedControl, RowPlaces, Callers
    <3>2. CASE SFixup
      BY <3>2 DEF SFixup, Control, SchedControl, RowPlaces
    <3>3. CASE \E p \in Plans : SNext(p)
      BY <3>3 DEF SNext
    <3> QED
      BY <1>1, <3>1, <3>2, <3>3
  <2>2. \A st \in TerminalPlan : ScheduleStatus(st) \in RowStatus
    BY DEF ScheduleStatus, RowStatus, TerminalPlan
  <2> QED
    BY <2>1, <2>2, TransitionType DEF StoreType, RowType
<1>2. CASE SInflightRow \/ SMissed \/ SGateRow
  BY <1>2, TransitionType DEF SInflightRow, SMissed, SGateRow, StoreType, RowStatus
<1>3. CASE ~SComplete /\ ~SFixup /\ ~(\E p \in Plans : SNext(p)) /\ ~SInflightRow /\ ~SMissed /\ ~SGateRow
  BY <1>3 DEF Sweep, Sched, SEnd, SInflight, SInflightMark, SMissedMember,
       SEvidence, SGate, SGateMember, SExecEnded, SRecord, RecPlans,
       RecList, RecMember, RecSave, RecSettle, RecDone, rows, StoreType, RowType
<1> QED
  BY <1>1, <1>2, <1>3

LEMMA SchedRecords ==
    ASSUME Control, StoreType, Sweep \/ Sched
    PROVE  bundle' \in Record /\ rCopy' \in Record
<1> USE DEF StoreType, RecordType
<1>1. CASE SMissedMember \/ SGateMember \/ SRecord
  <2>1. rCopy' = rCopy
    BY <1>1 DEF SMissedMember, SGateMember, SRecord, SGoto
  <2>2. bundle' = bundle \/ \E status \in MemberStatus : RecordMember(sPlan, status)
    <3>1. CASE SMissedMember \/ SGateMember
      BY <3>1 DEF SMissedMember, SGateMember, MemberStatus, MemberDone
    <3>2. CASE SRecord
      <4>1. MemberOutcome(xRes["sched"]) \in MemberStatus
        BY <3>2 DEF SRecord, ResultType, Settled, MemberOutcome, MemberStatus, MemberDone
      <4> QED
        BY <3>2, <4>1 DEF SRecord
    <3> QED
      BY <1>1, <3>1, <3>2
  <2> QED
    BY <2>1, <2>2, RecordMemberType
<1>2. CASE RecMember
  <2>1. Members[rNext] \in MemberSet
    BY <1>2, MembersAssumption DEF RecMember, PlaceType, MemberSet
  <2> QED
    BY <1>2, <2>1, WithMember, RecoveredMemberType DEF RecMember, rows
<1>3. CASE RecSave
  BY <1>3, WithStatus, RecoveredStatusType DEF RecSave, SGoto
<1>4. CASE RecList \/ RecDone
  BY <1>4, NoBundleType DEF RecList, RecDone, rows
<1>5. CASE ~SMissedMember /\ ~SGateMember /\ ~SRecord /\ ~RecMember /\ ~RecSave /\ ~RecList /\ ~RecDone
  BY <1>5 DEF Sweep, Sched, SNext, SEnd, SInflight, SInflightMark, SInflightRow, SMissed,
       SEvidence, SGate, SGateRow, SExecEnded, SComplete, SFixup, RecPlans,
       RecSettle, rows, SGoto
<1> QED
  BY <1>1, <1>2, <1>3, <1>4, <1>5

LEMMA SchedStore ==
    ASSUME Control, StoreType, Sweep \/ Sched
    PROVE  EnvType' /\ RowType' /\ RecordType' /\ PlaceType'
<1>1. EnvType'
  <2>1. up' \in {up, "up", "down"}
    BY DEF Sweep, Sched, SNext, SEnd, SInflight, SInflightMark, SInflightRow, SMissed, SMissedMember,
       SEvidence, SGate, SGateRow, SGateMember, SExecEnded, SComplete, SRecord, SFixup, RecPlans,
       RecList, RecMember, RecSave, RecSettle, RecDone, SchedOnly, env
  <2> QED
    BY <2>1, SchedFrame DEF StoreType, EnvType
<1>2. resv' \in {"none", "reserved", "committed", "released"}
  BY DEF Sweep, Sched, SNext, SEnd, SInflight, SInflightMark, SInflightRow, SMissed, SMissedMember,
     SEvidence, SGate, SGateRow, SGateMember, SExecEnded, SComplete, SRecord, SFixup, RecPlans,
     RecList, RecMember, RecSave, RecSettle, RecDone, rows, Released, Consume, StoreType, RowType
<1>3. cCopy' = cCopy /\ cPc' = cPc /\ cTodo' = cTodo /\ cEnd' = cEnd
  BY SchedFrame DEF sagaVars
<1>4. xPlan'["saga"] = xPlan["saga"]
  BY DEF Sweep, Sched, SNext, SEnd, SInflight, SInflightMark, SInflightRow, SMissed, SMissedMember,
     SEvidence, SGate, SGateRow, SGateMember, SExecEnded, SComplete, SRecord, SFixup, RecPlans,
     RecList, RecMember, RecSave, RecSettle, RecDone, Call, Return, execVars, Callers, Control,
     CallControl
<1>5. rNext' \in 1..(Len(Members) + 1)
  <2>1. Len(Members) \in Nat
    BY MembersAssumption
  <2>2. rNext' = rNext \/ rNext' = 1 \/ (rNext' = rNext + 1 /\ rNext <= Len(Members))
    BY DEF Sweep, Sched, SNext, SEnd, SInflight, SInflightMark, SInflightRow, SMissed, SMissedMember,
       SEvidence, SGate, SGateRow, SGateMember, SExecEnded, SComplete, SRecord, SFixup, RecPlans,
       RecList, RecMember, RecSave, RecSettle, RecDone, SGoto
  <2> QED
    BY <2>1, <2>2 DEF StoreType, PlaceType
<1>6. PlaceType'
  BY <1>3, <1>4, <1>5 DEF StoreType, PlaceType
<1> QED
  BY <1>1, <1>2, <1>3, <1>6, SchedRows, SchedRecords DEF RowType, StoreType, RecordType

\* ScheduleMembers inserts pending rows and marks the members scheduled.
LEMMA ScheduleMembersType ==
    ASSUME StoreType, NEW S, S \subseteq MemberSet, ScheduleMembers(S)
    PROVE  row' \in [Plans -> RowStatus] /\ bundle' \in Record /\ cCopy' \in Record
<1> DEFINE mem == [m \in MemberSet |-> IF m \in S THEN "scheduled" ELSE cCopy.mem[m]]
<1>1. cCopy \in Record
  BY DEF StoreType, RecordType
<1>2. bundle' = [cCopy EXCEPT !.status = "scheduled", !.mem = mem] /\ cCopy' = bundle'
  BY <1>1 DEF ScheduleMembers, Record
<1>3. mem \in [MemberSet -> MemberStatus] /\ "scheduled" \in BundleStatus
  BY <1>1 DEF Record, MemberStatus, BundleStatus, OpenBundle
<1>4. bundle' \in Record
  <2> HIDE DEF mem
  <2> QED
    BY <1>1, <1>2, <1>3 DEF Record
<1>5. row' \in [Plans -> RowStatus]
  BY DEF ScheduleMembers, StoreType, RowType, RowStatus
<1> QED
  BY <1>2, <1>4, <1>5

LEMMA SagaStore ==
    ASSUME Control, StoreType, CommitBegin \/ Saga
    PROVE  RowType' /\ RecordType' /\ PlaceType'
<1> USE DEF StoreType, RowType, RecordType, PlaceType
<1>1. rCopy' = rCopy /\ rNext' = rNext
  BY SagaFrame DEF schedVars
<1>2. resv' \in {"none", "reserved", "committed", "released"}
  BY DEF CommitBegin, Saga, CommitSave, CommitReserve, CommitApprove, CommitScheduleAll, CommitConsumeAll,
       CommitUndo, CommitConsume, CommitExecute, CommitMark, CommitScheduleRest, CommitComplete,
       CommitFail, rows, Fail, Released, Consume
<1>3. CASE CommitBegin \/ CommitReserve \/ CommitApprove \/ CommitConsumeAll \/ CommitConsume
  <2>1. row' = row /\ bundle' = bundle /\ cCopy' = cCopy /\ cPc' # "exec"
    BY <1>3 DEF CommitBegin, CommitReserve, CommitApprove, CommitConsumeAll, CommitConsume, CGoto, Fail, rows
  <2>2. cTodo' \subseteq MemberSet /\ (cPc' = "fail" => cEnd' \in BundleStatus \ {"absent"})
    BY <1>3 DEF CommitBegin, CommitReserve, CommitApprove, CommitConsumeAll, CommitConsume, CGoto, Fail, DueMembers,
                BundleStatus
  <2> QED
    BY <1>1, <1>2, <2>1, <2>2
<1>4. CASE CommitSave
  <2>1. cCopy' \in Record
    BY <1>4, NoBundleType, WithStatus DEF CommitSave, BundleStatus, OpenBundle
  <2> QED
    BY <1>1, <1>2, <1>4, <2>1 DEF CommitSave
<1>5. CASE CommitScheduleAll \/ CommitScheduleRest
  <2>1. CASE Fail("failed") /\ UNCHANGED <<row, bundle>>
    BY <1>1, <1>2, <2>1 DEF Fail, BundleStatus
  <2>2. CASE Fail("partially_committed") /\ UNCHANGED <<row, bundle>>
    BY <1>1, <1>2, <2>2 DEF Fail, BundleStatus, OpenBundle
  <2>3. CASE /\ \E S \in {MemberSet, FutureMembers} : ScheduleMembers(S)
             /\ cPc' \in {"consume", "done"} /\ UNCHANGED <<cTodo, cEnd>>
    <3>1. row' \in [Plans -> RowStatus] /\ bundle' \in Record /\ cCopy' \in Record
      BY <2>3, ScheduleMembersType DEF FutureMembers
    <3> QED
      BY <1>1, <1>2, <2>3, <3>1
  <2> QED
    BY <1>5, <2>1, <2>2, <2>3 DEF CommitScheduleAll, CommitScheduleRest
<1>6. CASE CommitUndo
  <2>1. CASE Fail("unknown") /\ UNCHANGED row
    BY <1>1, <1>2, <1>6, <2>1 DEF CommitUndo, Fail, BundleStatus
  <2>2. ASSUME NEW m \in cTodo, row' = Transition(m, "cancelled"), cTodo' = cTodo \ {m},
               UNCHANGED <<cPc, cCopy, cEnd, resv>>
        PROVE  RowType' /\ RecordType' /\ PlaceType'
    <3>1. row' \in [Plans -> RowStatus]
      BY <2>2, TransitionType DEF RowStatus
    <3> QED
      BY <1>1, <1>2, <1>6, <2>2, <3>1 DEF CommitUndo
  <2> QED
    BY <1>6, <2>1, <2>2 DEF CommitUndo
<1>7. CASE CommitExecute
  <2>1. PICK i \in 1..Len(Members) : Call("saga", Members[i])
    BY <1>7 DEF CommitExecute
  <2>2. xPlan'["saga"] \in MemberSet
    BY <2>1 DEF Call, MemberSet, Control, CallControl, Callers
  <2> QED
    BY <1>1, <1>2, <1>7, <2>2 DEF CommitExecute, CGoto, rows
<1>8. CASE CommitMark
  <2>1. PICK m, status, copy :
           /\ m = xPlan["saga"]
           /\ status = IF xRes["saga"] \in {"refused", "raised"} THEN "unknown" ELSE MemberOutcome(xRes["saga"])
           /\ copy = [cCopy EXCEPT !.mem[m] = status, !.evid[m] = (status = "executed")]
           /\ cCopy' = copy /\ bundle' = copy /\ cTodo' = cTodo \ {m}
           /\ \/ cPc' = "member"
              \/ cPc' = "fail" /\ cEnd' \in {"partially_committed", status} /\ status # "executed"
           /\ cPc = "exec" /\ xSt["saga"] = "done"
    BY <1>8 DEF CommitMark
  <2>2. status \in {"executed", "failed", "unknown"} /\ m \in MemberSet
    BY <2>1 DEF ResultType, Results, MemberOutcome, Callers
  <2>3. status \in MemberStatus /\ (status # "executed" => status \in BundleStatus \ {"absent"})
    BY <2>2 DEF MemberStatus, MemberDone, BundleStatus
  <2>4. copy \in Record
    BY <2>1, <2>2, <2>3 DEF Record
  <2> QED
    BY <1>1, <1>2, <1>8, <2>1, <2>3, <2>4 DEF CommitMark, BundleStatus, OpenBundle
<1>9. CASE CommitComplete \/ CommitFail
  <2>1. bundle' \in Record
    BY <1>9, WithStatus DEF CommitComplete, CommitFail, BundleStatus
  <2> QED
    BY <1>1, <1>2, <1>9, <2>1 DEF CommitComplete, CommitFail, CGoto
<1> QED
  BY <1>3, <1>4, <1>5, <1>6, <1>7, <1>8, <1>9 DEF Saga

LEMMA SagaResults ==
    ASSUME Control, ResultType, PlansFinal, CommitBegin \/ Saga
    PROVE  ResultType'
<1>1. UNCHANGED <<sPc, sPlan, up>>
  BY SagaFrame DEF schedVars, env
<1>2. CASE CommitExecute \/ CommitMark
  <2>1. Return("saga") \/ \E p \in Plans : Call("saga", p)
    BY <1>2, MembersAssumption DEF CommitExecute, CommitMark
  <2> QED
    BY <1>1, <2>1, CalledResults DEF Callers
<1>3. CASE ~CommitExecute /\ ~CommitMark
  <2>1. UNCHANGED execVars
    BY <1>3 DEF CommitBegin, Saga, CommitSave, CommitReserve, CommitApprove, CommitScheduleAll, CommitConsumeAll,
         CommitUndo, CommitConsume, CommitScheduleRest, CommitComplete, CommitFail
  <2> QED
    BY <1>1, <2>1, KeptResults
<1> QED
  BY <1>2, <1>3

LEMMA ProcessStore ==
    ASSUME Control, StoreType, PlansFinal, OutcomesTell', Tick \/ Crash \/ Restart \/ \E fate \in Fates : Befall(fate)
    PROVE  StoreType'
<1>1. EnvType'
  BY TimeAssumption DEF StoreType, EnvType, Tick, Crash, Restart, Befall
<1>2. RowType'
  BY DEF StoreType, RowType, Tick, Crash, Restart, Befall, rows
<1>3. RecordType'
  BY NoBundleType DEF StoreType, RecordType, Tick, Crash, Restart, Befall, rows, schedVars, sagaVars
<1>4. PlaceType'
  <2>1. Len(Members) \in Nat
    BY MembersAssumption
  <2> QED
    BY <2>1 DEF StoreType, PlaceType, Tick, Crash, Restart, Befall, schedVars, sagaVars, execVars
<1>5. ResultType'
  <2>1. CASE Crash
    <3>1. /\ \A c \in Callers : xSt'[c] = "none"
          /\ xRes' \in [Callers -> Results] /\ sPc' = "down"
      BY <2>1 DEF Crash, Results
    <3> QED
      BY <3>1 DEF ResultType, Callers
  <2>2. CASE ~Crash
    BY <2>2 DEF StoreType, ResultType, PlansFinal, Tick, Restart, Befall, schedVars, execVars,
                   env, Callers
  <2> QED
    BY <2>1, <2>2
<1> QED
  BY <1>1, <1>2, <1>3, <1>4, <1>5 DEF StoreType

LEMMA StoreStep == Control /\ StoreType /\ [Next]_vars => StoreType'
<1> SUFFICES ASSUME Control, StoreType, [Next]_vars PROVE StoreType'
  OBVIOUS
<1>1. CASE Next
  <2>1. PlansFinal
    BY <1>1, NextPlansFinal
  <2>0. OutcomesTell'
    BY <1>1, OutcomesStep DEF StoreType
  <2>2. CASE \E c \in Callers : Exec(c)
    BY <2>0, <2>1, <2>2, ExecStore, ExecResults DEF StoreType
  <2>3. CASE Sweep \/ Sched
    BY <2>0, <2>1, <2>3, SchedStore, SchedResults DEF StoreType
  <2>4. CASE CommitBegin \/ Saga
    <3>1. EnvType'
      BY <2>4, SagaFrame DEF StoreType, EnvType, env
    <3> QED
      BY <2>0, <2>1, <2>4, <3>1, SagaStore, SagaResults DEF StoreType
  <2>5. CASE Tool \/ \E op \in Tools, p \in Plans : ToolBegin(op, p)
    BY <2>0, <2>1, <2>5, ToolStore, ToolResults DEF StoreType
  <2> QED
    BY <1>1, <2>0, <2>1, <2>2, <2>3, <2>4, <2>5, ProcessStore DEF Next
<1>2. CASE UNCHANGED vars
  BY <1>2 DEF vars, env, rows, execVars, schedVars, sagaVars, StoreType, EnvType, RowType, RecordType,
              PlaceType, ResultType, OutcomesTell
<1> QED
  BY <1>1, <1>2

LEMMA StoresSound == Spec => [](Control /\ OnceInv /\ StoreType)
<1>1. Init => Control /\ OnceInv /\ StoreType
  BY InitControl, InitOnce, InitStore
<1>2. Control /\ OnceInv /\ StoreType /\ [Next]_vars => (Control /\ OnceInv /\ StoreType)'
  BY OnceStep, StoreStep
<1> QED
  BY <1>1, <1>2, PTL DEF Spec

\* Whoever writes a row or the bundle record, from whatever it read earlier,
\* writes a status of that table's own vocabulary: the saga's _mark_member, the
\* scheduler's record_member_outcome and recovery all translate (scheduler.py,
\* bundle_commit.py).
THEOREM ScheduleTypesKept == Spec => []TypeOK
BY StoresSound, TypesTogether, PTL
=============================================================================
