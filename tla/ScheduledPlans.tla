--------------------------- MODULE ScheduledPlans ---------------------------
(***************************************************************************)
(* Plans that run later, and bundles of plans that run together:            *)
(*   application/scheduler.py            Scheduler.run_due and its loop      *)
(*   application/bundle_commit.py        BundleCommitService.commit (a saga) *)
(*                                       and BundleRecoveryService           *)
(*   application/execution_admission.py  who may execute a bundle member     *)
(*   persistence/repositories.py         ScheduledPlanRepository,            *)
(*                                       BundleCommitRepository              *)
(*   mcp/domotics_server.py              schedule_plan, execute_plan and     *)
(*                                       cancel_scheduled_plan               *)
(* They meet only in durable rows: the plan, its schedule row, the bundle    *)
(* record, the approval reservation.  Every repository method runs in the    *)
(* storage thread, so it is one step and each await around it interleaves.   *)
(* PlanExecutor.execute is cut down to what its callers see (PlanExecution   *)
(* has the rest): claim, adapter call, settlement or exception.              *)
(***************************************************************************)
EXTENDS Naturals, Sequences, FiniteSets

CONSTANTS
    Plans, NoPlan,
    Members,     \* the bundle's members in commit order, a sequence of plans
    Pred,        \* plan -> its all_predecessor_plan_ids
    At,          \* plan -> execute_at; 0 stands for None
    Grace,       \* grace_window
    Tools,       \* MCP operations clients use: "schedule", "execute", "cancel"
    Fates,       \* what may befall the members' grants: "expired", "revoked"
    Fenced,      \* plans carry execution leases, so recovery knows its orphans
    MaxTime, MaxCrashes  \* bounds

MemberSet == {Members[i] : i \in 1..Len(Members)}

ASSUME MembersAssumption ==
    /\ Members \in Seq(Plans)
    /\ \A i, j \in 1..Len(Members) : Members[i] = Members[j] => i = j
    /\ NoPlan \notin Plans

\* commit() refuses a predecessor that is not an earlier member.
ASSUME PredAssumption ==
    /\ Pred \in [Plans -> SUBSET MemberSet]
    /\ \A i \in 1..Len(Members) : Pred[Members[i]] \subseteq {Members[j] : j \in 1..(i - 1)}

ASSUME TimeAssumption ==
    /\ At \in [Plans -> Nat]
    /\ Grace \in Nat /\ MaxTime \in Nat /\ MaxCrashes \in Nat
    /\ Tools \subseteq {"schedule", "execute", "cancel"}
    /\ Fates \subseteq {"expired", "revoked"}
    /\ Fenced \in BOOLEAN

Callers == {"sched", "saga", "tool"}

VARIABLES
    now, crashes,
    grant,     \* the members' approval grants: "valid", "expired", "revoked"
    up,        \* "down", "recovering" (build_runtime), "up"
    \* Durable rows.
    planSt,    \* PlanStatus; PARTIALLY_FAILED is "failed", APPROVED is "ready"
    row,       \* scheduled_plans.status, "absent" without a row
    bundle,    \* the bundle_commits record
    resv,      \* the bundle's approval reservation
    \* PlanExecutor, one call per caller.
    xSt,       \* "none", "called", "acting", "sent", "done"
    xPlan, xRes,
    calls,     \* plan -> executions that reached the adapter
    outc,      \* plan -> what its persisted execution.outcomes amount to
    \* Scheduler loop: sweep, then bundle recovery.
    sPc, sPlan, sTime, sTodo, rCopy, rNext,
    \* BundleCommitService.commit.
    cPc, cCopy, cTodo, cEnd,
    \* One MCP tool call.
    tPc, tPlan, tSeen

rows == <<planSt, row, bundle, resv>>
execVars == <<xSt, xPlan, xRes, calls, outc>>
schedVars == <<sPc, sPlan, sTime, sTodo, rCopy, rNext>>
sagaVars == <<cPc, cCopy, cTodo, cEnd>>
toolVars == <<tPc, tPlan, tSeen>>
env == <<now, crashes, up, grant>>
vars == <<env, rows, execVars, schedVars, sagaVars, toolVars>>

TerminalPlan == {"completed", "failed", "unknown", "cancelled"}
MemberDone == {"executed", "failed", "unknown", "missed", "dependency_failed"}
OpenBundle == {"committing", "scheduled", "partially_committed"}

\* evid: the member's details hold dependency_evidence.
NoBundle == [status |-> "absent",
             mem |-> [m \in MemberSet |-> "pending"],
             evid |-> [m \in MemberSet |-> FALSE]]

InBundle(p) == bundle.status # "absent" /\ p \in MemberSet

Init ==
    /\ now = 1 /\ crashes = 0 /\ up = "up" /\ grant = "valid"
    /\ planSt = [p \in Plans |-> "ready"]
    /\ row = [p \in Plans |-> "absent"]
    /\ bundle = NoBundle /\ resv = "none"
    /\ xSt = [c \in Callers |-> "none"]
    /\ xPlan = [c \in Callers |-> NoPlan]
    /\ xRes = [c \in Callers |-> "none"]
    /\ calls = [p \in Plans |-> 0]
    /\ outc = [p \in Plans |-> "none"]
    /\ sPc = "idle" /\ sPlan = NoPlan /\ sTime = 0 /\ sTodo = {}
    /\ rCopy = NoBundle /\ rNext = 1
    /\ cPc = "idle" /\ cCopy = NoBundle /\ cTodo = {} /\ cEnd = "none"
    /\ tPc = "idle" /\ tPlan = NoPlan /\ tSeen = "none"

\* The grants run out, or a resident or operator revokes the consent.
Befall(fate) ==
    /\ grant = "valid" \/ (grant = "expired" /\ fate = "revoked")
    /\ grant' = fate
    /\ UNCHANGED <<now, crashes, up, rows, execVars, schedVars, sagaVars, toolVars>>

\* A unit of time outlasts the resumption of the saga after its transaction, so
\* the rows it has just inserted do not fall due before it goes on.
Tick ==
    /\ now < MaxTime
    /\ cPc # "consume"
    /\ now' = now + 1
    /\ UNCHANGED <<crashes, up, grant, rows, execVars, schedVars, sagaVars, toolVars>>

-----------------------------------------------------------------------------
(* PlanExecutor.execute as its callers see it. *)

Call(c, p) ==
    /\ xSt' = [xSt EXCEPT ![c] = "called"]
    /\ xPlan' = [xPlan EXCEPT ![c] = p]
    /\ UNCHANGED <<xRes, calls, outc>>

\* The caller has taken the result.
Return(c) ==
    /\ xSt' = [xSt EXCEPT ![c] = "none"]
    /\ xPlan' = [xPlan EXCEPT ![c] = NoPlan]
    /\ xRes' = [xRes EXCEPT ![c] = "none"]
    /\ UNCHANGED <<calls, outc>>

Done(c, res) ==
    /\ xSt' = [xSt EXCEPT ![c] = "done"]
    /\ xRes' = [xRes EXCEPT ![c] = res]
    /\ UNCHANGED <<xPlan, calls>>

\* _verify_predecessors on the persisted record.
PredecessorsVerified(p) ==
    \A q \in Pred[p] : bundle.mem[q] = "executed" /\ bundle.evid[q]

\* Mutant: the grant need not be consumed.
ApprovalUnchecked == TRUE

\* verify_consumed for the members' grants, all issued for this bundle.
ApprovalConsumed == resv = "committed" /\ grant = "valid"

\* ExecutionAdmission.admit and, before a dispatch, revalidate.
Admitted(c, p) ==
    InBundle(p) => /\ c # "tool"
                   /\ PredecessorsVerified(p)
                   /\ ApprovalConsumed

\* Mutant: the claim does not look at the persisted status.
ClaimableAgain(p) == planSt[p] # "executing"

\* claim_for_execution's compare-and-set.
Claimable(p) == planSt[p] = "ready"

ExecClaim(c) ==
    LET p == xPlan[c] IN
    /\ xSt[c] = "called"
    /\ Admitted(c, p) /\ At[p] <= now /\ Claimable(p)
    /\ planSt' = [planSt EXCEPT ![p] = "executing"]
    /\ xSt' = [xSt EXCEPT ![c] = "acting"]
    /\ UNCHANGED <<env, row, bundle, resv, xPlan, xRes, calls, outc, schedVars, sagaVars,
                   toolVars>>

\* A DomainError before the claim: the guards above, stale evidence, expiry.
ExecRefused(c) ==
    /\ xSt[c] = "called"
    /\ Done(c, "refused")
    /\ UNCHANGED <<env, rows, outc, schedVars, sagaVars, toolVars>>

\* adapter.execute for the plan's commands.
ExecSend(c) ==
    LET p == xPlan[c] IN
    /\ xSt[c] = "acting"
    /\ Admitted(c, p)
    /\ xSt' = [xSt EXCEPT ![c] = "sent"]
    /\ calls' = [calls EXCEPT ![p] = @ + 1]
    /\ UNCHANGED <<env, rows, xPlan, xRes, outc, schedVars, sagaVars, toolVars>>

\* _terminal_plan_status; a latch whose release is unconfirmed makes it UNKNOWN.
Settlement(o, released) ==
    CASE ~released -> "unknown"
      [] released /\ o = "confirmed" -> "completed"
      [] OTHER -> o

\* Status and outcomes are settled, and the outcomes returned.  settle_execution
\* raises InvalidTransitionError when somebody else has settled the plan.
ExecFinish(c, o, released) ==
    LET p == xPlan[c] IN
    /\ xSt[c] \in {"acting", "sent"}
    /\ xSt[c] = "acting" => o = "failed"
    /\ IF planSt[p] = "executing"
         THEN /\ planSt' = [planSt EXCEPT ![p] = Settlement(o, released)]
              /\ outc' = [outc EXCEPT ![p] = o]
              /\ Done(c, o)
         ELSE UNCHANGED <<planSt, outc>> /\ Done(c, "refused")
    /\ UNCHANGED <<env, row, bundle, resv, schedVars, sagaVars, toolVars>>

\* Any other exception: _mark_unknown_after_exception, re-raised.
ExecRaise(c) ==
    LET p == xPlan[c] IN
    /\ xSt[c] \in {"acting", "sent"}
    /\ planSt' = [planSt EXCEPT ![p] = IF @ = "executing" THEN "unknown" ELSE @]
    /\ Done(c, "raised")
    /\ UNCHANGED <<env, row, bundle, resv, outc, schedVars, sagaVars, toolVars>>

-----------------------------------------------------------------------------
(* Repository methods. *)

\* ScheduledPlanRepository._transition, reconcile_terminal included: only a
\* pending row moves.
Transition(p, status) == [row EXCEPT ![p] = IF @ = "pending" THEN status ELSE @]
Reconciled(p, status) == row[p] \in {"pending", status}

\* Mutant: an unknown plan's row is failed.
ScheduleStatusCoarse(status) == IF status = "completed" THEN "executed" ELSE "failed"

\* _PLAN_TO_SCHEDULE_STATUS.
ScheduleStatus(status) == IF status = "completed" THEN "executed" ELSE status

\* _aggregate_fulfillment_status.
Aggregate(mem) ==
    LET S == {mem[m] : m \in MemberSet}
        partly(other) == IF "executed" \in S THEN "partially_committed" ELSE other
    IN CASE S = {"executed"} -> "completed"
         [] "pending" \in S -> "committing"
         [] "pending" \notin S /\ "scheduled" \in S -> "scheduled"
         [] S \cap {"pending", "scheduled"} = {} /\ "unknown" \in S -> partly("unknown")
         [] S \cap {"pending", "scheduled", "unknown"} = {} /\ "missed" \in S ->
              IF S = {"missed"} THEN "missed" ELSE "partially_committed"
         [] OTHER -> partly("failed")

\* record_member_outcome raises on conflicting evidence and on a closed bundle;
\* repeated evidence, and a plan outside any bundle, change nothing.
Conflict(p, status) ==
    /\ InBundle(p)
    /\ bundle.mem[p] # status
    /\ bundle.mem[p] \in MemberDone \/ bundle.status \notin OpenBundle
RecordMember(p, status) ==
    IF InBundle(p) /\ bundle.mem[p] \notin MemberDone
      THEN LET mem == [bundle.mem EXCEPT ![p] = status] IN
           bundle' = [status |-> Aggregate(mem), mem |-> mem,
                      evid |-> [bundle.evid EXCEPT ![p] = (status = "executed")]]
      ELSE UNCHANGED bundle

\* ApprovalStore.commit_reservation, repeatable, on the durable reservation; a
\* revoked grant fails it even after it was consumed.
Consumable ==
    \/ resv = "reserved" /\ grant = "valid"
    \/ resv = "committed" /\ grant # "revoked"
Consume == Consumable /\ resv' = "committed"

\* release_reservation.
Released == IF resv = "reserved" THEN "released" ELSE resv

-----------------------------------------------------------------------------
(* Scheduler.run: run_due, then reconcile_runtime. *)

Serving == up = "up"
SGoto(label) == sPc' = label /\ UNCHANGED <<sPlan, sTime, sTodo, rCopy, rNext>>
SchedOnly == UNCHANGED <<env, sagaVars, toolVars>>

\* run_due's snapshot of pending rows that are due.
Sweep ==
    /\ Serving /\ sPc = "idle"
    /\ sPc' = "next" /\ sTime' = now
    /\ sTodo' = {p \in Plans : row[p] = "pending" /\ At[p] <= now}
    /\ UNCHANGED <<sPlan, rCopy, rNext, rows, execVars>>
    /\ SchedOnly

\* The next row, in execute_at order; _reconcile_scheduled_plan first.
SNext(p) ==
    /\ sPc = "next" /\ p \in sTodo
    /\ \A q \in sTodo : At[p] <= At[q]
    /\ sTodo' = sTodo \ {p} /\ sPlan' = p
    /\ IF planSt[p] \in TerminalPlan
         THEN row' = Transition(p, ScheduleStatus(planSt[p])) /\ UNCHANGED sPc
         ELSE sPc' = "inflight" /\ UNCHANGED row
    /\ UNCHANGED <<planSt, bundle, resv, sTime, rCopy, rNext, execVars>>
    /\ SchedOnly

SEnd ==
    /\ sPc = "next" /\ sTodo = {}
    /\ SGoto("rec_plans")
    /\ UNCHANGED <<rows, execVars>> /\ SchedOnly

\* Mutant: no grace window.
OverdueNever(p) == FALSE

\* After the in-flight test: too late, or on to execution.
Overdue(p) == sTime - At[p] > Grace
AfterInflight(p) == IF Overdue(p) THEN "missed" ELSE "evidence"

\* _reconcile_inflight_plan reads the plan ...
SInflight ==
    /\ sPc = "inflight"
    /\ SGoto(IF planSt[sPlan] = "executing" THEN "inflight_mark" ELSE AfterInflight(sPlan))
    /\ UNCHANGED <<rows, execVars>> /\ SchedOnly

\* ... marks it UNKNOWN if it still executes ...
SInflightMark ==
    /\ sPc = "inflight_mark"
    /\ IF planSt[sPlan] = "executing"
         THEN planSt' = [planSt EXCEPT ![sPlan] = "unknown"] /\ SGoto("inflight_row")
         ELSE UNCHANGED planSt /\ SGoto(AfterInflight(sPlan))
    /\ UNCHANGED <<row, bundle, resv, execVars>> /\ SchedOnly

\* ... and settles the row.
SInflightRow ==
    /\ sPc = "inflight_row"
    /\ row' = Transition(sPlan, "unknown")
    /\ SGoto("next")
    /\ UNCHANGED <<planSt, bundle, resv, execVars>> /\ SchedOnly

SMissed ==
    /\ sPc = "missed"
    /\ row' = Transition(sPlan, "missed")
    /\ SGoto("missed_member")
    /\ UNCHANGED <<planSt, bundle, resv, execVars>> /\ SchedOnly

\* A refused record ends the whole sweep here: nothing catches it.
SMissedMember ==
    /\ sPc = "missed_member"
    /\ IF Conflict(sPlan, "missed")
         THEN /\ sPc' = "rec_plans" /\ sTodo' = {}
              /\ UNCHANGED <<bundle, sPlan, sTime, rCopy, rNext>>
         ELSE RecordMember(sPlan, "missed") /\ SGoto("next")
    /\ UNCHANGED <<planSt, row, resv, execVars>> /\ SchedOnly

\* _assert_schedule_evidence (the payload it compares never changes: the
\* reschedule tool always refuses).
StillPending == row[sPlan] = "pending"

SEvidence ==
    /\ sPc = "evidence"
    /\ SGoto(IF StillPending THEN "gate" ELSE "next")
    /\ UNCHANGED <<rows, execVars>> /\ SchedOnly

\* _predecessor_gate: the evidence agrees with the persisted outcomes; the
\* predecessor's own status is not asked for.
GateOpen(p) ==
    InBundle(p) => \A q \in Pred[p] : /\ bundle.mem[q] = "executed" /\ bundle.evid[q]
                                      /\ outc[q] = "confirmed"

SGate ==
    /\ sPc = "gate"
    /\ IF GateOpen(sPlan)
         THEN SGoto("exec") /\ Call("sched", sPlan)
         ELSE SGoto("gate_row") /\ UNCHANGED execVars
    /\ UNCHANGED rows /\ SchedOnly

SGateRow ==
    /\ sPc = "gate_row"
    /\ row' = Transition(sPlan, "failed")
    /\ SGoto("gate_member")
    /\ UNCHANGED <<planSt, bundle, resv, execVars>> /\ SchedOnly

SGateMember ==
    /\ sPc = "gate_member"
    /\ IF Conflict(sPlan, "dependency_failed")
         THEN SGoto("fixup") /\ UNCHANGED bundle
         ELSE RecordMember(sPlan, "dependency_failed") /\ SGoto("next")
    /\ UNCHANGED <<planSt, row, resv, execVars>> /\ SchedOnly

\* execute() returned or raised.  After a DomainError the row stays pending and
\* the next sweep tries again.
SExecEnded ==
    /\ sPc = "exec" /\ xSt["sched"] = "done"
    /\ SGoto(CASE xRes["sched"] = "refused" -> "next"
               [] xRes["sched"] = "raised" -> "fixup"
               [] OTHER -> "complete")
    /\ IF xRes["sched"] \in {"refused", "raised"} THEN Return("sched") ELSE UNCHANGED execVars
    /\ UNCHANGED rows /\ SchedOnly

\* _complete_scheduled_plan.
SComplete ==
    LET status == ScheduleStatus(planSt[sPlan]) IN
    /\ sPc = "complete"
    /\ row' = Transition(sPlan, status)
    /\ IF Reconciled(sPlan, status)
         THEN SGoto("record") /\ UNCHANGED execVars
         ELSE SGoto("fixup") /\ Return("sched")
    /\ UNCHANGED <<planSt, bundle, resv>> /\ SchedOnly

\* Mutant: the execution's own vocabulary is stored.
MemberOutcomeRaw(res) == res

\* _classify_execution, and the same rule in _record_bundle_outcome.
MemberOutcome(res) == IF res = "confirmed" THEN "executed" ELSE res

SRecord ==
    LET status == MemberOutcome(xRes["sched"]) IN
    /\ sPc = "record"
    /\ IF Conflict(sPlan, status)
         THEN SGoto("fixup") /\ UNCHANGED bundle
         ELSE RecordMember(sPlan, status) /\ SGoto("next")
    /\ Return("sched")
    /\ UNCHANGED <<planSt, row, resv>> /\ SchedOnly

\* The generic handler: _reconcile_scheduled_plan once more.
SFixup ==
    /\ sPc = "fixup"
    /\ row' = IF planSt[sPlan] \in TerminalPlan
                THEN Transition(sPlan, ScheduleStatus(planSt[sPlan])) ELSE row
    /\ SGoto("next")
    /\ UNCHANGED <<planSt, bundle, resv, execVars>> /\ SchedOnly

\* PlanRecoveryService.reconcile, without leases: every EXECUTING plan.
Orphan(p) ==
    /\ planSt[p] = "executing"
    /\ Fenced => \A c \in Callers : ~(xPlan[c] = p /\ xSt[c] \in {"acting", "sent"})
RecPlans ==
    /\ sPc = "rec_plans"
    /\ planSt' = [p \in Plans |-> IF Orphan(p) THEN "unknown" ELSE planSt[p]]
    /\ SGoto("rec_list")
    /\ UNCHANGED <<row, bundle, resv, execVars>> /\ SchedOnly

\* Mutant: a bundle still COMMITTING is left to its saga.
RecoverableCommitted == bundle.status \in {"scheduled", "partially_committed"}

\* list_non_terminal.
Recoverable == bundle.status \in OpenBundle

\* recover_orphaned_bundles reads the open bundles ...
RecList ==
    /\ sPc = "rec_list"
    /\ IF Recoverable
         THEN sPc' = "rec_member" /\ rCopy' = bundle /\ rNext' = 1
         ELSE sPc' = "rec_done" /\ UNCHANGED <<rCopy, rNext>>
    /\ UNCHANGED <<sPlan, sTime, sTodo, rows, execVars>> /\ SchedOnly

\* Mutant: a plan that was started is taken to have been executed.
RecoveredOptimistic(m) ==
    IF row[m] = "absent" /\ planSt[m] \in {"executing", "completed", "unknown"}
      THEN "executed" ELSE "failed"

\* ... each member's rows ...
RecoveredMember(m) ==
    CASE rCopy.mem[m] = "dependency_failed" -> "dependency_failed"
      [] rCopy.mem[m] # "dependency_failed" /\ row[m] # "absent" ->
           (CASE row[m] = "pending" -> "scheduled"
              [] row[m] = "executed" -> "executed"
              [] row[m] = "missed" -> "missed"
              [] OTHER -> "failed")
      [] OTHER -> (CASE planSt[m] = "completed" -> "executed"
                     [] planSt[m] \in {"failed", "cancelled"} -> "failed"
                     [] OTHER -> "unknown")
RecMember ==
    /\ sPc = "rec_member" /\ rNext <= Len(Members)
    /\ rCopy' = [rCopy EXCEPT !.mem[Members[rNext]] = RecoveredMember(Members[rNext])]
    /\ rNext' = rNext + 1
    /\ UNCHANGED <<sPc, sPlan, sTime, sTodo, rows, execVars>> /\ SchedOnly

\* ... and saves its own conclusion.
RecoveredStatus(mem) ==
    LET S == {mem[m] : m \in MemberSet}
        committed == S \cap {"scheduled", "executed"} # {}
        partly(other) == IF committed THEN "partially_committed" ELSE other
    IN CASE "unknown" \in S -> partly("unknown")
         [] "unknown" \notin S /\ "missed" \in S ->
              IF S = {"missed"} THEN "missed" ELSE "partially_committed"
         [] S \cap {"unknown", "missed"} = {} /\ S \cap {"failed", "dependency_failed"} # {} ->
              partly("failed")
         [] OTHER -> IF S = {"scheduled"} THEN "scheduled" ELSE "completed"
RecSave ==
    /\ sPc = "rec_member" /\ rNext > Len(Members)
    /\ bundle' = [rCopy EXCEPT !.status = RecoveredStatus(rCopy.mem)]
    /\ SGoto("rec_settle")
    /\ UNCHANGED <<planSt, row, resv, execVars>> /\ SchedOnly

\* The reservation is released, or consumed if anything may need its authority.
\* A commit_reservation that fails raises: the loop survives that, build_runtime
\* does not.
RecSettle ==
    LET needed == \E m \in MemberSet : rCopy.mem[m] \in {"executed", "unknown", "scheduled"} IN
    /\ sPc = "rec_settle"
    /\ \/ /\ ~needed
          /\ resv' = Released
          /\ sPc' = "rec_done" /\ UNCHANGED up
       \/ /\ needed
          /\ \/ resv = "none" /\ UNCHANGED resv
             \/ Consume
          /\ sPc' = "rec_done" /\ UNCHANGED up
       \/ /\ needed /\ resv # "none" /\ ~Consumable
          /\ IF up = "up" THEN sPc' = "rec_done" /\ UNCHANGED up
                          ELSE sPc' = "down" /\ up' = "down"
          /\ UNCHANGED resv
    /\ UNCHANGED <<now, crashes, grant, planSt, row, bundle, execVars, sPlan, sTime, sTodo,
                   rCopy, rNext, sagaVars, toolVars>>

\* The loop sleeps; at startup, the runtime begins to serve.
RecDone ==
    /\ sPc = "rec_done"
    /\ sPc' = "idle" /\ up' = "up"
    /\ sPlan' = NoPlan /\ sTime' = 0 /\ sTodo' = {} /\ rCopy' = NoBundle /\ rNext' = 1
    /\ UNCHANGED <<now, crashes, grant, rows, execVars, sagaVars, toolVars>>

-----------------------------------------------------------------------------
(* BundleCommitService.commit. *)

CGoto(label) == cPc' = label /\ UNCHANGED <<cCopy, cTodo, cEnd>>
SagaOnly == UNCHANGED <<env, schedVars, toolVars>>

\* Preflight, on plans cached in memory whose status may be stale; a second
\* commit of the digest returns the record instead.
CommitBegin ==
    /\ Serving /\ cPc = "idle" /\ Members # <<>>
    /\ bundle.status = "absent"
    /\ CGoto("save")
    /\ UNCHANGED <<rows, execVars>> /\ SagaOnly

\* The record is durable before anything else happens.
CommitSave ==
    /\ cPc = "save"
    /\ cCopy' = [NoBundle EXCEPT !.status = "committing"]
    /\ bundle' = cCopy'
    /\ cPc' = "reserve"
    /\ UNCHANGED <<cTodo, cEnd, planSt, row, resv, execVars>> /\ SagaOnly

\* _finish_failure gives an uncommitted reservation back at once ...
Fail(status) ==
    /\ cPc' = "fail" /\ cEnd' = status
    /\ resv' = Released
    /\ UNCHANGED <<cCopy, cTodo>>

\* _reserve_approvals reserves every grant, or none ...
CommitReserve ==
    /\ cPc = "reserve"
    /\ \/ grant = "valid" /\ resv' = "reserved" /\ CGoto("approve")
       \/ Fail("failed")
    /\ UNCHANGED <<planSt, row, bundle, execVars>> /\ SagaOnly

\* ... and saves each approval; then _assert_all_executable.  Either may fail.
CommitApprove ==
    /\ cPc = "approve"
    /\ \/ CGoto("split") /\ UNCHANGED resv
       \/ Fail("failed")
    /\ UNCHANGED <<planSt, row, bundle, execVars>> /\ SagaOnly

DueMembers == {m \in MemberSet : At[m] <= now}
RowsFree(S) == \A m \in S : row[m] = "absent"

\* schedule_members_transaction: rows and record in one transaction.
ScheduleMembers(S) ==
    LET copy == [cCopy EXCEPT !.status = "scheduled",
                              !.mem = [m \in MemberSet |-> IF m \in S THEN "scheduled" ELSE @[m]]]
    IN /\ row' = [p \in Plans |-> IF p \in S THEN "pending" ELSE row[p]]
       /\ bundle' = copy /\ cCopy' = copy

\* Nothing is due: schedule all, then consume the grants.
CommitScheduleAll ==
    /\ cPc = "split" /\ DueMembers = {}
    /\ IF RowsFree(MemberSet)
         THEN ScheduleMembers(MemberSet) /\ cPc' = "consume" /\ UNCHANGED <<cTodo, cEnd, resv>>
         ELSE Fail("failed") /\ UNCHANGED <<row, bundle>>
    /\ UNCHANGED <<planSt, execVars>> /\ SagaOnly

CommitConsumeAll ==
    /\ cPc = "consume"
    /\ \/ Consume /\ cPc' = "done" /\ UNCHANGED <<cCopy, cTodo, cEnd>>
       \/ ~Consumable /\ cPc' = "undo" /\ cTodo' = MemberSet /\ UNCHANGED <<cCopy, cEnd, resv>>
    /\ UNCHANGED <<planSt, row, bundle, execVars>> /\ SagaOnly

\* Unconsumed: the rows are cancelled one by one.
CommitUndo ==
    /\ cPc = "undo"
    /\ IF cTodo = {}
         THEN Fail("unknown") /\ UNCHANGED row
         ELSE \E m \in cTodo : /\ row' = Transition(m, "cancelled")
                               /\ cTodo' = cTodo \ {m}
                               /\ UNCHANGED <<cPc, cCopy, cEnd, resv>>
    /\ UNCHANGED <<planSt, bundle, execVars>> /\ SagaOnly

\* Something is due: consume first.
CommitConsume ==
    /\ cPc = "split" /\ DueMembers # {}
    /\ \/ Consume /\ cPc' = "member" /\ cTodo' = DueMembers /\ UNCHANGED <<cCopy, cEnd>>
       \/ ~Consumable /\ Fail("unknown")
    /\ UNCHANGED <<planSt, row, bundle, execVars>> /\ SagaOnly

\* Due members run in order, each with a fresh aggregate capability.
CommitExecute ==
    /\ cPc = "member"
    /\ \E i \in 1..Len(Members) :
          /\ Members[i] \in cTodo
          /\ \A j \in 1..(i - 1) : Members[j] \notin cTodo
          /\ Call("saga", Members[i])
    /\ CGoto("exec")
    /\ UNCHANGED rows /\ SagaOnly

\* _mark_member saves the whole record; the first member that is not EXECUTED
\* ends the saga.
CommitMark ==
    LET m == xPlan["saga"]
        res == xRes["saga"]
        status == IF res \in {"refused", "raised"} THEN "unknown" ELSE MemberOutcome(res)
        copy == [cCopy EXCEPT !.mem[m] = status, !.evid[m] = (status = "executed")]
        partly == \E q \in MemberSet : copy.mem[q] = "executed" IN
    /\ cPc = "exec" /\ xSt["saga"] = "done"
    /\ cCopy' = copy /\ bundle' = copy
    /\ cTodo' = cTodo \ {m}
    /\ IF status = "executed"
         THEN cPc' = "member" /\ UNCHANGED cEnd
         ELSE cPc' = "fail" /\ cEnd' = IF partly THEN "partially_committed" ELSE status
    /\ Return("saga")
    /\ UNCHANGED <<planSt, row, resv>> /\ SagaOnly

FutureMembers == {m \in MemberSet : cCopy.mem[m] = "pending"}

CommitScheduleRest ==
    /\ cPc = "member" /\ cTodo = {} /\ FutureMembers # {}
    /\ IF RowsFree(FutureMembers)
         THEN ScheduleMembers(FutureMembers) /\ cPc' = "done" /\ UNCHANGED <<cTodo, cEnd, resv>>
         ELSE Fail("partially_committed") /\ UNCHANGED <<row, bundle>>
    /\ UNCHANGED <<planSt, execVars>> /\ SagaOnly

CommitComplete ==
    /\ cPc = "member" /\ cTodo = {} /\ FutureMembers = {}
    /\ bundle' = [cCopy EXCEPT !.status = "completed"]
    /\ CGoto("done")
    /\ UNCHANGED <<planSt, row, resv, execVars>> /\ SagaOnly

\* ... and saves the status.
CommitFail ==
    /\ cPc = "fail"
    /\ bundle' = [cCopy EXCEPT !.status = cEnd]
    /\ CGoto("done")
    /\ UNCHANGED <<planSt, row, resv, execVars>> /\ SagaOnly

-----------------------------------------------------------------------------
(* MCP tools, one call at a time. *)

ToolOnly == UNCHANGED <<env, schedVars, sagaVars>>
TGoto(label) == tPc' = label /\ UNCHANGED <<tPlan, tSeen>>
TEnd == tPc' = "idle" /\ tPlan' = NoPlan /\ tSeen' = "none"

\* _resolve_plan and _admit_mcp_operation.
ToolBegin(op, p) ==
    /\ Serving /\ tPc = "idle"
    /\ ~InBundle(p)
    /\ tPc' = op /\ tPlan' = p /\ tSeen' = planSt[p]
    /\ UNCHANGED <<rows, execVars>> /\ ToolOnly

\* schedule_plan: insert the row ...
ToolSchedule ==
    /\ tPc = "schedule"
    /\ IF row[tPlan] = "absent" /\ ~InBundle(tPlan)
         THEN row' = [row EXCEPT ![tPlan] = "pending"] /\ TGoto("persist")
         ELSE UNCHANGED row /\ TEnd
    /\ UNCHANGED <<planSt, bundle, resv, execVars>> /\ ToolOnly

\* ... and save the plan; if its status has moved on, withdraw the row.
ToolPersist ==
    /\ tPc = "persist"
    /\ row' = IF planSt[tPlan] # tSeen /\ ~InBundle(tPlan)
                THEN Transition(tPlan, "cancelled") ELSE row
    /\ TEnd
    /\ UNCHANGED <<planSt, bundle, resv, execVars>> /\ ToolOnly

ToolExecute ==
    /\ tPc = "execute"
    /\ Call("tool", tPlan)
    /\ TGoto("exec")
    /\ UNCHANGED rows /\ ToolOnly

ToolExecEnded ==
    /\ tPc = "exec" /\ xSt["tool"] = "done"
    /\ Return("tool") /\ TEnd
    /\ UNCHANGED rows /\ ToolOnly

\* cancel_scheduled_plan: Scheduler.cancel on the row ...
ToolCancel ==
    /\ tPc = "cancel"
    /\ IF row[tPlan] = "pending" /\ ~InBundle(tPlan)
         THEN row' = Transition(tPlan, "cancelled") /\ TGoto("cancel_plan")
         ELSE UNCHANGED row /\ TEnd
    /\ UNCHANGED <<planSt, bundle, resv, execVars>> /\ ToolOnly

\* ... then PlanService.cancel and save, each guarded by assert_plan_transition.
CancelOpen(status) == status \in {"ready", "executing"}
ToolCancelPlan ==
    /\ tPc = "cancel_plan"
    /\ planSt' = IF CancelOpen(tSeen) /\ CancelOpen(planSt[tPlan])
                   THEN [planSt EXCEPT ![tPlan] = "cancelled"] ELSE planSt
    /\ TEnd
    /\ UNCHANGED <<row, bundle, resv, execVars>> /\ ToolOnly

-----------------------------------------------------------------------------
(* The process. *)

Crash ==
    /\ up # "down" /\ crashes < MaxCrashes
    /\ crashes' = crashes + 1 /\ up' = "down"
    /\ xSt' = [c \in Callers |-> "none"]
    /\ xPlan' = [c \in Callers |-> NoPlan]
    /\ xRes' = [c \in Callers |-> "none"]
    /\ sPc' = "down" /\ sPlan' = NoPlan /\ sTime' = 0 /\ sTodo' = {}
    /\ rCopy' = NoBundle /\ rNext' = 1
    /\ cPc' = "idle" /\ cCopy' = NoBundle /\ cTodo' = {} /\ cEnd' = "none"
    /\ tPc' = "idle" /\ tPlan' = NoPlan /\ tSeen' = "none"
    /\ UNCHANGED <<now, grant, rows, calls, outc>>

\* build_runtime: plan recovery, bundle recovery, then service.
Restart ==
    /\ up = "down"
    /\ up' = "recovering" /\ sPc' = "rec_plans"
    /\ UNCHANGED <<now, crashes, grant, rows, execVars, sPlan, sTime, sTodo, rCopy, rNext,
                   sagaVars, toolVars>>

Exec(c) ==
    \/ ExecClaim(c) \/ ExecRefused(c) \/ ExecSend(c) \/ ExecRaise(c)
    \/ \E o \in {"confirmed", "failed", "unknown"}, released \in BOOLEAN : ExecFinish(c, o, released)

Sched ==
    \/ \E p \in Plans : SNext(p)
    \/ SEnd \/ SInflight \/ SInflightMark \/ SInflightRow \/ SMissed \/ SMissedMember
    \/ SEvidence \/ SGate \/ SGateRow \/ SGateMember \/ SExecEnded \/ SComplete \/ SRecord
    \/ SFixup \/ RecPlans \/ RecList \/ RecMember \/ RecSave \/ RecSettle \/ RecDone

Saga ==
    \/ CommitSave \/ CommitReserve \/ CommitApprove \/ CommitScheduleAll \/ CommitConsumeAll \/ CommitUndo
    \/ CommitConsume \/ CommitExecute \/ CommitMark \/ CommitScheduleRest \/ CommitComplete
    \/ CommitFail

Tool == ToolSchedule \/ ToolPersist \/ ToolExecute \/ ToolExecEnded \/ ToolCancel \/ ToolCancelPlan

Next ==
    \/ Tick \/ Crash \/ Restart \/ Sweep \/ Sched \/ CommitBegin \/ Saga \/ Tool
    \/ \E c \in Callers : Exec(c)
    \/ \E fate \in Fates : Befall(fate)
    \/ \E op \in Tools, p \in Plans : ToolBegin(op, p)

Spec == Init /\ [][Next]_vars

\* Time passes, every task is run, the loop sweeps forever, and the service
\* manager restarts a dead process.  Nobody is obliged to call a tool.
Fairness ==
    /\ WF_vars(Tick) /\ WF_vars(Restart) /\ WF_vars(Sweep) /\ WF_vars(Sched)
    /\ WF_vars(Saga) /\ WF_vars(Tool)
    /\ \A c \in Callers : WF_vars(Exec(c))

FairSpec == Spec /\ Fairness
-----------------------------------------------------------------------------
(* Properties. *)

MemberStatus == {"pending", "scheduled"} \cup MemberDone
BundleStatus == {"absent", "completed", "failed", "unknown", "missed"} \cup OpenBundle
Record == [status : BundleStatus, mem : [MemberSet -> MemberStatus], evid : [MemberSet -> BOOLEAN]]

\* Every variable keeps its type: in particular the bundle record only holds
\* member and bundle statuses of its own vocabulary, whoever wrote it.
TypeOK ==
    /\ now \in Nat /\ crashes \in 0..MaxCrashes
    /\ up \in {"down", "recovering", "up"} /\ grant \in {"valid", "expired", "revoked"}
    /\ planSt \in [Plans -> {"ready", "executing"} \cup TerminalPlan]
    /\ row \in [Plans -> {"absent", "pending", "executed", "failed", "unknown", "missed", "cancelled"}]
    /\ {bundle, rCopy, cCopy} \subseteq Record
    /\ resv \in {"none", "reserved", "committed", "released"}
    /\ xSt \in [Callers -> {"none", "called", "acting", "sent", "done"}]
    /\ xPlan \in [Callers -> Plans \cup {NoPlan}]
    /\ calls \in [Plans -> Nat]
    /\ outc \in [Plans -> {"none", "confirmed", "failed", "unknown"}]
    /\ sTodo \subseteq Plans /\ cTodo \subseteq MemberSet
    /\ rNext \in 1..(Len(Members) + 1)

\* A plan reaches the adapter through one execution at most, whichever of the
\* scheduler, the saga, a tool call, a later sweep or a restart gets to it.
DispatchedOnce == \A p \in Plans : calls[p] <= 1

\* The adapter is called for a bundle member only after every command of each of
\* its predecessors was confirmed, "allowed=False MUST result in zero adapter calls
\* for this plan" (_predecessor_gate); and a member is EXECUTED in the bundle record
\* only if its persisted outcomes are, although the saga, the scheduler and recovery
\* all write the record from what they read earlier.  The predecessor's plan may be
\* UNKNOWN all the same: a latch whose release is unconfirmed stops no successor.
MembersAreConfirmed ==
    /\ \A c \in {"sched", "saga"} :
         xSt[c] = "sent" => \A q \in Pred[xPlan[c]] : outc[q] = "confirmed"
    /\ \A m \in MemberSet : bundle.mem[m] = "executed" => outc[m] = "confirmed"

\* A grant acts only once it is consumed, and grants that were given back have
\* authorised nothing: while the reservation is not committed no member of the
\* bundle is on its way to the adapter, and none has been there.
AuthorityPrecedesEffect ==
    \A m \in MemberSet : InBundle(m) /\ resv # "committed" => calls[m] = 0

\* A settled schedule row tells what happened to its plan: executed and unknown
\* agree with the plan, a failed row has a failed plan or no adapter call, and a
\* missed or cancelled one has no adapter call.
RowIsHonest ==
    \A p \in Plans :
       /\ row[p] = "executed" => planSt[p] = "completed"
       /\ row[p] = "unknown" => planSt[p] = "unknown"
       /\ row[p] = "failed" => planSt[p] = "failed" \/ calls[p] = 0
       /\ row[p] \in {"missed", "cancelled"} => calls[p] = 0

\* Every scheduled plan is eventually executed, refused for good or missed, as
\* long as its grants last (a grant that runs out can keep the runtime down, see
\* RuntimeComesUp).
RowSettles ==
    \A p \in Plans :
       (row[p] = "pending" /\ grant = "valid") ~> (row[p] # "pending" \/ grant # "valid")

\* No bundle whose grants last stays COMMITTING: the saga ends it or a recovery
\* pass does.
BundleSettles ==
    (bundle.status = "committing" /\ grant = "valid")
        ~> (bundle.status # "committing" \/ grant # "valid")

\* A scheduled plan is cancelled before it executes, or not at all.
CancelledPlanNeverActed == \A p \in Plans : planSt[p] = "cancelled" => calls[p] = 0

\* A runtime that stopped comes up again: recovery reconciles what it finds.
RuntimeComesUp == (up # "up") ~> (up = "up")
=============================================================================
