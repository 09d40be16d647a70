---------------------------- MODULE PlanExecution ----------------------------
(***************************************************************************)
(* One deployment's physical execution path:                                *)
(*   application/executor.py       PlanExecutor: admit, claim, preflight,    *)
(*                                 per-command dispatch, outcome, settlement *)
(*   application/coordination.py   FencingGuard, and the lease coordinator   *)
(*   application/etcd_coordination.py    behind it                           *)
(*   persistence/coordination.py   PhysicalIntentRepository, the ledger      *)
(*   persistence/repositories.py   PlanRepository, RuntimeOwnership          *)
(*   application/recovery.py       PlanRecoveryService, at startup and after *)
(*                                 every scheduler sweep                     *)
(* Hosts may crash, restart, lose their lease, or be closed; execute() calls *)
(* may be cancelled at any await.  A repository method is one transaction    *)
(* and so one step; every await between two of them is a place to interleave.*)
(***************************************************************************)
EXTENDS Naturals, FiniteSets

CONSTANTS
    Hosts, NoHost,   \* runtimes of the deployment
    Attempts,        \* calls of PlanExecutor.execute
    NoAttempt,
    Plans, NoPlan,
    NumCmds,         \* commands per plan
    Keys,            \* idempotency keys of the household
    KeyOf,           \* plan -> command index -> idempotency key
    LatchedCmd,      \* plan -> index of its control-takeover command, 0 if none
    Fenced,          \* multi-host: fencing guard and intent ledger present
    DurablePlans,    \* a plan_repository is bound
    MaxEpoch         \* bound on lease acquisitions, that is on (re)starts

Cmds == 1..NumCmds

\* PlanService.validate refuses a plan that repeats an idempotency key.
ASSUME KeyAssumption ==
    /\ NumCmds \in Nat \ {0}
    /\ KeyOf \in [Plans -> [Cmds -> Keys]]
    /\ \A p \in Plans : \A i, j \in Cmds : KeyOf[p][i] = KeyOf[p][j] => i = j

ASSUME ConstantsAssumption ==
    /\ LatchedCmd \in [Plans -> 0..NumCmds]
    /\ Fenced \in BOOLEAN
    /\ DurablePlans \in BOOLEAN
    /\ MaxEpoch \in Nat
    /\ NoHost \notin Hosts /\ NoAttempt \notin Attempts /\ NoPlan \notin Plans

VARIABLES
    \* Coordination.
    owner,      \* active row of runtime_ownership
    lease,      \* epoch in etcd's lease key, 0 when the key is absent
    epoch,      \* etcd's epoch key, never deleted
    phase,      \* host -> "down", "starting", "recovering", "up", "closing"
    token,      \* host -> epoch of its FencingGuard's token, 0 without one
    lost,       \* host -> FencingGuard.lost
    \* Durable rows.
    planSt,     \* plan -> persisted PlanStatus
    planLease,  \* plan -> fencing_epoch of its execution_lease, 0 without one
    rowLapsed,  \* plan -> the expires_at persisted with that lease has passed
    ledger,     \* key -> physical_intents row
    \* execute() calls.
    pc, aHost, aPlan,
    cmd,        \* index of the command being processed
    cancel,     \* _ExecutionAttempt.cancel_requested
    sent,       \* _ExecutionAttempt.sent_any
    held,       \* takeover_first_command_id is set
    intent,     \* "none", "owned" (ACQUIRED), "replay_ok", "replay_no"
    out,        \* attempt -> command -> ExecutionStatus, "none" before
    verdict,    \* the terminal PlanStatus handed to settle_execution
    \* The physical side, as an observer of the adapter sees it.
    calls,      \* key -> number of adapter.execute calls
    reply,      \* key -> what became of the last call
    writer,     \* key -> plan of the last call
    stale,      \* attempt -> calls it made without holding the current lease
    adrift      \* plans left EXECUTING by an attempt that storage failed

coordVars == <<owner, lease, epoch, phase, token, lost>>
rowVars == <<planSt, planLease, rowLapsed, ledger>>
attemptVars == <<pc, aHost, aPlan, cmd, cancel, sent, held, intent, out, verdict>>
worldVars == <<calls, reply, writer, stale, adrift>>
vars == <<coordVars, rowVars, attemptVars, worldVars>>

Claimable == {"ready"}  \* READY or APPROVED, which execution does not tell apart
Terminal == {"completed", "partially_failed", "failed", "unknown", "cancelled"}
PlanStatuses == Claimable \cup {"executing"} \cup Terminal

IntentStatuses == {"absent", "dispatching", "acknowledged", "confirmed", "rejected", "unknown"}
NoRow == [status |-> "absent", plan |-> NoPlan, cmd |-> 0, attempt |-> NoAttempt, epoch |-> 0]

OutcomeStatuses == {"none", "confirmed", "rejected", "unknown", "unavailable"}

\* Attempts whose task runs; the steps from "fence" to "wait" run in the lane.
InLane == {"fence", "ledger", "send", "wait"}
Claimed == {"preflight", "takeover", "command", "queued", "acked", "refused", "readback",
            "outcome", "release", "settle", "except"} \cup InLane
Running == {"admit", "claim"} \cup Claimed
Ended == {"idle", "done"}

Init ==
    /\ owner = NoHost /\ lease = 0 /\ epoch = 0
    /\ phase = [h \in Hosts |-> "down"]
    /\ token = [h \in Hosts |-> 0]
    /\ lost = [h \in Hosts |-> FALSE]
    /\ planSt = [p \in Plans |-> "ready"]
    /\ planLease = [p \in Plans |-> 0]
    /\ rowLapsed = [p \in Plans |-> FALSE]
    /\ ledger = [k \in Keys |-> NoRow]
    /\ pc = [a \in Attempts |-> "idle"]
    /\ aHost = [a \in Attempts |-> NoHost]
    /\ aPlan = [a \in Attempts |-> NoPlan]
    /\ cmd = [a \in Attempts |-> 1]
    /\ cancel = [a \in Attempts |-> FALSE]
    /\ sent = [a \in Attempts |-> FALSE]
    /\ held = [a \in Attempts |-> FALSE]
    /\ intent = [a \in Attempts |-> "none"]
    /\ out = [a \in Attempts |-> [i \in Cmds |-> "none"]]
    /\ verdict = [a \in Attempts |-> "none"]
    /\ calls = [k \in Keys |-> 0]
    /\ reply = [k \in Keys |-> "none"]
    /\ writer = [k \in Keys |-> NoPlan]
    /\ stale = [a \in Attempts |-> 0]
    /\ adrift = {}

-----------------------------------------------------------------------------
(* Hosts, lease and time. *)

\* EtcdHttpLeaseCoordinator.validate: the lease key still names this token.  Its
\* other test, the local clock against expires_at, can fail at any time and so
\* only adds refusals, which every fenced step below allows anyway.
Current(h) == lease = token[h]

\* FencingGuard.assert_writable.
Writable(h) == ~lost[h] /\ Current(h)

\* build_runtime: take the ownership row, then a lease with the next epoch.
\* (A refused lease makes startup give the row back: no change.)
StartHost(h) ==
    /\ phase[h] = "down"
    /\ owner = NoHost
    /\ Fenced => lease = 0
    /\ epoch < MaxEpoch
    /\ owner' = h
    /\ epoch' = epoch + 1
    /\ lease' = IF Fenced THEN epoch + 1 ELSE 0
    /\ token' = [token EXCEPT ![h] = IF Fenced THEN epoch + 1 ELSE 0]
    /\ phase' = [phase EXCEPT ![h] = "starting"]
    /\ UNCHANGED <<lost, rowVars, attemptVars, worldVars>>

\* Mutant: an expired lease is enough, whoever holds it.
OrphanedIgnoringEpoch(h, p) == planSt[p] = "executing" /\ (Fenced => rowLapsed[p])

\* PlanRecoveryService.reconcile: what host h takes for an orphan.
Orphaned(h, p) ==
    /\ planSt[p] = "executing"
    /\ Fenced => /\ planLease[p] # 0
                 /\ rowLapsed[p]
                 /\ planLease[p] < token[h]

\* recover_orphaned_plans at startup.
RecoverPlans(h) ==
    /\ phase[h] = "starting"
    /\ planSt' = [p \in Plans |-> IF Orphaned(h, p) THEN "unknown" ELSE planSt[p]]
    /\ adrift' = {p \in adrift : ~Orphaned(h, p)}
    /\ phase' = [phase EXCEPT ![h] = "recovering"]
    /\ UNCHANGED <<owner, lease, epoch, token, lost, planLease, rowLapsed, ledger,
                   attemptVars, calls, reply,
                   writer, stale>>

\* Mutant: in-flight rows are reopened instead of closed as unknown.
ReopenRow(h, row) ==
    IF row.status \in {"dispatching", "acknowledged"} /\ (Fenced => row.epoch < token[h])
      THEN NoRow ELSE row

\* One row of PhysicalIntentRepository.recover_inflight.
RecoverRow(h, row) ==
    IF row.status \in {"dispatching", "acknowledged"} /\ (Fenced => row.epoch < token[h])
      THEN [row EXCEPT !.status = "unknown"] ELSE row

\* recover_inflight at startup; the runtime then serves requests.
RecoverIntents(h) ==
    /\ phase[h] = "recovering"
    /\ ledger' = [k \in Keys |-> RecoverRow(h, ledger[k])]
    /\ phase' = [phase EXCEPT ![h] = "up"]
    /\ UNCHANGED <<owner, lease, epoch, token, lost, planSt, planLease, rowLapsed,
                   attemptVars, worldVars>>

\* reconcile_runtime, run by the scheduler loop after every sweep.
PeriodicRecovery(h, p) ==
    /\ phase[h] \in {"up", "closing"}
    /\ Orphaned(h, p)
    /\ planSt' = [planSt EXCEPT ![p] = "unknown"]
    /\ adrift' = adrift \ {p}
    /\ UNCHANGED <<coordVars, planLease, rowLapsed, ledger, attemptVars, calls, reply,
                   writer, stale>>

\* run_coordination_supervisor: a renewal that fails, for a changed lease key or
\* an unreachable etcd, marks the guard lost for good.  (One that succeeds only
\* moves expires_at.)
RenewFails(h) ==
    /\ Fenced /\ phase[h] # "down" /\ ~lost[h]
    /\ lost' = [lost EXCEPT ![h] = TRUE]
    /\ UNCHANGED <<owner, lease, epoch, phase, token, rowVars, attemptVars, worldVars>>

\* Time: etcd drops an unrenewed lease, and the clock passes the expires_at
\* stored in a plan's row.
ExpireLease ==
    /\ lease # 0
    /\ lease' = 0
    /\ UNCHANGED <<owner, epoch, phase, token, lost, rowVars, attemptVars, worldVars>>

LapseRow(p) ==
    /\ planSt[p] = "executing" /\ planLease[p] # 0 /\ ~rowLapsed[p]
    /\ rowLapsed' = [rowLapsed EXCEPT ![p] = TRUE]
    /\ UNCHANGED <<coordVars, planSt, planLease, ledger, attemptVars, worldVars>>

\* The tasks in A are gone, and their locals with them.
EndTasks(A) ==
    /\ pc' = [a \in Attempts |-> IF a \in A THEN "done" ELSE pc[a]]
    /\ aHost' = [a \in Attempts |-> IF a \in A THEN NoHost ELSE aHost[a]]
    /\ aPlan' = [a \in Attempts |-> IF a \in A THEN NoPlan ELSE aPlan[a]]
    /\ cmd' = [a \in Attempts |-> IF a \in A THEN 1 ELSE cmd[a]]
    /\ cancel' = [a \in Attempts |-> cancel[a] /\ a \notin A]
    /\ sent' = [a \in Attempts |-> sent[a] /\ a \notin A]
    /\ held' = [a \in Attempts |-> held[a] /\ a \notin A]
    /\ intent' = [a \in Attempts |-> IF a \in A THEN "none" ELSE intent[a]]
    /\ out' = [a \in Attempts |-> IF a \in A THEN [i \in Cmds |-> "none"] ELSE out[a]]
    /\ verdict' = [a \in Attempts |-> IF a \in A THEN "none" ELSE verdict[a]]

\* Bound: the incarnation that used the last start neither crashes nor closes,
\* so that what needs a later runtime still has one.
LastStart(h) == epoch = MaxEpoch /\ (Fenced => token[h] = epoch)

\* The process dies: its tasks vanish, its rows stay.
Crash(h) ==
    /\ phase[h] # "down" /\ ~LastStart(h)
    /\ phase' = [phase EXCEPT ![h] = "down"]
    /\ token' = [token EXCEPT ![h] = 0]
    /\ lost' = [lost EXCEPT ![h] = FALSE]
    /\ EndTasks({a \in Attempts : aHost[a] = h})
    /\ UNCHANGED <<owner, lease, epoch, rowVars, worldVars>>

\* release_stale by an administrator.  SQLite's process lock refuses it while
\* the owner lives; the PostgreSQL control plane has no such lock.
ReleaseStaleOwner ==
    /\ owner # NoHost
    /\ ~Fenced => phase[owner] = "down"
    /\ owner' = NoHost
    /\ UNCHANGED <<lease, epoch, phase, token, lost, rowVars, attemptVars, worldVars>>

\* PlanExecutor.close: no new calls, cancellation requested of the active ones.
CloseHost(h) ==
    /\ phase[h] = "up" /\ ~LastStart(h)
    /\ phase' = [phase EXCEPT ![h] = "closing"]
    /\ cancel' = [a \in Attempts |-> cancel[a] \/ aHost[a] = h]
    /\ UNCHANGED <<owner, lease, epoch, token, lost, rowVars, pc, aHost, aPlan, cmd, sent,
                   held, intent, out, verdict, worldVars>>

\* _close_impl after the drain: ownership, then the lease, are given back.
CloseDone(h) ==
    /\ phase[h] = "closing"
    /\ \A a \in Attempts : aHost[a] # h
    /\ phase' = [phase EXCEPT ![h] = "down"]
    /\ owner' = IF owner = h THEN NoHost ELSE owner
    /\ lease' = IF Fenced /\ Current(h) THEN 0 ELSE lease
    /\ token' = [token EXCEPT ![h] = 0]
    /\ lost' = [lost EXCEPT ![h] = FALSE]
    /\ UNCHANGED <<epoch, rowVars, attemptVars, worldVars>>

-----------------------------------------------------------------------------
(* PlanExecutor.execute, one attempt at a time. *)

\* Steps of an attempt that touch neither rows, ledger nor the world.
Local == UNCHANGED <<coordVars, rowVars, worldVars>>
Goto(a, label) == pc' = [pc EXCEPT ![a] = label]
\* The outcome of the current command is known; the loop's tail follows.
Conclude(a, status) ==
    /\ out' = [out EXCEPT ![a][cmd[a]] = status]
    /\ Goto(a, "outcome")

Execute(a, h, p) ==
    /\ pc[a] = "idle"
    /\ phase[h] = "up"
    /\ Goto(a, "admit")
    /\ aHost' = [aHost EXCEPT ![a] = h]
    /\ aPlan' = [aPlan EXCEPT ![a] = p]
    /\ UNCHANGED <<cmd, cancel, sent, held, intent, out, verdict>>
    /\ Local

\* ExecutionAdmission.admit, the persisted status and assert_executable.
Admit(a) ==
    /\ pc[a] = "admit"
    /\ Fenced => Writable(aHost[a])
    /\ DurablePlans => planSt[aPlan[a]] \in Claimable
    /\ Goto(a, "claim")
    /\ UNCHANGED <<aHost, aPlan, cmd, cancel, sent, held, intent, out, verdict>>
    /\ Local

\* Fencing, status, approval, expiry or stale evidence: an error, no claim.
AdmitRefused(a) ==
    /\ pc[a] = "admit"
    /\ EndTasks({a})
    /\ Local

\* Mutant: the claim does not look at the persisted status.
ClaimOpenBlind(p) == planSt[p] \notin Terminal

\* claim_for_execution's WHERE status IN (ready, approved).
ClaimOpen(p) == planSt[p] \in Claimable

\* PlanRepository.claim_for_execution with the token's epoch and expiry.  The
\* storage call may also time out under its caller, who gives up, while the claim
\* is still carried out; one that is never carried out is like a refusal.
Claim(a) ==
    LET p == aPlan[a] IN
    /\ pc[a] = "claim"
    /\ \/ /\ DurablePlans /\ ClaimOpen(p)
          /\ planSt' = [planSt EXCEPT ![p] = "executing"]
          /\ planLease' = [planLease EXCEPT ![p] = token[aHost[a]]]
          /\ \/ /\ Goto(a, "preflight")
                /\ UNCHANGED <<aHost, aPlan, cmd, cancel, sent, held, intent, out, verdict, adrift>>
             \/ EndTasks({a}) /\ adrift' = adrift \cup {p}
       \/ /\ ~DurablePlans
          /\ Goto(a, "preflight")
          /\ UNCHANGED <<planSt, planLease, aHost, aPlan, cmd, cancel, sent, held, intent, out, verdict,
                         adrift>>
       \/ /\ DurablePlans /\ ~ClaimOpen(p)
          /\ EndTasks({a})
          /\ UNCHANGED <<planSt, planLease, adrift>>
    /\ UNCHANGED <<coordVars, rowLapsed, ledger, calls, reply, writer, stale>>

\* A plan rejected as a whole: every command REJECTED, the plan FAILED.
RejectPlan(a) ==
    /\ out' = [out EXCEPT ![a] = [i \in Cmds |-> "rejected"]]
    /\ verdict' = [verdict EXCEPT ![a] = "failed"]
    /\ Goto(a, "settle")

Preflight(a) ==
    /\ pc[a] = "preflight"
    /\ \/ /\ Goto(a, IF LatchedCmd[aPlan[a]] # 0 /\ ~cancel[a] THEN "takeover" ELSE "command")
          /\ UNCHANGED <<out, verdict>>
       \/ RejectPlan(a)
    /\ UNCHANGED <<aHost, aPlan, cmd, cancel, sent, held, intent>>
    /\ Local

\* control_takeover.acquire_for_plan: acquired, refused, or an exception.
Takeover(a) ==
    /\ pc[a] = "takeover"
    /\ \/ /\ held' = [held EXCEPT ![a] = TRUE]
          /\ Goto(a, "command")
          /\ UNCHANGED <<out, verdict>>
       \/ RejectPlan(a) /\ UNCHANGED held
       \/ Goto(a, "except") /\ UNCHANGED <<held, out, verdict>>
    /\ UNCHANGED <<aHost, aPlan, cmd, cancel, sent, intent>>
    /\ Local

\* Loop head: a cancelled attempt, or a command whose semantics no longer
\* hold, is REJECTED without reaching the loop's tail.
SkipCommand(a) ==
    /\ pc[a] = "command" /\ cmd[a] <= NumCmds
    /\ out' = [out EXCEPT ![a][cmd[a]] = "rejected"]
    /\ cmd' = [cmd EXCEPT ![a] = @ + 1]
    /\ UNCHANGED <<pc, aHost, aPlan, cancel, sent, held, intent, verdict>>
    /\ Local

\* Just-in-time checks: REJECTED through the tail (preconditions, safety), or
\* submitted to the household lane, or refused by a full lane (an exception
\* that no handler of the loop catches).
PrepareCommand(a) ==
    /\ pc[a] = "command" /\ cmd[a] <= NumCmds
    /\ ~cancel[a]
    /\ \/ Conclude(a, "rejected")
       \/ Goto(a, "queued") /\ UNCHANGED out
       \/ Goto(a, "except") /\ UNCHANGED out
    /\ UNCHANGED <<aHost, aPlan, cmd, cancel, sent, held, intent, verdict>>
    /\ Local

LaneFree(h) == \A b \in Attempts : aHost[b] = h => pc[b] \notin InLane

\* The lane's worker calls dispatch(), whose first test is the cancellation;
\* a cancelled attempt still waiting is withdrawn from the lane instead.
Dispatch(a) ==
    /\ pc[a] = "queued"
    /\ \/ ~cancel[a] /\ LaneFree(aHost[a]) /\ Goto(a, "fence") /\ UNCHANGED out
       \/ cancel[a] /\ Conclude(a, "rejected")
    /\ UNCHANGED <<aHost, aPlan, cmd, cancel, sent, held, intent, verdict>>
    /\ Local

\* Mutant: the lease is not validated again before the write.
FenceAtAdmissionOnly(h) == TRUE

FenceOpen(h) == Fenced => Writable(h)

\* Revalidation of plan, admission, preconditions and safety, then the fence.
\* A stale token is a REJECTED command; an unreachable etcd raises
\* LeaseUnavailable, which no handler of the loop catches.
Fence(a) ==
    /\ pc[a] = "fence"
    /\ \/ /\ FenceOpen(aHost[a])
          /\ Goto(a, IF Fenced THEN "ledger" ELSE "send")
          /\ UNCHANGED out
       \/ Conclude(a, "rejected")
       \/ Fenced /\ Goto(a, "except") /\ UNCHANGED out
    /\ UNCHANGED <<aHost, aPlan, cmd, cancel, sent, held, intent, verdict>>
    /\ Local

Key(a) == KeyOf[aPlan[a]][cmd[a]]

SameIdentity(row, a) == row.plan = aPlan[a] /\ row.cmd = cmd[a]

\* claim_for_dispatch_sync.
Decision(row, a) ==
    CASE row.status = "absent" -> "acquired"
      [] row.status # "absent" /\ ~SameIdentity(row, a) -> "conflict"
      [] row.status \in {"acknowledged", "confirmed"} /\ SameIdentity(row, a) -> "replay_ok"
      [] row.status = "rejected" /\ SameIdentity(row, a) -> "replay_no"
      [] OTHER -> "in_flight"

Dispatching(a) ==
    [status |-> "dispatching", plan |-> aPlan[a], cmd |-> cmd[a], attempt |-> a,
     epoch |-> token[aHost[a]]]

ClaimIntent(a) ==
    LET k == Key(a)  decision == Decision(ledger[k], a) IN
    /\ pc[a] = "ledger"
    /\ \/ /\ decision = "acquired"
          /\ ledger' = [ledger EXCEPT ![k] = Dispatching(a)]
          /\ intent' = [intent EXCEPT ![a] = "owned"]
          /\ Goto(a, "send")
          /\ UNCHANGED out
       \/ /\ decision = "acquired"  \* written, but the storage call timed out
          /\ ledger' = [ledger EXCEPT ![k] = Dispatching(a)]
          /\ Goto(a, "except")
          /\ UNCHANGED <<intent, out>>
       \/ /\ decision \in {"replay_ok", "replay_no"}
          /\ intent' = [intent EXCEPT ![a] = decision]
          /\ Goto(a, "send")
          /\ UNCHANGED <<out, ledger>>
       \/ decision = "conflict" /\ Conclude(a, "rejected") /\ UNCHANGED <<intent, ledger>>
       \/ decision = "in_flight" /\ Conclude(a, "unknown") /\ UNCHANGED <<intent, ledger>>
    /\ UNCHANGED <<coordVars, planSt, planLease, rowLapsed, aHost, aPlan, cmd, cancel, sent, held,
                   verdict, worldVars>>

\* No write: control was lost (after an emergency stop), the key was already
\* rejected, or the attempt was cancelled before the call.
NotSent(a) ==
    /\ pc[a] = "send"
    /\ held[a] \/ intent[a] = "replay_no" \/ (cancel[a] /\ intent[a] # "replay_ok")
    /\ Conclude(a, "rejected")
    /\ UNCHANGED <<aHost, aPlan, cmd, cancel, sent, held, intent, verdict>>
    /\ Local

\* An earlier invocation wrote: only the readback remains.  If the submission
\* was cancelled meanwhile, its CancelledError is re-raised (dispatching).
ServeReplay(a) ==
    /\ pc[a] = "send" /\ intent[a] = "replay_ok"
    /\ sent' = [sent EXCEPT ![a] = TRUE]
    /\ Goto(a, IF cancel[a] THEN "except" ELSE "readback")
    /\ UNCHANGED <<aHost, aPlan, cmd, cancel, held, intent, out, verdict>>
    /\ Local

\* adapter.execute is called.
Send(a) ==
    LET k == Key(a) IN
    /\ pc[a] = "send" /\ intent[a] \in {"none", "owned"}
    /\ ~cancel[a]
    /\ sent' = [sent EXCEPT ![a] = TRUE]
    /\ calls' = [calls EXCEPT ![k] = @ + 1]
    /\ reply' = [reply EXCEPT ![k] = "pending"]
    /\ writer' = [writer EXCEPT ![k] = aPlan[a]]
    /\ stale' = [stale EXCEPT ![a] = IF lease = token[aHost[a]] THEN @ ELSE @ + 1]
    /\ Goto(a, "wait")
    /\ UNCHANGED <<coordVars, rowVars, aHost, aPlan, cmd, cancel, held, intent, out, verdict, adrift>>

\* Mutant: a transport failure is reported as a rejection.
TransportFailure == "rejected"

\* Mutant: a transport failure is given a status the enumeration does not have.
TransportTimeout == "timeout"

\* The outcome of ConnectionError, OSError and TimeoutError.
Unreachable == "unavailable"

\* The adapter answers, the transport fails, or the adapter raises.
Answer(a, r) ==
    LET k == Key(a) IN
    /\ pc[a] = "wait"
    /\ reply' = [reply EXCEPT ![k] = IF r \in {"accepted", "rejected"} THEN r ELSE "lost"]
    /\ \/ r = "accepted" /\ Goto(a, "acked") /\ UNCHANGED out
       \/ r = "rejected" /\ Goto(a, "refused") /\ UNCHANGED out
       \/ r = "unreachable" /\ Conclude(a, Unreachable)
       \/ r = "raised" /\ Goto(a, "except") /\ UNCHANGED out
    /\ UNCHANGED <<coordVars, rowVars, aHost, aPlan, cmd, cancel, sent, held, intent, verdict,
                   calls, writer, stale, adrift>>

\* _SETTLEMENT_TRANSITIONS.
SettleFrom(status) ==
    CASE status = "dispatching" -> {"acknowledged", "confirmed", "rejected", "unknown"}
      [] status = "acknowledged" -> {"confirmed", "rejected", "unknown"}
      [] OTHER -> {}

\* PhysicalIntentRepository.settle: compare-and-set by the claiming attempt.
SettledRow(row, a, status) ==
    IF status \in SettleFrom(row.status) /\ row.attempt = a
      THEN [row EXCEPT !.status = status] ELSE row

Settle(a, status) ==
    ledger' = IF intent[a] = "owned"
                THEN [ledger EXCEPT ![Key(a)] = SettledRow(@, a, status)]
                ELSE ledger

\* The acknowledgement is recorded before the readback.
SettleAck(a) ==
    /\ pc[a] \in {"acked", "refused"}
    /\ IF pc[a] = "acked"
         THEN Settle(a, "acknowledged") /\ Goto(a, "readback") /\ UNCHANGED out
         ELSE Settle(a, "rejected") /\ Conclude(a, "rejected")
    /\ UNCHANGED <<coordVars, planSt, planLease, rowLapsed, aHost, aPlan, cmd, cancel, sent, held,
                   intent, verdict, worldVars>>

\* _readback_until_settled and _reconcile_post_write: confirmed, unconfirmed,
\* or an exception outside the handled kinds.
Readback(a) ==
    /\ pc[a] = "readback"
    /\ \/ Conclude(a, "confirmed")
       \/ Conclude(a, "unknown")
       \/ Goto(a, "except") /\ UNCHANGED out
    /\ UNCHANGED <<aHost, aPlan, cmd, cancel, sent, held, intent, verdict>>
    /\ Local

\* The intent status that goes with an outcome.
FinalIntent(status) ==
    CASE status = "confirmed" -> "confirmed"
      [] status = "rejected" -> "rejected"
      [] OTHER -> "unknown"

\* The loop's tail: settle the intent, record the outcome, and stop the plan
\* when its control-takeover command was not confirmed.
RecordOutcome(a) ==
    LET i == cmd[a]
        stop == held[a] /\ LatchedCmd[aPlan[a]] = i /\ out[a][i] # "confirmed" IN
    /\ pc[a] = "outcome"
    /\ Settle(a, FinalIntent(out[a][i]))
    /\ intent' = [intent EXCEPT ![a] = "none"]
    /\ cmd' = [cmd EXCEPT ![a] = IF stop THEN NumCmds + 1 ELSE i + 1]
    /\ out' = IF stop
                THEN [out EXCEPT ![a] = [j \in Cmds |-> IF j > i THEN "rejected" ELSE @[j]]]
                ELSE out
    /\ Goto(a, "command")
    /\ UNCHANGED <<coordVars, planSt, planLease, rowLapsed, aHost, aPlan, cancel, sent, held,
                   verdict, worldVars>>

OutcomesOf(a) == {out[a][i] : i \in Cmds}

\* _terminal_plan_status.
TerminalPlanStatus(statuses) ==
    CASE statuses = {"confirmed"} -> "completed"
      [] statuses \cap {"unknown", "unavailable"} # {} -> "unknown"
      [] statuses \cap {"unknown", "unavailable"} = {} /\ "confirmed" \in statuses
           /\ statuses # {"confirmed"} -> "partially_failed"
      [] OTHER -> "failed"

\* Mutant: every cancelled attempt is a cancelled plan.
VerdictCancels(a, released) ==
    IF ~released THEN "unknown"
    ELSE IF cancel[a] THEN "cancelled"
    ELSE TerminalPlanStatus(OutcomesOf(a))

\* The terminal status of a plan whose loop has ended.
Verdict(a, released) ==
    IF ~released THEN "unknown"
    ELSE IF cancel[a] /\ ~sent[a] THEN "cancelled"
    ELSE TerminalPlanStatus(OutcomesOf(a))

\* The control lease is released, confirmed or not, when one was taken.
FinishLoop(a) ==
    /\ pc[a] = "command" /\ cmd[a] > NumCmds
    /\ \E released \in BOOLEAN :
          /\ ~held[a] => released
          /\ verdict' = [verdict EXCEPT ![a] = Verdict(a, released)]
    /\ Goto(a, "settle")
    /\ UNCHANGED <<aHost, aPlan, cmd, cancel, sent, held, intent, out>>
    /\ Local

\* Mutant: a settled plan may be settled again.
SettleOverwrites(p) == planSt[p] \notin Claimable

\* settle_execution's guard on the persisted status.
SettleOpen(p) == planSt[p] = "executing"

\* PlanRepository.settle_execution.  A plan settled by recovery makes it raise, and
\* so does a storage fault, before the write or while it is still carried out.
SettleExecution(a) ==
    LET p == aPlan[a] IN
    /\ pc[a] = "settle"
    /\ \/ /\ DurablePlans
          /\ \/ UNCHANGED planSt
             \/ SettleOpen(p) /\ planSt' = [planSt EXCEPT ![p] = verdict[a]]
          /\ Goto(a, "except")
          /\ UNCHANGED <<aHost, aPlan, cmd, cancel, sent, held, intent, out, verdict>>
       \/ /\ DurablePlans => SettleOpen(p)
          /\ EndTasks({a})
          /\ planSt' = IF DurablePlans THEN [planSt EXCEPT ![p] = verdict[a]] ELSE planSt
    /\ UNCHANGED <<coordVars, planLease, rowLapsed, ledger, worldVars>>

\* Mutant: the exception path leaves the plan as it is.
MarkNothing(a) == UNCHANGED <<planSt, adrift>>

\* mark_unknown_if_executing with the attempt's own lease.  A storage fault is
\* caught and audited, and leaves the plan EXECUTING.
MarkUnknown(a) ==
    LET p == aPlan[a] IN
    \/ /\ planSt' = IF DurablePlans /\ planSt[p] = "executing"
                      THEN [planSt EXCEPT ![p] = "unknown"] ELSE planSt
       /\ UNCHANGED adrift
    \/ /\ DurablePlans /\ planSt[p] = "executing"
       /\ adrift' = adrift \cup {p}
       /\ UNCHANGED planSt

\* _execute_owned's handler: mark the plan, release control, re-raise.
HandleException(a) ==
    /\ pc[a] = "except"
    /\ MarkUnknown(a)
    /\ EndTasks({a})
    /\ UNCHANGED <<coordVars, planLease, rowLapsed, ledger, calls, reply, writer, stale>>

\* The caller of execute() is cancelled; the runtime keeps the task.
CancelCall(a) ==
    /\ pc[a] \in Running /\ ~cancel[a]
    /\ cancel' = [cancel EXCEPT ![a] = TRUE]
    /\ UNCHANGED <<pc, aHost, aPlan, cmd, sent, held, intent, out, verdict>>
    /\ Local

Step(a) ==
    \/ Admit(a) \/ AdmitRefused(a) \/ Claim(a)
    \/ Preflight(a) \/ Takeover(a)
    \/ SkipCommand(a) \/ PrepareCommand(a) \/ Dispatch(a) \/ Fence(a) \/ ClaimIntent(a)
    \/ NotSent(a) \/ ServeReplay(a) \/ Send(a)
    \/ \E r \in {"accepted", "rejected", "unreachable", "raised"} : Answer(a, r)
    \/ SettleAck(a) \/ Readback(a) \/ RecordOutcome(a)
    \/ FinishLoop(a) \/ SettleExecution(a) \/ HandleException(a)

Next ==
    \/ \E h \in Hosts : \/ StartHost(h) \/ RecoverPlans(h) \/ RecoverIntents(h)
                        \/ RenewFails(h) \/ Crash(h) \/ CloseHost(h) \/ CloseDone(h)
                        \/ \E p \in Plans : PeriodicRecovery(h, p)
    \/ ExpireLease \/ ReleaseStaleOwner
    \/ \E p \in Plans : LapseRow(p)
    \/ \E a \in Attempts : \/ Step(a) \/ CancelCall(a)
                           \/ \E h \in Hosts, p \in Plans : Execute(a, h, p)

Spec == Init /\ [][Next]_vars

\* The event loop runs every ready task and adapter calls time out; the
\* scheduler loop sweeps forever; clocks advance; a dead host's etcd lease runs
\* out and an administrator clears its ownership row, after which the service
\* manager starts a runtime.  Nothing obliges a live host to stop.
DeadLeaseExpires == ExpireLease /\ \A h \in Hosts : token[h] # lease
DeadOwnerReleased == ReleaseStaleOwner /\ phase[owner] = "down"

Fairness ==
    /\ \A a \in Attempts : WF_vars(Step(a))
    /\ \A h \in Hosts : /\ WF_vars(RecoverPlans(h)) /\ WF_vars(RecoverIntents(h))
                        /\ WF_vars(CloseDone(h))
                        /\ \A p \in Plans : WF_vars(PeriodicRecovery(h, p))
    /\ \A p \in Plans : WF_vars(LapseRow(p))
    /\ WF_vars(DeadLeaseExpires) /\ WF_vars(DeadOwnerReleased)
    /\ WF_vars(\E h \in Hosts : StartHost(h))

FairSpec == Spec /\ Fairness

-----------------------------------------------------------------------------
Rows == [status : IntentStatuses, plan : Plans \cup {NoPlan}, cmd : Nat,
         attempt : Attempts \cup {NoAttempt}, epoch : Nat]

CoordType ==
    /\ owner \in Hosts \cup {NoHost} /\ lease \in Nat /\ epoch \in Nat
    /\ phase \in [Hosts -> {"down", "starting", "recovering", "up", "closing"}]
    /\ token \in [Hosts -> Nat]
    /\ lost \in [Hosts -> BOOLEAN]

RowType ==
    /\ planSt \in [Plans -> PlanStatuses]
    /\ planLease \in [Plans -> Nat]
    /\ rowLapsed \in [Plans -> BOOLEAN]
    /\ ledger \in [Keys -> Rows]

FlagType ==
    /\ cancel \in [Attempts -> BOOLEAN]
    /\ sent \in [Attempts -> BOOLEAN]
    /\ held \in [Attempts -> BOOLEAN]

AttemptType ==
    /\ pc \in [Attempts -> Running \cup Ended]
    /\ aHost \in [Attempts -> Hosts \cup {NoHost}]
    /\ aPlan \in [Attempts -> Plans \cup {NoPlan}]
    /\ cmd \in [Attempts -> 1..(NumCmds + 1)]
    /\ intent \in [Attempts -> {"none", "owned", "replay_ok", "replay_no"}]
    /\ out \in [Attempts -> [Cmds -> OutcomeStatuses]]
    /\ verdict \in [Attempts -> Terminal \cup {"none"}]

WorldType ==
    /\ calls \in [Keys -> Nat]
    /\ reply \in [Keys -> {"none", "pending", "accepted", "rejected", "lost"}]
    /\ writer \in [Keys -> Plans \cup {NoPlan}]
    /\ stale \in [Attempts -> Nat]
    /\ adrift \subseteq Plans

\* Type correctness: the guards, the durable rows, the attempts and what the
\* adapter saw hold only values of the code's enumerations and identifiers.
TypeOK == CoordType /\ RowType /\ FlagType /\ AttemptType /\ WorldType

\* The ledger's promise: whatever the number of execute() calls, hosts,
\* crashes, takeovers and recoveries, the adapter is called at most once for an
\* idempotency key (claim_for_dispatch, persistence/coordination.py:64-115).
AtMostOneWrite == Fenced => \A k \in Keys : calls[k] <= 1

\* A plan is executed by one attempt, ever: claim_for_execution is a
\* compare-and-set and no terminal status is claimable (repositories.py:1788).
OneExecutorPerPlan ==
    DurablePlans =>
        \A a, b \in Attempts :
            pc[a] \in Claimed /\ pc[b] \in Claimed /\ aPlan[a] = aPlan[b] => a = b

\* What the persisted status tells the operator is what happened at the
\* adapter: COMPLETED means every command was sent once and accepted; FAILED
\* means nothing the plan sent may still have an effect; CANCELLED means it
\* sent nothing; anything in doubt is UNKNOWN (executor.py:1037-1043).
VerdictIsHonest ==
    \A p \in Plans : \A i \in Cmds :
        LET k == KeyOf[p][i] IN
        /\ planSt[p] = "completed" => calls[k] = 1 /\ writer[k] = p /\ reply[k] = "accepted"
        /\ planSt[p] = "partially_failed" /\ writer[k] = p => reply[k] \in {"accepted", "rejected"}
        /\ planSt[p] = "failed" /\ writer[k] = p => reply[k] = "rejected"
        /\ planSt[p] = "cancelled" => writer[k] # p

\* A ledger row never promises less than happened: a REJECTED row, which a
\* later attempt replays as "not accepted", hides no write that was accepted or
\* is in doubt, and a CONFIRMED or ACKNOWLEDGED row was accepted.
LedgerIsHonest ==
    \A k \in Keys :
        /\ ledger[k].status = "rejected" => reply[k] \in {"none", "rejected"}
        /\ ledger[k].status \in {"acknowledged", "confirmed"} => reply[k] = "accepted"
        /\ ledger[k].status = "absent" /\ Fenced => calls[k] = 0

\* A deposed host stops: after its lease was lost or taken over, one attempt
\* sends at most the command whose fence it had already passed
\* (executor.py:614-618; the adapter call comes two awaits later).
DeposedHostStops == \A a \in Attempts : stale[a] <= 1

\* Durable evidence is final: a terminal plan and a terminal ledger row never
\* change, and a ledger row never changes its claimant.
EvidenceIsFinal ==
    [][/\ \A p \in Plans : planSt[p] \in Terminal => planSt'[p] = planSt[p]
       /\ \A k \in Keys :
             ledger[k].status # "absent" =>
                 /\ ledger[k].status \in {"confirmed", "rejected", "unknown"}
                        => ledger'[k] = ledger[k]
                 /\ ledger'[k].attempt = ledger[k].attempt
                 /\ ledger'[k].status # "absent"]_<<planSt, ledger>>

\* Recovery settles orphans only: no plan becomes UNKNOWN under an attempt that
\* is still working on it on a host with the newest lease (without leases: on
\* the running host).  "Reconcile executing plans only within a verified recovery
\* scope" (application/recovery.py:12).
LiveAttempt(p) ==
    \E a \in Attempts :
        /\ aPlan[a] = p /\ pc[a] \in Claimed \ {"settle", "except"}
        /\ Fenced => token[aHost[a]] = epoch
RecoverySparesTheLiving ==
    [][\A p \in Plans :
          LiveAttempt(p) /\ planSt[p] = "executing" => planSt'[p] # "unknown"]_vars

\* No plan stays EXECUTING: the attempt settles it, or the exception path, or
\* the recovery of a later runtime.  The exception: recovery spares the epoch of
\* its own runtime (recovery.py:58), so a plan that this runtime's storage left
\* adrift (executor.py:1121-1128) waits for the next start, and no longer.
AwaitsNextStart(p) == Fenced /\ p \in adrift /\ planLease[p] = epoch

ExecutionSettles ==
    \A p \in Plans :
        planSt[p] = "executing" ~> planSt[p] \in Terminal \/ AwaitsNextStart(p)

\* What an observer of the adapter saw of each command of each plan.
Effect ==
    [p \in Plans |-> [i \in Cmds |->
        IF writer[KeyOf[p][i]] = p THEN reply[KeyOf[p][i]] ELSE "none"]]

Lifecycle == INSTANCE PlanLifecycle WITH status <- planSt, effect <- Effect

\* With leases and a plan repository, execution implements PlanLifecycle: seen from
\* outside, every plan is begun once, sends each command once, and is settled once
\* with a status that tells what happened (executor.py:222-1152).
ImplementsLifecycle == Lifecycle!Spec
=============================================================================
