------------------------- MODULE PlanExecutionProofs -------------------------
(***************************************************************************)
(* Theorems about PlanExecution for every number of hosts, attempts, plans,  *)
(* commands, keys and restarts.                                              *)
(***************************************************************************)
EXTENDS PlanExecution, TLAPS

\* What the steps of an attempt rely on: a running attempt has a host and a
\* plan, one that is working on a command has an index inside the plan, and one
\* that is about to settle has a verdict.
OnCommand == InLane \cup {"queued", "acked", "refused", "readback", "outcome"}
AttemptsOK ==
    \A a \in Attempts :
        /\ pc[a] \in Running => aHost[a] \in Hosts /\ aPlan[a] \in Plans
        /\ pc[a] \in OnCommand => cmd[a] \in Cmds
        /\ pc[a] = "settle" => verdict[a] \in Terminal

TypeInv == TypeOK /\ AttemptsOK

\* Init establishes the inductive type invariant.
LEMMA TypeInit == Init => TypeInv
<1> SUFFICES ASSUME Init PROVE TypeInv OBVIOUS
<1> USE KeyAssumption DEF Init
<1>1. CoordType /\ FlagType
  BY DEF CoordType, FlagType
<1>2. RowType
  BY DEF RowType, Rows, NoRow, IntentStatuses, PlanStatuses, Claimable
<1>3. AttemptType
  <2>1. cmd \in [Attempts -> 1..(NumCmds + 1)]
    BY DEF KeyAssumption
  <2>2. out \in [Attempts -> [Cmds -> OutcomeStatuses]]
    BY DEF OutcomeStatuses
  <2> QED BY <2>1, <2>2 DEF AttemptType, Ended
<1>4. WorldType
  BY DEF WorldType
<1>5. AttemptsOK
  BY DEF AttemptsOK, Running, Claimed, InLane, OnCommand
<1> QED BY <1>1, <1>2, <1>3, <1>4, <1>5 DEF TypeInv, TypeOK

\* The end of a set of tasks keeps the types and the facts about the others.
LEMMA EndTasksType ==
    ASSUME TypeInv, NEW A, EndTasks(A)
    PROVE  FlagType' /\ AttemptType' /\ AttemptsOK'
<1> USE KeyAssumption DEF TypeInv, TypeOK, EndTasks
<1>1. FlagType'
  BY DEF FlagType
<1>2. AttemptType'
  BY DEF AttemptType, Ended, OutcomeStatuses
<1>3. AttemptsOK'
  BY DEF AttemptType, AttemptsOK, Running, Claimed, InLane, OnCommand
<1> QED BY <1>1, <1>2, <1>3

\* Steps that leave rows, coordination and the world alone.
LEMMA LocalType ==
    ASSUME TypeInv, Local
    PROVE  CoordType' /\ RowType' /\ WorldType'
  BY DEF TypeInv, TypeOK, Local, coordVars, rowVars, worldVars, CoordType, RowType, WorldType

\* Every label a step jumps to belongs to a running task.
LEMMA LabelsRun ==
    \A label \in {"admit", "claim", "preflight", "takeover", "command", "queued", "fence", "ledger", "send",
                  "wait", "acked", "refused", "readback", "outcome", "settle", "except"} : label \in Running
  BY DEF Running, Claimed, InLane

LEMMA GotoType ==
    ASSUME AttemptType, NEW a \in Attempts, NEW label \in Running, Goto(a, label)
    PROVE  pc' \in [Attempts -> Running \cup Ended]
  BY DEF AttemptType, Goto

\* Recorded outcomes are ExecutionStatus values.
LEMMA ConcludeType ==
    ASSUME AttemptType, NEW a \in Attempts, NEW status \in OutcomeStatuses, Conclude(a, status)
    PROVE  out' \in [Attempts -> [Cmds -> OutcomeStatuses]]
  BY DEF AttemptType, Conclude

LEMMA RejectPlanType ==
    ASSUME AttemptType, NEW a \in Attempts, RejectPlan(a)
    PROVE  out' \in [Attempts -> [Cmds -> OutcomeStatuses]]
  BY DEF AttemptType, RejectPlan, OutcomeStatuses

LEMMA ExecuteType == ASSUME TypeInv, NEW a \in Attempts, NEW h \in Hosts, NEW p \in Plans, Execute(a, h, p) PROVE TypeInv'
<1> USE KeyAssumption DEF TypeInv, TypeOK, Execute, Local
<1>1. CoordType' /\ RowType' /\ WorldType' BY LocalType
<1>2. FlagType' BY DEF FlagType
<1>3. AttemptType' BY DEF AttemptType, Goto, Conclude, Cmds, Running, Claimed, InLane, Ended, OnCommand, Terminal, OutcomeStatuses
<1>4. AttemptsOK' BY DEF AttemptType, AttemptsOK, Goto, Conclude, Cmds, Running, Claimed, InLane, Ended, OnCommand, Terminal, OutcomeStatuses
<1> QED BY <1>1, <1>2, <1>3, <1>4

LEMMA AdmitType == ASSUME TypeInv, NEW a \in Attempts, Admit(a) PROVE TypeInv'
<1> USE KeyAssumption DEF TypeInv, TypeOK, Admit, Local
<1>1. CoordType' /\ RowType' /\ WorldType' BY LocalType
<1>2. FlagType' BY DEF FlagType
<1>3. AttemptType' BY DEF AttemptType, Goto, Conclude, Cmds, Running, Claimed, InLane, Ended, OnCommand, Terminal, OutcomeStatuses
<1>4. AttemptsOK' BY DEF AttemptType, AttemptsOK, Goto, Conclude, Cmds, Running, Claimed, InLane, Ended, OnCommand, Terminal, OutcomeStatuses
<1> QED BY <1>1, <1>2, <1>3, <1>4

LEMMA PreflightType == ASSUME TypeInv, NEW a \in Attempts, Preflight(a) PROVE TypeInv'
<1> USE KeyAssumption DEF TypeInv, TypeOK, Preflight, Local
<1>1. CoordType' /\ RowType' /\ WorldType' BY LocalType
<1>2. FlagType' BY DEF FlagType
<1>3. AttemptType'
  <2>1. pc' \in [Attempts -> Running \cup Ended] BY GotoType, LabelsRun DEF Conclude, RejectPlan
  <2>2. out' \in [Attempts -> [Cmds -> OutcomeStatuses]] BY ConcludeType, RejectPlanType DEF AttemptType, OutcomeStatuses
  <2> QED BY <2>1, <2>2 DEF AttemptType, RejectPlan, Terminal
<1>4. AttemptsOK' BY DEF AttemptType, AttemptsOK, Goto, Conclude, Cmds, Running, Claimed, InLane, Ended, OnCommand, Terminal, OutcomeStatuses, RejectPlan
<1> QED BY <1>1, <1>2, <1>3, <1>4

LEMMA TakeoverType == ASSUME TypeInv, NEW a \in Attempts, Takeover(a) PROVE TypeInv'
<1> USE KeyAssumption DEF TypeInv, TypeOK, Takeover, Local
<1>1. CoordType' /\ RowType' /\ WorldType' BY LocalType
<1>2. FlagType' BY DEF FlagType
<1>3. AttemptType'
  <2>1. pc' \in [Attempts -> Running \cup Ended] BY GotoType, LabelsRun DEF Conclude, RejectPlan
  <2>2. out' \in [Attempts -> [Cmds -> OutcomeStatuses]] BY ConcludeType, RejectPlanType DEF AttemptType, OutcomeStatuses
  <2> QED BY <2>1, <2>2 DEF AttemptType, RejectPlan, Terminal
<1>4. AttemptsOK' BY DEF AttemptType, AttemptsOK, Goto, Conclude, Cmds, Running, Claimed, InLane, Ended, OnCommand, Terminal, OutcomeStatuses, RejectPlan
<1> QED BY <1>1, <1>2, <1>3, <1>4

LEMMA SkipCommandType == ASSUME TypeInv, NEW a \in Attempts, SkipCommand(a) PROVE TypeInv'
<1> USE KeyAssumption DEF TypeInv, TypeOK, SkipCommand, Local
<1>1. CoordType' /\ RowType' /\ WorldType' BY LocalType
<1>2. FlagType' BY DEF FlagType
<1>3. AttemptType' BY DEF AttemptType, Goto, Conclude, Cmds, Running, Claimed, InLane, Ended, OnCommand, Terminal, OutcomeStatuses
<1>4. AttemptsOK' BY DEF AttemptType, AttemptsOK, Goto, Conclude, Cmds, Running, Claimed, InLane, Ended, OnCommand, Terminal, OutcomeStatuses
<1> QED BY <1>1, <1>2, <1>3, <1>4

LEMMA PrepareCommandType == ASSUME TypeInv, NEW a \in Attempts, PrepareCommand(a) PROVE TypeInv'
<1> USE KeyAssumption DEF TypeInv, TypeOK, PrepareCommand, Local
<1>1. CoordType' /\ RowType' /\ WorldType' BY LocalType
<1>2. FlagType' BY DEF FlagType
<1>3. AttemptType'
  <2>1. pc' \in [Attempts -> Running \cup Ended] BY GotoType, LabelsRun DEF Conclude
  <2>2. out' \in [Attempts -> [Cmds -> OutcomeStatuses]] BY ConcludeType, RejectPlanType DEF AttemptType, OutcomeStatuses
  <2> QED BY <2>1, <2>2 DEF AttemptType
<1>4. AttemptsOK' BY DEF AttemptType, AttemptsOK, Goto, Conclude, Cmds, Running, Claimed, InLane, Ended, OnCommand, Terminal, OutcomeStatuses
<1> QED BY <1>1, <1>2, <1>3, <1>4

LEMMA DispatchType == ASSUME TypeInv, NEW a \in Attempts, Dispatch(a) PROVE TypeInv'
<1> USE KeyAssumption DEF TypeInv, TypeOK, Dispatch, Local
<1>1. CoordType' /\ RowType' /\ WorldType' BY LocalType
<1>2. FlagType' BY DEF FlagType
<1>3. AttemptType'
  <2>1. pc' \in [Attempts -> Running \cup Ended] BY GotoType, LabelsRun DEF Conclude
  <2>2. out' \in [Attempts -> [Cmds -> OutcomeStatuses]] BY ConcludeType, RejectPlanType DEF AttemptType, OutcomeStatuses
  <2> QED BY <2>1, <2>2 DEF AttemptType
<1>4. AttemptsOK' BY DEF AttemptType, AttemptsOK, Goto, Conclude, Cmds, Running, Claimed, InLane, Ended, OnCommand, Terminal, OutcomeStatuses
<1> QED BY <1>1, <1>2, <1>3, <1>4

LEMMA FenceType == ASSUME TypeInv, NEW a \in Attempts, Fence(a) PROVE TypeInv'
<1> USE KeyAssumption DEF TypeInv, TypeOK, Fence, Local
<1>1. CoordType' /\ RowType' /\ WorldType' BY LocalType
<1>2. FlagType' BY DEF FlagType
<1>3. AttemptType'
  <2>1. pc' \in [Attempts -> Running \cup Ended] BY GotoType, LabelsRun DEF Conclude
  <2>2. out' \in [Attempts -> [Cmds -> OutcomeStatuses]] BY ConcludeType, RejectPlanType DEF AttemptType, OutcomeStatuses
  <2> QED BY <2>1, <2>2 DEF AttemptType
<1>4. AttemptsOK' BY DEF AttemptType, AttemptsOK, Goto, Conclude, Cmds, Running, Claimed, InLane, Ended, OnCommand, Terminal, OutcomeStatuses
<1> QED BY <1>1, <1>2, <1>3, <1>4

LEMMA NotSentType == ASSUME TypeInv, NEW a \in Attempts, NotSent(a) PROVE TypeInv'
<1> USE KeyAssumption DEF TypeInv, TypeOK, NotSent, Local
<1>1. CoordType' /\ RowType' /\ WorldType' BY LocalType
<1>2. FlagType' BY DEF FlagType
<1>3. AttemptType' BY DEF AttemptType, Goto, Conclude, Cmds, Running, Claimed, InLane, Ended, OnCommand, Terminal, OutcomeStatuses
<1>4. AttemptsOK' BY DEF AttemptType, AttemptsOK, Goto, Conclude, Cmds, Running, Claimed, InLane, Ended, OnCommand, Terminal, OutcomeStatuses
<1> QED BY <1>1, <1>2, <1>3, <1>4

LEMMA ServeReplayType == ASSUME TypeInv, NEW a \in Attempts, ServeReplay(a) PROVE TypeInv'
<1> USE KeyAssumption DEF TypeInv, TypeOK, ServeReplay, Local
<1>1. CoordType' /\ RowType' /\ WorldType' BY LocalType
<1>2. FlagType' BY DEF FlagType
<1>3. AttemptType' BY DEF AttemptType, Goto, Conclude, Cmds, Running, Claimed, InLane, Ended, OnCommand, Terminal, OutcomeStatuses
<1>4. AttemptsOK' BY DEF AttemptType, AttemptsOK, Goto, Conclude, Cmds, Running, Claimed, InLane, Ended, OnCommand, Terminal, OutcomeStatuses
<1> QED BY <1>1, <1>2, <1>3, <1>4

LEMMA ReadbackType == ASSUME TypeInv, NEW a \in Attempts, Readback(a) PROVE TypeInv'
<1> USE KeyAssumption DEF TypeInv, TypeOK, Readback, Local
<1>1. CoordType' /\ RowType' /\ WorldType' BY LocalType
<1>2. FlagType' BY DEF FlagType
<1>3. AttemptType'
  <2>1. pc' \in [Attempts -> Running \cup Ended] BY GotoType, LabelsRun DEF Conclude
  <2>2. out' \in [Attempts -> [Cmds -> OutcomeStatuses]] BY ConcludeType, RejectPlanType DEF AttemptType, OutcomeStatuses
  <2> QED BY <2>1, <2>2 DEF AttemptType
<1>4. AttemptsOK' BY DEF AttemptType, AttemptsOK, Goto, Conclude, Cmds, Running, Claimed, InLane, Ended, OnCommand, Terminal, OutcomeStatuses
<1> QED BY <1>1, <1>2, <1>3, <1>4

LEMMA FinishLoopType == ASSUME TypeInv, NEW a \in Attempts, FinishLoop(a) PROVE TypeInv'
<1> USE KeyAssumption DEF TypeInv, TypeOK, FinishLoop, Local
<1>1. CoordType' /\ RowType' /\ WorldType' BY LocalType
<1>2. FlagType' BY DEF FlagType
<1>3. AttemptType' BY DEF AttemptType, Goto, Conclude, Cmds, Running, Claimed, InLane, Ended, OnCommand, Terminal, OutcomeStatuses, Verdict, TerminalPlanStatus
<1>4. AttemptsOK' BY DEF AttemptType, AttemptsOK, Goto, Conclude, Cmds, Running, Claimed, InLane, Ended, OnCommand, Terminal, OutcomeStatuses, Verdict, TerminalPlanStatus
<1> QED BY <1>1, <1>2, <1>3, <1>4

LEMMA CancelCallType == ASSUME TypeInv, NEW a \in Attempts, CancelCall(a) PROVE TypeInv'
<1> USE KeyAssumption DEF TypeInv, TypeOK, CancelCall, Local
<1>1. CoordType' /\ RowType' /\ WorldType' BY LocalType
<1>2. FlagType' BY DEF FlagType
<1>3. AttemptType' BY DEF AttemptType, Goto, Conclude, Cmds, Running, Claimed, InLane, Ended, OnCommand, Terminal, OutcomeStatuses
<1>4. AttemptsOK' BY DEF AttemptType, AttemptsOK, Goto, Conclude, Cmds, Running, Claimed, InLane, Ended, OnCommand, Terminal, OutcomeStatuses
<1> QED BY <1>1, <1>2, <1>3, <1>4

\* Steps of hosts, clocks and administrators that touch no attempt.
HostStep ==
    \/ \E h \in Hosts : \/ StartHost(h) \/ RecoverPlans(h) \/ RecoverIntents(h)
                        \/ RenewFails(h) \/ CloseDone(h)
                        \/ \E p \in Plans : PeriodicRecovery(h, p)
    \/ ExpireLease \/ ReleaseStaleOwner
    \/ \E p \in Plans : LapseRow(p)

LEMMA HostStepType == ASSUME TypeInv, HostStep PROVE TypeInv'
<1> USE ConstantsAssumption DEF TypeInv, TypeOK, HostStep
<1>1. /\ UNCHANGED <<attemptVars, calls, reply, writer, stale>>
      /\ adrift' \subseteq adrift
  BY DEF worldVars, StartHost, RecoverPlans, RecoverIntents, PeriodicRecovery, RenewFails, ExpireLease,
         LapseRow, ReleaseStaleOwner, CloseDone
<1>2. FlagType' /\ AttemptType' /\ AttemptsOK' /\ WorldType'
  BY <1>1 DEF attemptVars, worldVars, FlagType, AttemptType, AttemptsOK, WorldType
<1>3. CoordType'
  <2>1. CASE \E h \in Hosts : StartHost(h) BY <2>1 DEF CoordType, StartHost
  <2>2. CASE \E h \in Hosts : CloseDone(h) BY <2>2 DEF CoordType, CloseDone
  <2>3. CASE \E h \in Hosts : RenewFails(h) BY <2>3 DEF CoordType, RenewFails
  <2>4. CASE \A h \in Hosts : ~StartHost(h) /\ ~CloseDone(h) /\ ~RenewFails(h)
    BY <2>4 DEF CoordType, coordVars, RecoverPlans, RecoverIntents, PeriodicRecovery, ExpireLease,
                LapseRow, ReleaseStaleOwner
  <2> QED BY <2>1, <2>2, <2>3, <2>4
<1>4. RowType'
  <2>1. ledger' \in [Keys -> Rows]
    BY DEF RowType, Rows, IntentStatuses, RecoverRow, rowVars, StartHost, RecoverPlans, RecoverIntents,
           PeriodicRecovery, RenewFails, ExpireLease, LapseRow, ReleaseStaleOwner, CloseDone
  <2>2. planSt' \in [Plans -> PlanStatuses]
    BY DEF RowType, PlanStatuses, Terminal, rowVars, StartHost, RecoverPlans, RecoverIntents,
           PeriodicRecovery, RenewFails, ExpireLease, LapseRow, ReleaseStaleOwner, CloseDone
  <2>3. planLease' \in [Plans -> Nat] /\ rowLapsed' \in [Plans -> BOOLEAN]
    BY DEF RowType, rowVars, StartHost, RecoverPlans, RecoverIntents,
           PeriodicRecovery, RenewFails, ExpireLease, LapseRow, ReleaseStaleOwner, CloseDone
  <2> QED BY <2>1, <2>2, <2>3 DEF RowType
<1> QED BY <1>2, <1>3, <1>4

LEMMA CrashType == ASSUME TypeInv, NEW h \in Hosts, Crash(h) PROVE TypeInv'
<1>1. CoordType' /\ RowType' /\ WorldType'
  BY DEF TypeInv, TypeOK, CoordType, RowType, WorldType, rowVars, worldVars, Crash
<1>2. FlagType' /\ AttemptType' /\ AttemptsOK'
  BY EndTasksType DEF Crash
<1> QED BY <1>1, <1>2 DEF TypeInv, TypeOK

LEMMA CloseHostType == ASSUME TypeInv, NEW h \in Hosts, CloseHost(h) PROVE TypeInv'
<1> USE DEF TypeInv, TypeOK, CloseHost
<1>1. CoordType' /\ RowType' /\ WorldType'
  BY DEF CoordType, RowType, WorldType, rowVars, worldVars
<1>2. FlagType' BY DEF FlagType
<1>3. AttemptType' /\ AttemptsOK' BY DEF AttemptType, AttemptsOK
<1> QED BY <1>1, <1>2, <1>3

LEMMA AdmitRefusedType == ASSUME TypeInv, NEW a \in Attempts, AdmitRefused(a) PROVE TypeInv'
  BY EndTasksType, LocalType DEF AdmitRefused, TypeInv, TypeOK

LEMMA ClaimType == ASSUME TypeInv, NEW a \in Attempts, Claim(a) PROVE TypeInv'
<1> USE DEF Claim
<1>1. CoordType' /\ WorldType'
  BY DEF TypeInv, TypeOK, CoordType, WorldType, coordVars, AttemptsOK, Running, Claimed
<1>2. RowType'
  <2>1. token[aHost[a]] \in Nat
    BY DEF TypeInv, TypeOK, AttemptsOK, CoordType, Running, Claimed
  <2> QED BY <2>1 DEF TypeInv, TypeOK, RowType, PlanStatuses
<1>3. FlagType' /\ AttemptType' /\ AttemptsOK'
  <2>1. CASE EndTasks({a}) BY <2>1, EndTasksType
  <2>2. CASE Goto(a, "preflight") /\ UNCHANGED <<aHost, aPlan, cmd, cancel, sent, held, intent, out, verdict>>
    BY <2>2 DEF TypeInv, TypeOK, FlagType, AttemptType, AttemptsOK, Goto, Running, Claimed, InLane, OnCommand
  <2> QED BY <2>1, <2>2
<1> QED BY <1>1, <1>2, <1>3 DEF TypeInv, TypeOK

LEMMA ClaimIntentType == ASSUME TypeInv, NEW a \in Attempts, ClaimIntent(a) PROVE TypeInv'
<1>1. CoordType' /\ WorldType' /\ FlagType'
  BY DEF TypeInv, TypeOK, CoordType, WorldType, FlagType, coordVars, worldVars, ClaimIntent
<1>2. RowType'
  <2>1. /\ token[aHost[a]] \in Nat
        /\ aPlan[a] \in Plans
        /\ cmd[a] \in Nat
    BY KeyAssumption DEF ClaimIntent, TypeInv, TypeOK, AttemptsOK, CoordType, AttemptType, Running, Claimed, InLane
  <2> QED BY <2>1 DEF ClaimIntent, Dispatching, TypeInv, TypeOK, RowType, Rows, IntentStatuses
<1>3. AttemptType'
  <2>1. out' \in [Attempts -> [Cmds -> OutcomeStatuses]]
    BY ConcludeType DEF ClaimIntent, TypeInv, TypeOK, AttemptType, OutcomeStatuses
  <2>2. pc' \in [Attempts -> Running \cup Ended]
    BY GotoType, LabelsRun DEF ClaimIntent, TypeInv, TypeOK, Conclude
  <2> QED BY <2>1, <2>2 DEF ClaimIntent, TypeInv, TypeOK, AttemptType
<1>4. AttemptsOK'
  BY DEF ClaimIntent, TypeInv, TypeOK, AttemptType, AttemptsOK, Conclude, Goto, Running, Claimed, InLane, OnCommand
<1> QED BY <1>1, <1>2, <1>3, <1>4 DEF TypeInv, TypeOK

\* The key of a command that is being processed.
LEMMA KeyInKeys == ASSUME TypeInv, NEW a \in Attempts, pc[a] \in OnCommand PROVE Key(a) \in Keys
<1>1. aPlan[a] \in Plans /\ cmd[a] \in Cmds
  BY DEF TypeInv, AttemptsOK, OnCommand, Running, Claimed
<1> QED BY <1>1, KeyAssumption DEF Key

LEMMA SendType == ASSUME TypeInv, NEW a \in Attempts, Send(a) PROVE TypeInv'
<1> USE DEF TypeInv, TypeOK, Send
<1>1. CoordType' /\ RowType' BY DEF CoordType, RowType, coordVars, rowVars
<1>2. FlagType' BY DEF FlagType
<1>3. AttemptType' /\ AttemptsOK'
  BY DEF AttemptType, AttemptsOK, Goto, Running, Claimed, InLane, OnCommand
<1>4. WorldType'
  <2>1. calls' \in [Keys -> Nat]
    <3>1. Key(a) \in Keys BY KeyInKeys DEF OnCommand, InLane
    <3>2. calls[Key(a)] + 1 \in Nat BY <3>1 DEF WorldType
    <3> QED BY <3>2 DEF WorldType
  <2>2. writer' \in [Keys -> Plans \cup {NoPlan}] BY DEF WorldType, AttemptType
  <2>3. stale[a] \in Nat BY DEF WorldType
  <2>4. stale' = [stale EXCEPT ![a] = stale[a]] \/ stale' = [stale EXCEPT ![a] = stale[a] + 1]
    BY DEF WorldType
  <2>5. stale' \in [Attempts -> Nat] BY <2>3, <2>4 DEF WorldType
  <2> QED BY <2>1, <2>2, <2>5 DEF WorldType
<1> QED BY <1>1, <1>2, <1>3, <1>4

LEMMA AnswerType ==
    ASSUME TypeInv, NEW a \in Attempts,
           NEW r \in {"accepted", "rejected", "unreachable", "raised"}, Answer(a, r)
    PROVE  TypeInv'
<1>1. CoordType' /\ RowType' /\ FlagType'
  BY DEF TypeInv, TypeOK, Answer, CoordType, RowType, FlagType, coordVars, rowVars
<1>2. WorldType' BY DEF TypeInv, TypeOK, Answer, WorldType
<1>3. AttemptType'
  <2>1. out' \in [Attempts -> [Cmds -> OutcomeStatuses]]
    BY ConcludeType DEF Answer, TypeInv, TypeOK, AttemptType, OutcomeStatuses, Unreachable
  <2>2. pc' \in [Attempts -> Running \cup Ended]
    BY GotoType, LabelsRun DEF Answer, TypeInv, TypeOK, Conclude
  <2> QED BY <2>1, <2>2 DEF Answer, TypeInv, TypeOK, AttemptType
<1>4. AttemptsOK'
  BY DEF Answer, TypeInv, TypeOK, AttemptType, AttemptsOK, Conclude, Goto, Running, Claimed, InLane, OnCommand
<1> QED BY <1>1, <1>2, <1>3, <1>4 DEF TypeInv, TypeOK

\* Settlement keeps a row a row, with the same claimant.
LEMMA SettleRows ==
    ASSUME RowType, NEW a \in Attempts, NEW status \in IntentStatuses, Settle(a, status)
    PROVE  /\ ledger' \in [Keys -> Rows]
           /\ \A k \in Keys : /\ ledger'[k].attempt = ledger[k].attempt
                              /\ ledger'[k].plan = ledger[k].plan
                              /\ ledger'[k].cmd = ledger[k].cmd
                              /\ ledger'[k].epoch = ledger[k].epoch
                              /\ ledger'[k].status # ledger[k].status =>
                                     /\ ledger[k].status \in {"dispatching", "acknowledged"}
                                     /\ ledger'[k].status # "absent"
<1>1. ASSUME NEW row \in Rows
      PROVE  LET new == SettledRow(row, a, status) IN
             /\ new \in Rows /\ new.attempt = row.attempt /\ new.plan = row.plan
             /\ new.cmd = row.cmd /\ new.epoch = row.epoch
             /\ new.status # row.status =>
                    row.status \in {"dispatching", "acknowledged"} /\ new.status # "absent"
  BY DEF Rows, SettledRow, SettleFrom, IntentStatuses
<1>2. CASE intent[a] = "owned"
  <2>1. ledger' = [ledger EXCEPT ![Key(a)] = SettledRow(ledger[Key(a)], a, status)]
    BY <1>2 DEF Settle
  <2>2. \A k \in Keys : ledger'[k] = ledger[k] \/ ledger'[k] = SettledRow(ledger[k], a, status)
    BY <2>1 DEF RowType
  <2>3. \A k \in Keys : ledger[k] \in Rows BY DEF RowType
  <2>4. ledger' \in [Keys -> Rows]
    BY <1>1, <2>1, <2>3 DEF RowType
  <2> QED BY <1>1, <2>2, <2>3, <2>4
<1>3. CASE intent[a] # "owned"
  BY <1>3 DEF Settle, RowType
<1> QED BY <1>2, <1>3

LEMMA SettleAckType == ASSUME TypeInv, NEW a \in Attempts, SettleAck(a) PROVE TypeInv'
<1>1. CoordType' /\ WorldType' /\ FlagType'
  BY DEF TypeInv, TypeOK, SettleAck, CoordType, WorldType, FlagType, coordVars, worldVars
<1>2. RowType'
  BY SettleRows DEF TypeInv, TypeOK, SettleAck, RowType, IntentStatuses
<1>3. AttemptType'
  <2>1. out' \in [Attempts -> [Cmds -> OutcomeStatuses]]
    BY ConcludeType DEF SettleAck, TypeInv, TypeOK, AttemptType, OutcomeStatuses
  <2>2. pc' \in [Attempts -> Running \cup Ended]
    BY GotoType, LabelsRun DEF SettleAck, TypeInv, TypeOK, Conclude
  <2> QED BY <2>1, <2>2 DEF SettleAck, TypeInv, TypeOK, AttemptType
<1>4. AttemptsOK'
  BY DEF SettleAck, TypeInv, TypeOK, AttemptType, AttemptsOK, Conclude, Goto, Running, Claimed, InLane, OnCommand
<1> QED BY <1>1, <1>2, <1>3, <1>4 DEF TypeInv, TypeOK

LEMMA RecordOutcomeType == ASSUME TypeInv, NEW a \in Attempts, RecordOutcome(a) PROVE TypeInv'
<1>1. CoordType' /\ WorldType' /\ FlagType'
  BY DEF TypeInv, TypeOK, RecordOutcome, CoordType, WorldType, FlagType, coordVars, worldVars
<1>2. RowType'
  <2>1. FinalIntent(out[a][cmd[a]]) \in IntentStatuses
    BY DEF FinalIntent, IntentStatuses
  <2> QED BY <2>1, SettleRows DEF TypeInv, TypeOK, RecordOutcome, RowType
<1>3. cmd[a] \in Cmds
  BY DEF RecordOutcome, TypeInv, TypeOK, AttemptsOK, OnCommand
<1>4. AttemptType'
  <2>1. out' \in [Attempts -> [Cmds -> OutcomeStatuses]]
    BY DEF RecordOutcome, TypeInv, TypeOK, AttemptType, OutcomeStatuses
  <2>2. pc' \in [Attempts -> Running \cup Ended]
    BY GotoType, LabelsRun DEF RecordOutcome, TypeInv, TypeOK
  <2>3. cmd' \in [Attempts -> 1..(NumCmds + 1)]
    BY <1>3, KeyAssumption DEF RecordOutcome, TypeInv, TypeOK, AttemptType, Cmds
  <2> QED BY <2>1, <2>2, <2>3 DEF RecordOutcome, TypeInv, TypeOK, AttemptType
<1>5. AttemptsOK'
  BY DEF RecordOutcome, TypeInv, TypeOK, AttemptType, AttemptsOK, Goto, Running, Claimed, InLane, OnCommand
<1> QED BY <1>1, <1>2, <1>4, <1>5 DEF TypeInv, TypeOK

LEMMA SettleExecutionType == ASSUME TypeInv, NEW a \in Attempts, SettleExecution(a) PROVE TypeInv'
<1>1. CoordType' /\ WorldType'
  BY DEF TypeInv, TypeOK, SettleExecution, CoordType, WorldType, coordVars, worldVars
<1>2. RowType'
  BY DEF TypeInv, TypeOK, SettleExecution, RowType, AttemptsOK, PlanStatuses
<1>3. FlagType' /\ AttemptType' /\ AttemptsOK'
  <2>1. CASE EndTasks({a}) BY <2>1, EndTasksType
  <2>2. CASE Goto(a, "except") /\ UNCHANGED <<aHost, aPlan, cmd, cancel, sent, held, intent, out, verdict>>
    BY <2>2 DEF TypeInv, TypeOK, FlagType, AttemptType, AttemptsOK, Goto, Running, Claimed, InLane,
                OnCommand, SettleExecution
  <2> QED BY <2>1, <2>2 DEF SettleExecution
<1> QED BY <1>1, <1>2, <1>3 DEF TypeInv, TypeOK

LEMMA HandleExceptionType == ASSUME TypeInv, NEW a \in Attempts, HandleException(a) PROVE TypeInv'
<1>1. CoordType' /\ WorldType' /\ RowType'
  BY DEF TypeInv, TypeOK, HandleException, CoordType, WorldType, RowType, coordVars,
         MarkUnknown, PlanStatuses, Terminal, AttemptsOK, Running, Claimed
<1>2. FlagType' /\ AttemptType' /\ AttemptsOK'
  BY EndTasksType DEF HandleException
<1> QED BY <1>1, <1>2 DEF TypeInv, TypeOK

\* Every step keeps the inductive type invariant.
LEMMA TypeStep == TypeInv /\ [Next]_vars => TypeInv'
<1> SUFFICES ASSUME TypeInv, [Next]_vars PROVE TypeInv' OBVIOUS
<1>1. CASE UNCHANGED vars
  BY <1>1 DEF vars, coordVars, rowVars, attemptVars, worldVars, TypeInv, TypeOK, CoordType, RowType,
              FlagType, AttemptType, WorldType, AttemptsOK
<1>2. CASE HostStep
  BY <1>2, HostStepType
<1>3. ASSUME NEW h \in Hosts, Crash(h) \/ CloseHost(h) PROVE TypeInv'
  BY <1>3, CrashType, CloseHostType
<1>4. ASSUME NEW a \in Attempts, Step(a) \/ CancelCall(a) PROVE TypeInv'
  BY <1>4, AdmitType, AdmitRefusedType, ClaimType, PreflightType, TakeoverType, SkipCommandType,
     PrepareCommandType, DispatchType, FenceType, ClaimIntentType, NotSentType, ServeReplayType,
     SendType, AnswerType, SettleAckType, ReadbackType, RecordOutcomeType, FinishLoopType,
     SettleExecutionType, HandleExceptionType, CancelCallType DEF Step
<1>5. ASSUME NEW a \in Attempts, NEW h \in Hosts, NEW p \in Plans, Execute(a, h, p) PROVE TypeInv'
  BY <1>5, ExecuteType
<1> QED BY <1>1, <1>2, <1>3, <1>4, <1>5 DEF Next, HostStep

\* Every reachable state is well typed.
THEOREM TypeCorrect == Spec => []TypeOK
<1>1. Spec => []TypeInv
  BY TypeInit, TypeStep, PTL DEF Spec
<1>2. TypeInv => TypeOK BY DEF TypeInv
<1> QED BY <1>1, <1>2, PTL
-----------------------------------------------------------------------------
(* The ledger: one adapter call per idempotency key. *)

\* Where an attempt may hold a claimed intent.
Holding == {"send", "wait", "acked", "refused", "readback", "outcome"}

\* A key without a row was never written; the claimant of a row is the attempt
\* that holds the intent, and until it sends, the key is unwritten.
LedgerInv ==
    /\ \A k \in Keys : calls[k] <= 1 /\ (ledger[k].status = "absent" => calls[k] = 0)
    /\ \A a \in Attempts :
          /\ intent[a] = "owned" => pc[a] \in Holding \cup {"except"}
          /\ pc[a] \in Holding /\ intent[a] = "owned" =>
                 ledger[Key(a)].status # "absent" /\ ledger[Key(a)].attempt = a
          /\ pc[a] = "send" => intent[a] # "none"
          /\ pc[a] = "send" /\ intent[a] = "owned" => calls[Key(a)] = 0

LEMMA LedgerInit == Init => LedgerInv
  BY DEF Init, LedgerInv, NoRow

\* Steps that neither claim, settle nor send.
LEMMA LocalLedger ==
    ASSUME TypeInv, LedgerInv, Fenced, NEW a \in Attempts,
           \/ Admit(a) \/ Preflight(a) \/ Takeover(a) \/ SkipCommand(a) \/ PrepareCommand(a)
           \/ Dispatch(a) \/ Fence(a) \/ NotSent(a) \/ ServeReplay(a) \/ Readback(a)
           \/ FinishLoop(a) \/ CancelCall(a)
    PROVE  LedgerInv'
<1> USE DEF TypeInv, TypeOK, AttemptType
<1>1. /\ UNCHANGED <<calls, ledger, intent, aPlan>>
      /\ \A b \in Attempts : cmd'[b] # cmd[b] => b = a /\ pc[a] = "command" /\ pc'[a] = "command"
  BY DEF Admit, Preflight, Takeover, SkipCommand, PrepareCommand, Dispatch, Fence, NotSent,
         ServeReplay, Readback, FinishLoop, CancelCall, Local, rowVars, worldVars
<1>2. /\ \A b \in Attempts : b # a => pc'[b] = pc[b]
      /\ pc'[a] # "send" \/ pc[a] = "send"
      /\ pc[a] \in Holding => pc'[a] \in Holding \cup {"except"}
      /\ pc[a] # "except" \/ pc'[a] = "except"
      /\ pc'[a] \in Holding => pc[a] \in Holding \cup {"command", "queued", "fence"}
  BY DEF Admit, Preflight, Takeover, RejectPlan, SkipCommand, PrepareCommand, Dispatch, Fence, NotSent,
         ServeReplay, Readback, FinishLoop, CancelCall, Goto, Conclude, Holding
<1>3. \A b \in Attempts : intent[b] = "owned" => Key(b)' = Key(b)
  BY <1>1 DEF LedgerInv, Holding, Key
<1> QED BY <1>1, <1>2, <1>3 DEF LedgerInv, Holding

LEMMA ExecuteLedger ==
    ASSUME TypeInv, LedgerInv, NEW a \in Attempts, NEW h \in Hosts, NEW p \in Plans, Execute(a, h, p)
    PROVE  LedgerInv'
  BY DEF TypeInv, TypeOK, AttemptType, LedgerInv, Execute, Goto, Local, rowVars, worldVars, Key, Holding

\* Ended tasks hold nothing.
LEMMA EndTasksLedger ==
    ASSUME TypeInv, LedgerInv, NEW A, EndTasks(A), UNCHANGED <<calls, ledger>>
    PROVE  LedgerInv'
  BY DEF TypeInv, TypeOK, AttemptType, LedgerInv, EndTasks, Key, Holding

\* Settlement leaves claimants alone and opens no row.
LEMMA SettleLedger ==
    ASSUME TypeInv, LedgerInv, NEW a \in Attempts, pc[a] \in {"acked", "refused", "outcome"},
           SettleAck(a) \/ RecordOutcome(a)
    PROVE  LedgerInv'
<1>1. PICK status \in IntentStatuses : Settle(a, status)
  BY DEF SettleAck, RecordOutcome, FinalIntent, IntentStatuses
<1>2. \A k \in Keys : /\ ledger'[k].attempt = ledger[k].attempt
                      /\ ledger'[k].status = "absent" <=> ledger[k].status = "absent"
  BY <1>1, SettleRows DEF TypeInv, TypeOK
<1>3. /\ UNCHANGED <<calls, aPlan>>
      /\ \A b \in Attempts : b # a => pc'[b] = pc[b] /\ cmd'[b] = cmd[b] /\ intent'[b] = intent[b]
      /\ intent'[a] = "owned" => intent[a] = "owned" /\ cmd'[a] = cmd[a]
      /\ pc'[a] \in {"readback", "outcome", "command"}
      /\ pc'[a] = "command" => intent'[a] = "none"
  BY DEF TypeInv, TypeOK, AttemptType, SettleAck, RecordOutcome, Conclude, Goto, worldVars
<1>4. \A b \in Attempts : pc[b] \in Holding => Key(b) \in Keys
  BY KeyInKeys DEF Holding, OnCommand, InLane
<1>5. \A b \in Attempts : intent'[b] = "owned" => Key(b)' = Key(b)
  BY <1>3 DEF Key
<1> QED BY <1>2, <1>3, <1>4, <1>5 DEF LedgerInv, Holding
\* A claim finds the row absent, so the key is unwritten and unclaimed.
LEMMA ClaimIntentLedger ==
    ASSUME TypeInv, LedgerInv, NEW a \in Attempts, ClaimIntent(a)
    PROVE  LedgerInv'
<1>1. Key(a) \in Keys
  BY KeyInKeys DEF ClaimIntent, OnCommand, InLane
<1>2. /\ UNCHANGED <<calls, aPlan, cmd>>
      /\ \A b \in Attempts : Key(b)' = Key(b)
  BY DEF ClaimIntent, Key, worldVars
<1>3. \A b \in Attempts : pc[b] \in Holding => Key(b) \in Keys
  BY KeyInKeys DEF Holding, OnCommand, InLane
<1>4. \A b \in Attempts : b # a => pc'[b] = pc[b] /\ intent'[b] = intent[b]
  BY DEF TypeInv, TypeOK, AttemptType, ClaimIntent, Conclude, Goto
<1>5. pc[a] = "ledger" BY DEF ClaimIntent
<1>6. CASE Decision(ledger[Key(a)], a) = "acquired"
  <2>1. ledger[Key(a)].status = "absent"
    BY <1>6 DEF Decision
  <2>2. /\ \/ intent'[a] = "owned" /\ pc'[a] = "send"
           \/ intent'[a] = intent[a] /\ pc'[a] = "except"
        /\ ledger'[Key(a)].status = "dispatching" /\ ledger'[Key(a)].attempt = a
        /\ \A k \in Keys : k # Key(a) => ledger'[k] = ledger[k]
    BY <1>1, <1>6 DEF TypeInv, TypeOK, RowType, AttemptType, ClaimIntent, Dispatching, Goto
  <2> QED BY <1>1, <1>2, <1>3, <1>4, <2>1, <2>2 DEF LedgerInv, Holding
<1>7. CASE Decision(ledger[Key(a)], a) # "acquired"
  <2>1. /\ ledger' = ledger
        /\ intent'[a] # "owned"
        /\ pc'[a] = "send" => intent'[a] # "none"
    BY <1>5, <1>7 DEF TypeInv, TypeOK, AttemptType, ClaimIntent, Conclude, Goto, LedgerInv, Holding
  <2> QED BY <1>2, <1>3, <1>4, <2>1 DEF LedgerInv, Holding
<1> QED BY <1>6, <1>7

\* Only the holder of the intent sends, and it leaves "send" doing so.
LEMMA SendLedger ==
    ASSUME TypeInv, LedgerInv, Fenced, NEW a \in Attempts, Send(a)
    PROVE  LedgerInv'
<1>1. Key(a) \in Keys
  BY KeyInKeys DEF Send, OnCommand, InLane
<1>2. /\ intent[a] = "owned" /\ calls[Key(a)] = 0
      /\ ledger[Key(a)].status # "absent" /\ ledger[Key(a)].attempt = a
  BY DEF Send, LedgerInv, Holding
<1>3. /\ UNCHANGED <<ledger, intent, aPlan, cmd>>
      /\ \A b \in Attempts : Key(b)' = Key(b)
      /\ \A b \in Attempts : b # a => pc'[b] = pc[b]
      /\ pc'[a] = "wait"
  BY DEF TypeInv, TypeOK, AttemptType, Send, Key, Goto, rowVars
<1>4. \A k \in Keys : calls'[k] = IF k = Key(a) THEN 1 ELSE calls[k]
  BY <1>1, <1>2 DEF TypeInv, TypeOK, WorldType, Send
<1>5. \A b \in Attempts : pc[b] \in Holding => Key(b) \in Keys
  BY KeyInKeys DEF Holding, OnCommand, InLane
<1>6. \A b \in Attempts : b # a /\ pc[b] = "send" /\ intent[b] = "owned" => Key(b) # Key(a)
  BY <1>2 DEF LedgerInv, Holding
<1> QED BY <1>1, <1>2, <1>3, <1>4, <1>5, <1>6 DEF LedgerInv, Holding

LEMMA AnswerLedger ==
    ASSUME TypeInv, LedgerInv, NEW a \in Attempts,
           NEW r \in {"accepted", "rejected", "unreachable", "raised"}, Answer(a, r)
    PROVE  LedgerInv'
<1>1. /\ UNCHANGED <<calls, ledger, intent, aPlan, cmd>>
      /\ \A b \in Attempts : Key(b)' = Key(b)
  BY DEF Answer, Key, rowVars
<1>2. /\ \A b \in Attempts : b # a => pc'[b] = pc[b]
      /\ pc[a] = "wait" /\ pc'[a] \in {"acked", "refused", "outcome", "except"}
  BY DEF TypeInv, TypeOK, AttemptType, Answer, Conclude, Goto
<1> QED BY <1>1, <1>2 DEF LedgerInv, Holding

\* Recovery closes rows and opens none; the other host steps leave them alone.
LEMMA HostStepLedger ==
    ASSUME TypeInv, LedgerInv, HostStep \/ (\E h \in Hosts : CloseHost(h))
    PROVE  LedgerInv'
<1>1. UNCHANGED <<calls, pc, aPlan, cmd, intent>>
  BY DEF HostStep, StartHost, RecoverPlans, RecoverIntents, PeriodicRecovery, RenewFails, ExpireLease,
         LapseRow, ReleaseStaleOwner, CloseDone, CloseHost, attemptVars, worldVars
<1>2. \A k \in Keys : /\ ledger'[k].attempt = ledger[k].attempt
                      /\ ledger'[k].status = "absent" <=> ledger[k].status = "absent"
  BY DEF TypeInv, TypeOK, RowType, Rows, IntentStatuses, HostStep, StartHost, RecoverPlans,
         RecoverIntents, RecoverRow, PeriodicRecovery, RenewFails, ExpireLease, LapseRow,
         ReleaseStaleOwner, CloseDone, CloseHost, rowVars
<1>3. \A b \in Attempts : pc[b] \in Holding => Key(b) \in Keys
  BY KeyInKeys DEF Holding, OnCommand, InLane
<1>4. \A b \in Attempts : Key(b)' = Key(b)
  BY <1>1 DEF Key
<1> QED BY <1>1, <1>2, <1>3, <1>4 DEF LedgerInv

LEMMA ClaimLedger == ASSUME TypeInv, LedgerInv, NEW a \in Attempts, Claim(a) PROVE LedgerInv'
<1>1. UNCHANGED <<calls, ledger>>
  BY DEF Claim, worldVars
<1>2. CASE EndTasks({a}) BY <1>1, <1>2, EndTasksLedger
<1>3. CASE Goto(a, "preflight") /\ UNCHANGED <<aHost, aPlan, cmd, cancel, sent, held, intent, out, verdict>>
  BY <1>1, <1>3 DEF TypeInv, TypeOK, AttemptType, LedgerInv, Claim, Goto, Key, Holding
<1> QED BY <1>2, <1>3 DEF Claim

LEMMA SettleExecutionLedger ==
    ASSUME TypeInv, LedgerInv, NEW a \in Attempts, SettleExecution(a)
    PROVE  LedgerInv'
<1>1. UNCHANGED <<calls, ledger>>
  BY DEF SettleExecution, worldVars
<1>2. CASE EndTasks({a}) BY <1>1, <1>2, EndTasksLedger
<1>3. CASE Goto(a, "except") /\ UNCHANGED <<aHost, aPlan, cmd, cancel, sent, held, intent, out, verdict>>
  BY <1>1, <1>3 DEF TypeInv, TypeOK, AttemptType, LedgerInv, SettleExecution, Goto, Key, Holding
<1> QED BY <1>2, <1>3 DEF SettleExecution

LEMMA LedgerStep == TypeInv /\ LedgerInv /\ Fenced /\ [Next]_vars => LedgerInv'
<1> SUFFICES ASSUME TypeInv, LedgerInv, Fenced, [Next]_vars PROVE LedgerInv' OBVIOUS
<1>1. CASE UNCHANGED vars
  BY <1>1 DEF vars, rowVars, attemptVars, worldVars, LedgerInv, Key
<1>2. CASE HostStep \/ (\E h \in Hosts : CloseHost(h))
  BY <1>2, HostStepLedger
<1>3. ASSUME NEW h \in Hosts, Crash(h) PROVE LedgerInv'
  BY <1>3, EndTasksLedger DEF Crash, rowVars, worldVars
<1>4. ASSUME NEW a \in Attempts, Step(a) \/ CancelCall(a) PROVE LedgerInv'
  <2>1. CASE AdmitRefused(a) \/ HandleException(a)
    BY <2>1, EndTasksLedger DEF AdmitRefused, HandleException, Local, rowVars, worldVars
  <2>2. CASE SettleAck(a) \/ RecordOutcome(a)
    BY <2>2, SettleLedger DEF SettleAck, RecordOutcome
  <2> QED BY <1>4, <2>1, <2>2, LocalLedger, ClaimLedger, ClaimIntentLedger, SendLedger, AnswerLedger,
             SettleExecutionLedger DEF Step
<1>5. ASSUME NEW a \in Attempts, NEW h \in Hosts, NEW p \in Plans, Execute(a, h, p) PROVE LedgerInv'
  BY <1>5, ExecuteLedger
<1> QED BY <1>1, <1>2, <1>3, <1>4, <1>5 DEF Next, HostStep

\* The adapter is called at most once for an idempotency key, whatever the
\* hosts, crashes, failovers, recoveries and repeated execute() calls.
THEOREM AdapterCalledOnce == Spec => []AtMostOneWrite
<1>1. CASE Fenced
  <2>1. Spec => []TypeInv
    BY TypeInit, TypeStep, PTL DEF Spec
  <2>2. TypeInv /\ LedgerInv /\ [Next]_vars => LedgerInv'
    BY <1>1, LedgerStep
  <2>3. LedgerInv => AtMostOneWrite
    BY DEF LedgerInv, AtMostOneWrite
  <2> QED BY <2>1, <2>2, <2>3, LedgerInit, PTL DEF Spec
<1>2. CASE ~Fenced
  <2>1. AtMostOneWrite BY <1>2 DEF AtMostOneWrite
  <2> QED BY <2>1, PTL
<1> QED BY <1>1, <1>2
-----------------------------------------------------------------------------
(* Leases: a deposed host, a claimed plan. *)

\* Tokens are epochs already given out, a host that runs has one, and a task
\* runs only on a host that runs.
LeaseInv ==
    /\ lease <= epoch
    /\ \A h \in Hosts : /\ token[h] <= epoch
                        /\ Fenced /\ phase[h] # "down" => token[h] # 0
                        /\ ~Fenced => lease = 0 /\ token[h] = 0
    /\ \A a \in Attempts : pc[a] \in Running => phase[aHost[a]] \in {"up", "closing"}

\* An attempt that wrote without the lease has lost it for good and is past the
\* point where it could write again.
StaleInv ==
    \A a \in Attempts :
        /\ stale[a] <= 1
        /\ stale[a] = 1 => /\ pc[a] # "idle"
                           /\ pc[a] \in Running => /\ lease # token[aHost[a]]
                                                   /\ pc[a] \notin {"ledger", "send"}

\* A claimed plan left the claimable states, and its row carries the epoch of
\* the one attempt that runs it.
ClaimInv ==
    /\ DurablePlans => \A a \in Attempts : pc[a] \in Claimed =>
          /\ planSt[aPlan[a]] \notin Claimable
          /\ planLease[aPlan[a]] = token[aHost[a]]
    /\ OneExecutorPerPlan
    /\ ~DurablePlans => \A p \in Plans : planSt[p] \in Claimable

LEMMA LeaseInit == Init => LeaseInv /\ StaleInv /\ ClaimInv
<1> SUFFICES ASSUME Init PROVE LeaseInv /\ StaleInv /\ ClaimInv OBVIOUS
<1>1. LeaseInv /\ StaleInv
  BY DEF Init, LeaseInv, StaleInv, Running, Claimed, InLane
<1>2. ClaimInv
  BY DEF Init, ClaimInv, OneExecutorPerPlan, Claimed, InLane, Claimable
<1> QED BY <1>1, <1>2

\* What the steps of attempt a, other than the claim of its plan, may change.
LEMMA StepFrame ==
    ASSUME TypeInv, NEW a \in Attempts, Step(a) \/ CancelCall(a)
    PROVE  /\ UNCHANGED coordVars
           /\ \A b \in Attempts : b # a => pc'[b] = pc[b] /\ aHost'[b] = aHost[b] /\ aPlan'[b] = aPlan[b]
           /\ pc'[a] \in Running => pc[a] \in Running /\ aHost'[a] = aHost[a] /\ aPlan'[a] = aPlan[a]
           /\ pc'[a] # "idle"
           /\ pc'[a] \in Claimed /\ pc[a] \notin Claimed => Claim(a)
           /\ pc'[a] \in {"ledger", "send"} /\ pc[a] \notin {"ledger", "send"} =>
                  Fence(a) /\ FenceOpen(aHost[a])
<1> USE DEF TypeInv, TypeOK, AttemptType
<1>1. CASE \/ Admit(a) \/ Preflight(a) \/ Takeover(a) \/ SkipCommand(a) \/ PrepareCommand(a)
           \/ Dispatch(a) \/ NotSent(a) \/ ServeReplay(a) \/ Readback(a)
           \/ FinishLoop(a) \/ CancelCall(a)
  BY <1>1 DEF Admit, Preflight, Takeover, RejectPlan, SkipCommand, PrepareCommand, Dispatch, NotSent,
         ServeReplay, Readback, FinishLoop, CancelCall, Goto, Conclude, Local, Running, Claimed, InLane
<1>2. CASE Fence(a)
  BY <1>2 DEF Fence, Goto, Conclude, Local, Running, Claimed, InLane
<1>3. CASE ClaimIntent(a) \/ Send(a) \/ SettleAck(a) \/ RecordOutcome(a)
  BY <1>3 DEF ClaimIntent, Send, SettleAck, RecordOutcome, Goto, Conclude, Running, Claimed, InLane
<1>4. ASSUME NEW r \in {"accepted", "rejected", "unreachable", "raised"}, Answer(a, r)
      PROVE  /\ UNCHANGED <<coordVars, aHost, aPlan>>
             /\ \A b \in Attempts : b # a => pc'[b] = pc[b]
             /\ pc[a] = "wait" /\ pc'[a] \in {"acked", "refused", "outcome", "except"}
  BY <1>4 DEF Answer, Goto, Conclude
<1>5. CASE AdmitRefused(a) \/ HandleException(a)
  BY <1>5 DEF AdmitRefused, HandleException, EndTasks, Local, Running, Claimed, InLane
<1>6. CASE Claim(a) \/ SettleExecution(a)
  BY <1>6 DEF Claim, SettleExecution, Goto, EndTasks, Running, Claimed, InLane
<1>7. ASSUME NEW r \in {"accepted", "rejected", "unreachable", "raised"}, Answer(a, r)
      PROVE  /\ UNCHANGED coordVars
             /\ \A b \in Attempts : b # a => pc'[b] = pc[b] /\ aHost'[b] = aHost[b] /\ aPlan'[b] = aPlan[b]
             /\ pc'[a] \in Running => pc[a] \in Running /\ aHost'[a] = aHost[a] /\ aPlan'[a] = aPlan[a]
             /\ pc'[a] # "idle"
             /\ pc'[a] \notin {"ledger", "send"}
             /\ pc[a] \in Claimed
  BY <1>4, <1>7 DEF coordVars, Running, Claimed, InLane
<1> QED BY <1>1, <1>2, <1>3, <1>5, <1>6, <1>7 DEF Step
LEMMA LeaseStep == TypeInv /\ LeaseInv /\ [Next]_vars => LeaseInv'
<1> SUFFICES ASSUME TypeInv, LeaseInv, [Next]_vars PROVE LeaseInv' OBVIOUS
<1> USE ConstantsAssumption DEF TypeInv, TypeOK, CoordType, AttemptType
<1>1. CASE UNCHANGED vars
  BY <1>1 DEF vars, coordVars, attemptVars, LeaseInv
<1>2. ASSUME NEW h \in Hosts, StartHost(h) PROVE LeaseInv'
  <2>1. \A a \in Attempts : pc[a] \in Running => aHost[a] \in Hosts \ {h}
    BY <1>2 DEF AttemptsOK, LeaseInv, StartHost
  <2>2. \A a \in Attempts : pc'[a] \in Running => phase'[aHost'[a]] \in {"up", "closing"}
    BY <1>2, <2>1 DEF LeaseInv, StartHost, attemptVars
  <2>3. /\ epoch' = epoch + 1 /\ lease' <= epoch' /\ (~Fenced => lease' = 0)
        /\ \A g \in Hosts : g # h => token'[g] = token[g] /\ phase'[g] = phase[g]
        /\ token'[h] <= epoch' /\ (Fenced => token'[h] # 0) /\ (~Fenced => token'[h] = 0)
    BY <1>2 DEF StartHost
  <2> QED BY <2>2, <2>3 DEF LeaseInv
<1>3. ASSUME NEW h \in Hosts, RecoverPlans(h) \/ RecoverIntents(h) PROVE LeaseInv'
  BY <1>3 DEF RecoverPlans, RecoverIntents, attemptVars, AttemptsOK, LeaseInv
<1>4. ASSUME NEW h \in Hosts, CloseDone(h) PROVE LeaseInv'
  <2>1. \A a \in Attempts : pc[a] \in Running => aHost[a] \in Hosts \ {h}
    BY <1>4 DEF AttemptsOK, CloseDone
  <2>2. \A a \in Attempts : pc'[a] \in Running => phase'[aHost'[a]] \in {"up", "closing"}
    BY <1>4, <2>1 DEF LeaseInv, CloseDone, attemptVars
  <2> QED BY <1>4, <2>2 DEF LeaseInv, CloseDone
<1>5. ASSUME NEW h \in Hosts, Crash(h) PROVE LeaseInv'
  <2>1. \A a \in Attempts : pc'[a] \in Running =>
            pc[a] \in Running /\ aHost'[a] = aHost[a] /\ aHost[a] \in Hosts \ {h}
    BY <1>5 DEF Crash, EndTasks, AttemptsOK, Running, Claimed, InLane
  <2>2. \A a \in Attempts : pc'[a] \in Running => phase'[aHost'[a]] \in {"up", "closing"}
    BY <1>5, <2>1 DEF LeaseInv, Crash
  <2> QED BY <1>5, <2>2 DEF LeaseInv, Crash
<1>6. ASSUME NEW h \in Hosts, CloseHost(h) PROVE LeaseInv'
  BY <1>6 DEF CloseHost, AttemptsOK, LeaseInv
<1>7. CASE \/ \E h \in Hosts : RenewFails(h) \/ \E p \in Plans : PeriodicRecovery(h, p)
           \/ ExpireLease \/ ReleaseStaleOwner
           \/ \E p \in Plans : LapseRow(p)
  BY <1>7 DEF RenewFails, PeriodicRecovery, ExpireLease, ReleaseStaleOwner, LapseRow, LeaseInv,
              attemptVars, coordVars
<1>8. ASSUME NEW a \in Attempts, Step(a) \/ CancelCall(a) PROVE LeaseInv'
  BY <1>8, StepFrame DEF LeaseInv, coordVars
<1>9. ASSUME NEW a \in Attempts, NEW h \in Hosts, NEW p \in Plans, Execute(a, h, p) PROVE LeaseInv'
  BY <1>9 DEF Execute, Local, coordVars, Goto, LeaseInv
<1> QED BY <1>1, <1>2, <1>3, <1>4, <1>5, <1>6, <1>7, <1>8, <1>9 DEF Next

\* A lease once lost never returns to the token that lost it: a new one carries
\* a new epoch.
LEMMA StaleStep == TypeInv /\ LeaseInv /\ StaleInv /\ [Next]_vars => StaleInv'
<1> SUFFICES ASSUME TypeInv, LeaseInv, StaleInv, [Next]_vars PROVE StaleInv' OBVIOUS
<1> USE ConstantsAssumption DEF TypeInv, TypeOK, CoordType, AttemptType
<1>1. CASE UNCHANGED vars
  BY <1>1 DEF vars, coordVars, attemptVars, worldVars, StaleInv
<1>2. ASSUME NEW h \in Hosts, StartHost(h) PROVE StaleInv'
  <2>1. \A a \in Attempts : pc[a] \in Running => aHost[a] \in Hosts \ {h}
    BY <1>2 DEF AttemptsOK, LeaseInv, StartHost
  <2>2. \A a \in Attempts : pc[a] \in Running /\ lease # token[aHost[a]] => lease' # token'[aHost[a]]
    BY <1>2, <2>1 DEF LeaseInv, StartHost
  <2> QED BY <1>2, <2>2 DEF StaleInv, StartHost, attemptVars, worldVars
<1>3. ASSUME NEW h \in Hosts, RecoverPlans(h) \/ RecoverIntents(h) PROVE StaleInv'
  BY <1>3 DEF RecoverPlans, RecoverIntents, attemptVars, worldVars, StaleInv
<1>4. ASSUME NEW h \in Hosts, CloseDone(h) PROVE StaleInv'
  <2>1. \A a \in Attempts : pc[a] \in Running => aHost[a] \in Hosts \ {h}
    BY <1>4 DEF AttemptsOK, CloseDone
  <2>2. \A a \in Attempts : pc[a] \in Running /\ lease # token[aHost[a]] => lease' # token'[aHost[a]]
    <3> SUFFICES ASSUME NEW a \in Attempts, pc[a] \in Running, lease # token[aHost[a]]
                 PROVE  lease' # token'[aHost[a]]
      OBVIOUS
    <3>1. token'[aHost[a]] = token[aHost[a]] BY <1>4, <2>1 DEF CloseDone
    <3>2. CASE Fenced
      <4>1. token[aHost[a]] # 0 BY <2>1, <3>2 DEF LeaseInv
      <4> QED BY <1>4, <3>1, <4>1 DEF CloseDone
    <3>3. CASE ~Fenced BY <1>4, <3>1, <3>3 DEF CloseDone
    <3> QED BY <3>2, <3>3
  <2> QED BY <1>4, <2>2 DEF StaleInv, CloseDone, attemptVars, worldVars
<1>5. ASSUME NEW h \in Hosts, Crash(h) PROVE StaleInv'
  <2>1. \A a \in Attempts : pc'[a] \in Running =>
            pc[a] \in Running /\ pc'[a] = pc[a] /\ aHost'[a] = aHost[a] /\ aHost[a] \in Hosts \ {h}
    BY <1>5 DEF Crash, EndTasks, AttemptsOK, Running, Claimed, InLane
  <2>2. \A a \in Attempts : pc'[a] = "idle" => pc[a] = "idle"
    BY <1>5 DEF Crash, EndTasks
  <2> QED BY <1>5, <2>1, <2>2 DEF StaleInv, Crash, worldVars
<1>6. ASSUME NEW h \in Hosts, CloseHost(h) PROVE StaleInv'
  BY <1>6 DEF CloseHost, StaleInv, worldVars
<1>7. CASE ExpireLease
  <2>1. \A a \in Attempts : pc[a] \in Running /\ lease # token[aHost[a]] => token[aHost[a]] # 0
    <3> SUFFICES ASSUME NEW a \in Attempts, pc[a] \in Running, lease # token[aHost[a]]
                 PROVE  token[aHost[a]] # 0
      OBVIOUS
    <3>1. aHost[a] \in Hosts BY DEF AttemptsOK
    <3>2. CASE Fenced BY <3>1, <3>2 DEF LeaseInv
    <3>3. CASE ~Fenced BY <3>1, <3>3 DEF LeaseInv
    <3> QED BY <3>2, <3>3
  <2> QED BY <1>7, <2>1 DEF ExpireLease, StaleInv, attemptVars, worldVars
<1>8. CASE \/ \E h \in Hosts : RenewFails(h) \/ \E p \in Plans : PeriodicRecovery(h, p)
           \/ ReleaseStaleOwner
           \/ \E p \in Plans : LapseRow(p)
  BY <1>8 DEF RenewFails, PeriodicRecovery, ReleaseStaleOwner, LapseRow, StaleInv,
              attemptVars, coordVars, worldVars
<1>9. ASSUME NEW a \in Attempts, Step(a) \/ CancelCall(a) PROVE StaleInv'
  <2>1. CASE Send(a)
    <3>1. pc'[a] = "wait" /\ pc[a] = "send" /\ \A b \in Attempts : b # a => pc'[b] = pc[b]
      BY <2>1 DEF Send, Goto
    <3>2. stale[a] \in Nat /\ stale[a] # 1 /\ stale[a] <= 1
      BY <3>1 DEF StaleInv, WorldType, Running, Claimed, InLane
    <3>3. /\ stale'[a] <= 1
          /\ stale'[a] = 1 => lease # token[aHost[a]]
          /\ \A b \in Attempts : b # a => stale'[b] = stale[b]
      <4>1. stale' = [stale EXCEPT ![a] = IF lease = token[aHost[a]] THEN stale[a] ELSE stale[a] + 1]
        BY <2>1 DEF Send
      <4>2. stale'[a] = IF lease = token[aHost[a]] THEN stale[a] ELSE stale[a] + 1
        BY <4>1 DEF WorldType
      <4>3. \A b \in Attempts : b # a => stale'[b] = stale[b]
        BY <4>1 DEF WorldType
      <4>4. stale'[a] <= 1 /\ (stale'[a] = 1 => lease # token[aHost[a]])
        <5>1. CASE lease = token[aHost[a]] BY <3>2, <4>2, <5>1
        <5>2. CASE lease # token[aHost[a]] BY <3>2, <4>2, <5>2
        <5> QED BY <5>1, <5>2
      <4> QED BY <4>3, <4>4
    <3>4. UNCHANGED <<lease, token, aHost>>
      BY <2>1 DEF Send, coordVars
    <3> QED BY <3>1, <3>3, <3>4 DEF StaleInv
  <2>2. CASE ~Send(a)
    <3>1. stale' = stale
      BY <1>9, <2>2 DEF Step, CancelCall, Admit, AdmitRefused, Claim, Preflight, Takeover, SkipCommand,
         PrepareCommand, Dispatch, Fence, ClaimIntent, NotSent, ServeReplay, Answer, SettleAck, Readback,
         RecordOutcome, FinishLoop, SettleExecution, HandleException, Local, worldVars
    <3>2. stale[a] = 1 /\ pc[a] \in Running => ~FenceOpen(aHost[a]) 
      <4> SUFFICES ASSUME stale[a] = 1, pc[a] \in Running PROVE ~FenceOpen(aHost[a])
        OBVIOUS
      <4>1. lease # token[aHost[a]] /\ aHost[a] \in Hosts BY DEF StaleInv, AttemptsOK
      <4>2. Fenced BY <4>1 DEF LeaseInv
      <4> QED BY <4>1, <4>2 DEF FenceOpen, Writable, Current
    <3> QED BY <1>9, <3>1, <3>2, StepFrame DEF StaleInv, coordVars
  <2> QED BY <2>1, <2>2
<1>10. ASSUME NEW a \in Attempts, NEW h \in Hosts, NEW p \in Plans, Execute(a, h, p) PROVE StaleInv'
  BY <1>10 DEF Execute, Local, coordVars, worldVars, Goto, StaleInv, WorldType
<1> QED BY <1>1, <1>2, <1>3, <1>4, <1>5, <1>6, <1>7, <1>8, <1>9, <1>10 DEF Next
LEMMA ClaimStep == TypeInv /\ LeaseInv /\ ClaimInv /\ [Next]_vars => ClaimInv'
<1> SUFFICES ASSUME TypeInv, LeaseInv, ClaimInv, [Next]_vars PROVE ClaimInv' OBVIOUS
<1> USE DEF TypeInv, TypeOK, CoordType, AttemptType, Claimable
<1>1. CASE UNCHANGED vars
  BY <1>1 DEF vars, coordVars, rowVars, attemptVars, ClaimInv, OneExecutorPerPlan
<1>2. ASSUME NEW h \in Hosts, StartHost(h) \/ CloseDone(h) PROVE ClaimInv'
  <2>1. \A a \in Attempts : pc[a] \in Claimed => aHost[a] \in Hosts \ {h}
    BY <1>2 DEF AttemptsOK, LeaseInv, StartHost, CloseDone, Running
  <2>2. \A a \in Attempts : pc[a] \in Claimed => token'[aHost[a]] = token[aHost[a]]
    BY <1>2, <2>1 DEF StartHost, CloseDone
  <2> QED BY <1>2, <2>2 DEF StartHost, CloseDone, rowVars, attemptVars, ClaimInv, OneExecutorPerPlan
<1>3. ASSUME NEW h \in Hosts, Crash(h) PROVE ClaimInv'
  <2>1. \A a \in Attempts : pc'[a] \in Claimed =>
            /\ pc[a] \in Claimed /\ aHost'[a] = aHost[a] /\ aPlan'[a] = aPlan[a]
            /\ aHost[a] \in Hosts \ {h}
    BY <1>3 DEF Crash, EndTasks, AttemptsOK, Running, Claimed, InLane
  <2>2. \A a \in Attempts : pc'[a] \in Claimed => token'[aHost[a]] = token[aHost[a]]
    BY <1>3, <2>1 DEF Crash
  <2> QED BY <1>3, <2>1, <2>2 DEF Crash, rowVars, ClaimInv, OneExecutorPerPlan
<1>4. CASE \/ \E h \in Hosts : RecoverPlans(h) \/ \E p \in Plans : PeriodicRecovery(h, p)
  <2>1. UNCHANGED <<token, planLease, pc, aHost, aPlan>>
    BY <1>4 DEF RecoverPlans, PeriodicRecovery, coordVars, attemptVars
  <2>2. \A p \in Plans : planSt'[p] = planSt[p] \/ (planSt[p] = "executing" /\ planSt'[p] = "unknown")
    BY <1>4 DEF RecoverPlans, PeriodicRecovery, Orphaned, RowType
  <2>3. \A a \in Attempts : pc[a] \in Claimed => aPlan[a] \in Plans
    BY DEF AttemptsOK, Running
  <2> QED BY <2>1, <2>2, <2>3 DEF ClaimInv, OneExecutorPerPlan
<1>5. CASE \/ \E h \in Hosts : RecoverIntents(h) \/ RenewFails(h) \/ CloseHost(h)
           \/ ExpireLease \/ ReleaseStaleOwner
           \/ \E p \in Plans : LapseRow(p)
  BY <1>5 DEF RecoverIntents, RenewFails, CloseHost, ExpireLease, ReleaseStaleOwner, LapseRow,
              coordVars, rowVars, attemptVars, ClaimInv, OneExecutorPerPlan
<1>6. ASSUME NEW a \in Attempts, Claim(a) PROVE ClaimInv'
  <2>1. pc[a] = "claim" /\ aPlan[a] \in Plans /\ token' = token
    BY <1>6 DEF Claim, AttemptsOK, Running, coordVars
  <2>2. /\ \A b \in Attempts : b # a => pc'[b] = pc[b] /\ aHost'[b] = aHost[b] /\ aPlan'[b] = aPlan[b]
        /\ pc'[a] \in Claimed => aHost'[a] = aHost[a] /\ aPlan'[a] = aPlan[a]
    BY <1>6 DEF Claim, Goto, EndTasks, Claimed, InLane
  <2>3. CASE DurablePlans /\ ClaimOpen(aPlan[a])
    <3>1. /\ planSt' = [planSt EXCEPT ![aPlan[a]] = "executing"]
          /\ planLease' = [planLease EXCEPT ![aPlan[a]] = token[aHost[a]]]
      BY <1>6, <2>3 DEF Claim
    <3>2. \A b \in Attempts : pc[b] \in Claimed => aPlan[b] \in Plans \ {aPlan[a]}
      BY <2>3 DEF ClaimOpen, ClaimInv, AttemptsOK, Running
    <3>3. \A b \in Attempts : pc'[b] \in Claimed =>
              planSt'[aPlan'[b]] \notin Claimable /\ planLease'[aPlan'[b]] = token'[aHost'[b]]
      <4> SUFFICES ASSUME NEW b \in Attempts, pc'[b] \in Claimed
                   PROVE  planSt'[aPlan'[b]] \notin Claimable /\ planLease'[aPlan'[b]] = token'[aHost'[b]]
        OBVIOUS
      <4>1. CASE b = a
        BY <2>1, <2>2, <3>1, <4>1 DEF RowType
      <4>2. CASE b # a
        <5>1. planSt[aPlan[b]] \notin Claimable /\ planLease[aPlan[b]] = token[aHost[b]]
          BY <2>2, <2>3, <4>2 DEF ClaimInv
        <5> QED BY <2>1, <2>2, <3>1, <3>2, <4>2, <5>1 DEF RowType
      <4> QED BY <4>1, <4>2
    <3>4. OneExecutorPerPlan'
      BY <2>2, <3>2 DEF ClaimInv, OneExecutorPerPlan
    <3> QED BY <2>3, <3>3, <3>4 DEF ClaimInv
  <2>4. CASE ~(DurablePlans /\ ClaimOpen(aPlan[a]))
    <3>1. UNCHANGED <<planSt, planLease>> /\ (DurablePlans => pc'[a] \notin Claimed)
      BY <1>6, <2>4 DEF Claim, EndTasks, Claimed, InLane
    <3>2. OneExecutorPerPlan'
      BY <2>2, <3>1 DEF ClaimInv, OneExecutorPerPlan
    <3>3. DurablePlans => \A b \in Attempts : pc'[b] \in Claimed =>
              planSt'[aPlan'[b]] \notin Claimable /\ planLease'[aPlan'[b]] = token'[aHost'[b]]
      BY <2>1, <2>2, <3>1 DEF ClaimInv
    <3> QED BY <3>1, <3>2, <3>3 DEF ClaimInv
  <2> QED BY <2>3, <2>4
<1>7. ASSUME NEW a \in Attempts, Step(a) \/ CancelCall(a), ~Claim(a) PROVE ClaimInv'
  <2>1. planLease' = planLease
    BY <1>7 DEF Step, CancelCall, Admit, AdmitRefused, Preflight, Takeover, SkipCommand,
         PrepareCommand, Dispatch, Fence, ClaimIntent, NotSent, ServeReplay, Send, Answer, SettleAck, Readback,
         RecordOutcome, FinishLoop, SettleExecution, HandleException, Local, rowVars
  <2>2. \A p \in Plans : planSt'[p] = planSt[p] \/ (planSt[p] = "executing" /\ planSt'[p] \in Terminal)
    <3>1. CASE SettleExecution(a)
      BY <3>1 DEF SettleExecution, SettleOpen, AttemptsOK, RowType
    <3>2. CASE HandleException(a)
      BY <3>2 DEF HandleException, MarkUnknown, Terminal, RowType
    <3>3. CASE ~SettleExecution(a) /\ ~HandleException(a)
      BY <1>7, <3>3 DEF Step, CancelCall, Admit, AdmitRefused, Preflight, Takeover, SkipCommand,
         PrepareCommand, Dispatch, Fence, ClaimIntent, NotSent, ServeReplay, Send, Answer, SettleAck, Readback,
         RecordOutcome, FinishLoop, Local, rowVars
    <3> QED BY <3>1, <3>2, <3>3
  <2>3. ~DurablePlans => \A p \in Plans : planSt[p] # "executing"
    BY DEF ClaimInv
  <2>4. \A b \in Attempts : pc[b] \in Claimed => aPlan[b] \in Plans
    BY DEF AttemptsOK, Running
  <2>5. \A b \in Attempts : pc'[b] \in Claimed =>
            pc[b] \in Claimed /\ aHost'[b] = aHost[b] /\ aPlan'[b] = aPlan[b]
    BY <1>7, StepFrame DEF Running
  <2>6. token' = token BY <1>7, StepFrame DEF coordVars
  <2>7. OneExecutorPerPlan'
    BY <2>5 DEF ClaimInv, OneExecutorPerPlan
  <2>8. ~DurablePlans => \A p \in Plans : planSt'[p] \in Claimable
    BY <2>2, <2>3 DEF ClaimInv
  <2>9. ASSUME DurablePlans, NEW b \in Attempts, pc'[b] \in Claimed
        PROVE  planSt'[aPlan'[b]] \notin Claimable /\ planLease'[aPlan'[b]] = token'[aHost'[b]]
    <3>1. planSt[aPlan[b]] \notin Claimable /\ planLease[aPlan[b]] = token[aHost[b]]
      BY <2>5, <2>9 DEF ClaimInv
    <3> QED BY <2>1, <2>2, <2>4, <2>5, <2>6, <2>9, <3>1 DEF Terminal
  <2> QED BY <2>7, <2>8, <2>9 DEF ClaimInv
<1>8. ASSUME NEW a \in Attempts, NEW h \in Hosts, NEW p \in Plans, Execute(a, h, p) PROVE ClaimInv'
  BY <1>8 DEF Execute, Local, coordVars, rowVars, Goto, ClaimInv, OneExecutorPerPlan, Claimed, InLane
<1> QED BY <1>1, <1>2, <1>3, <1>4, <1>5, <1>6, <1>7, <1>8 DEF Next
\* The invariants about leases and claims hold together.
LEMMA LeasesAndClaims == Spec => [](TypeInv /\ LeaseInv /\ StaleInv /\ ClaimInv)
<1>1. TypeInv /\ LeaseInv /\ StaleInv /\ ClaimInv /\ [Next]_vars
        => (TypeInv /\ LeaseInv /\ StaleInv /\ ClaimInv)'
  BY TypeStep, LeaseStep, StaleStep, ClaimStep
<1> QED BY <1>1, TypeInit, LeaseInit, PTL DEF Spec

\* An attempt of a deposed host makes at most one more adapter call, the one
\* whose fence it had passed before the lease was lost.
THEOREM DeposedHostBounded == Spec => []DeposedHostStops
<1>1. StaleInv => DeposedHostStops BY DEF StaleInv, DeposedHostStops
<1> QED BY <1>1, LeasesAndClaims, PTL

\* With a plan repository no two attempts ever run the same plan.
THEOREM PlanClaimedOnce == Spec => []OneExecutorPerPlan
<1>1. ClaimInv => OneExecutorPerPlan BY DEF ClaimInv
<1> QED BY <1>1, LeasesAndClaims, PTL

\* The steps that write a plan row or a ledger row.
RowWrite ==
    \/ \E h \in Hosts : RecoverPlans(h) \/ RecoverIntents(h) \/ \E p \in Plans : PeriodicRecovery(h, p)
    \/ \E a \in Attempts : \/ Claim(a) \/ ClaimIntent(a) \/ SettleAck(a) \/ RecordOutcome(a)
                           \/ SettleExecution(a) \/ HandleException(a)

LEMMA RowFrame == ASSUME [Next]_vars PROVE RowWrite \/ UNCHANGED <<planSt, ledger>>
<1>1. CASE UNCHANGED vars BY <1>1 DEF vars, rowVars
<1>2. ASSUME NEW h \in Hosts, StartHost(h) \/ RenewFails(h) \/ Crash(h) \/ CloseHost(h) \/ CloseDone(h)
      PROVE  UNCHANGED <<planSt, ledger>>
  BY <1>2 DEF StartHost, RenewFails, Crash, CloseHost, CloseDone, rowVars
<1>3. CASE ExpireLease \/ ReleaseStaleOwner \/ \E p \in Plans : LapseRow(p)
  BY <1>3 DEF ExpireLease, ReleaseStaleOwner, LapseRow, rowVars
<1>4. ASSUME NEW a \in Attempts, NEW h \in Hosts, NEW p \in Plans, Execute(a, h, p)
      PROVE  UNCHANGED <<planSt, ledger>>
  BY <1>4 DEF Execute, Local, rowVars
<1>5. ASSUME NEW a \in Attempts,
             \/ Admit(a) \/ AdmitRefused(a) \/ Preflight(a) \/ Takeover(a) \/ SkipCommand(a)
             \/ PrepareCommand(a) \/ Dispatch(a) \/ Fence(a) \/ NotSent(a) \/ ServeReplay(a)
             \/ Readback(a) \/ FinishLoop(a) \/ CancelCall(a)
      PROVE  UNCHANGED <<planSt, ledger>>
  <2>1. Local
    BY <1>5 DEF Admit, AdmitRefused, Preflight, Takeover, SkipCommand, PrepareCommand, Dispatch, Fence,
                NotSent, ServeReplay, Readback, FinishLoop, CancelCall
  <2> QED BY <2>1 DEF Local, rowVars
<1>6. ASSUME NEW a \in Attempts, Send(a) \/ \E r \in {"accepted", "rejected", "unreachable", "raised"} : Answer(a, r)
      PROVE  UNCHANGED <<planSt, ledger>>
  BY <1>6 DEF Send, Answer, rowVars
<1> QED BY <1>1, <1>2, <1>3, <1>4, <1>5, <1>6 DEF Next, Step, RowWrite

\* A settled plan and a settled or claimed ledger row are never rewritten.
THEOREM EvidenceNeverRewritten == Spec => EvidenceIsFinal
<1> DEFINE Final ==
        /\ \A p \in Plans : planSt[p] \in Terminal => planSt'[p] = planSt[p]
        /\ \A k \in Keys :
             ledger[k].status # "absent" =>
                 /\ ledger[k].status \in {"confirmed", "rejected", "unknown"} => ledger'[k] = ledger[k]
                 /\ ledger'[k].attempt = ledger[k].attempt
                 /\ ledger'[k].status # "absent"
<1>1. TypeInv /\ [Next]_vars => Final
  <2> SUFFICES ASSUME TypeInv, [Next]_vars PROVE Final OBVIOUS
  <2> USE DEF TypeInv, TypeOK
  <2>1. CASE UNCHANGED <<planSt, ledger>> BY <2>1
  <2>2. ASSUME NEW h \in Hosts, RecoverPlans(h) \/ (\E p \in Plans : PeriodicRecovery(h, p))
        PROVE  Final
    BY <2>2 DEF RecoverPlans, PeriodicRecovery, Orphaned, Terminal, RowType
  <2>3. ASSUME NEW h \in Hosts, RecoverIntents(h) PROVE Final
    BY <2>3 DEF RecoverIntents, RecoverRow, RowType, Rows
  <2>4. ASSUME NEW a \in Attempts, Claim(a) PROVE Final
    BY <2>4 DEF Claim, ClaimOpen, Claimable, Terminal, RowType
  <2>5. ASSUME NEW a \in Attempts, SettleExecution(a) PROVE Final
    BY <2>5 DEF SettleExecution, SettleOpen, Terminal, RowType
  <2>6. ASSUME NEW a \in Attempts, HandleException(a) PROVE Final
    BY <2>6 DEF HandleException, MarkUnknown, Terminal, RowType
  <2>7. ASSUME NEW a \in Attempts, ClaimIntent(a) PROVE Final
    <3>1. Key(a) \in Keys BY <2>7, KeyInKeys DEF ClaimIntent, OnCommand, InLane
    <3>2. CASE ledger[Key(a)].status = "absent"
      BY <2>7, <3>1, <3>2 DEF ClaimIntent, Dispatching, RowType
    <3>3. CASE ledger[Key(a)].status # "absent"
      <4>1. Decision(ledger[Key(a)], a) # "acquired" BY <3>3 DEF Decision
      <4> QED BY <2>7, <4>1 DEF ClaimIntent
    <3> QED BY <3>2, <3>3
  <2>8. ASSUME NEW a \in Attempts, SettleAck(a) \/ RecordOutcome(a) PROVE Final
    <3>1. UNCHANGED planSt BY <2>8 DEF SettleAck, RecordOutcome
    <3>2. PICK status \in IntentStatuses : Settle(a, status)
      BY <2>8 DEF SettleAck, RecordOutcome, FinalIntent, IntentStatuses
    <3> QED BY <3>1, <3>2 DEF Settle, SettledRow, SettleFrom, IntentStatuses, RowType, Rows
  <2> QED
    BY <2>1, <2>2, <2>3, <2>4, <2>5, <2>6, <2>7, <2>8, RowFrame DEF RowWrite
<1>2. TypeInv /\ [Next]_vars => [Final]_<<planSt, ledger>>
  BY <1>1
<1>3. Spec => []TypeInv BY LeasesAndClaims, PTL
<1> QED BY <1>2, <1>3, PTL DEF Spec, EvidenceIsFinal
\* With leases, neither a recovery pass of another host nor a second attempt
\* closes a plan under the attempt that holds the newest epoch: its row carries
\* that epoch, which no token exceeds, and no one else runs the plan.
THEOREM RecoveryIsFenced == ASSUME Fenced PROVE Spec => RecoverySparesTheLiving
<1> DEFINE Spared == \A p \in Plans : LiveAttempt(p) /\ planSt[p] = "executing" => planSt'[p] # "unknown"
<1>1. TypeInv /\ LeaseInv /\ ClaimInv /\ [Next]_vars => Spared
  <2> SUFFICES ASSUME TypeInv, LeaseInv, ClaimInv, [Next]_vars,
                      NEW p \in Plans, LiveAttempt(p), planSt[p] = "executing"
               PROVE  planSt'[p] # "unknown"
    OBVIOUS
  <2> USE DEF TypeInv, TypeOK
  <2>1. PICK a \in Attempts : /\ aPlan[a] = p /\ pc[a] \in Claimed \ {"settle", "except"}
                              /\ token[aHost[a]] = epoch
    BY DEF LiveAttempt
  <2>2. DurablePlans /\ planLease[p] = epoch
    BY <2>1 DEF ClaimInv, Claimable
  <2>3. \A h \in Hosts : ~Orphaned(h, p)
    BY <2>2 DEF Orphaned, LeaseInv, CoordType
  <2>4. \A b \in Attempts : pc[b] \in {"settle", "except"} => aPlan[b] # p
    BY <2>1, <2>2 DEF ClaimInv, OneExecutorPerPlan, Claimed
  <2>5. CASE UNCHANGED planSt BY <2>5
  <2>6. ASSUME NEW h \in Hosts, RecoverPlans(h) \/ (\E q \in Plans : PeriodicRecovery(h, q))
        PROVE  planSt'[p] # "unknown"
    BY <2>3, <2>6 DEF RecoverPlans, PeriodicRecovery, RowType
  <2>7. ASSUME NEW b \in Attempts, SettleExecution(b) PROVE planSt'[p] # "unknown"
    BY <2>4, <2>7 DEF SettleExecution, RowType
  <2>8. ASSUME NEW b \in Attempts, HandleException(b) PROVE planSt'[p] # "unknown"
    BY <2>4, <2>8 DEF HandleException, MarkUnknown, RowType
  <2>9. ASSUME NEW b \in Attempts, Claim(b) PROVE planSt'[p] # "unknown"
    BY <2>9 DEF Claim, RowType
  <2>10. ASSUME NEW b \in Attempts, ClaimIntent(b) \/ SettleAck(b) \/ RecordOutcome(b) PROVE UNCHANGED planSt
    BY <2>10 DEF ClaimIntent, SettleAck, RecordOutcome
  <2>11. ASSUME NEW h \in Hosts, RecoverIntents(h) PROVE UNCHANGED planSt
    BY <2>11 DEF RecoverIntents
  <2> QED
    BY <2>5, <2>6, <2>7, <2>8, <2>9, <2>10, <2>11, RowFrame DEF RowWrite
<1>2. TypeInv /\ LeaseInv /\ ClaimInv /\ [Next]_vars => [Spared]_vars
  BY <1>1
<1> QED BY <1>2, LeasesAndClaims, PTL DEF Spec, RecoverySparesTheLiving
-----------------------------------------------------------------------------
(* The ledger is honest. *)

\* What a row says of the replies to its key, and that a key without a row had
\* none.
KeyHonest(k) ==
    /\ ledger[k].status = "rejected" => reply[k] \in {"none", "rejected"}
    /\ ledger[k].status \in {"acknowledged", "confirmed"} => reply[k] = "accepted"
    /\ ledger[k].status = "absent" => calls[k] = 0 /\ reply[k] = "none"

\* What the place of the claimant says of the reply and the row: until the
\* answer is in, nobody but recovery can have closed the row.
ClaimantKnows(a) ==
    /\ pc[a] = "send" => reply[Key(a)] = "none"
    /\ pc[a] \in {"send", "wait"} => ledger[Key(a)].status \in {"dispatching", "unknown"}
    /\ pc[a] \in {"acked", "readback"} => reply[Key(a)] = "accepted"
    /\ pc[a] = "refused" => reply[Key(a)] = "rejected"
    /\ pc[a] = "outcome" /\ out[a][cmd[a]] = "confirmed" => reply[Key(a)] = "accepted"
    /\ pc[a] = "outcome" /\ out[a][cmd[a]] = "rejected" => reply[Key(a)] \in {"none", "rejected"}

PlaceHonest(a) ==
    /\ pc[a] \in {"wait", "acked", "refused"} => intent[a] = "owned"
    /\ pc[a] \in Holding /\ intent[a] = "owned" => ClaimantKnows(a)

RowsHonest ==
    /\ \A k \in Keys : KeyHonest(k)
    /\ \A a \in Attempts : PlaceHonest(a)

LEMMA RowsHonestInit == Init => RowsHonest
BY DEF Init, RowsHonest, KeyHonest, PlaceHonest, NoRow, Holding

\* An attempt that does not move keeps what it knows of its key, as long as its
\* row and reply stay or the row is closed as UNKNOWN.
LEMMA BystanderHonest ==
    ASSUME NEW b \in Attempts, PlaceHonest(b),
           pc'[b] = pc[b], intent'[b] = intent[b], cmd'[b] = cmd[b], aPlan'[b] = aPlan[b],
           out'[b] = out[b],
           pc[b] \in Holding /\ intent[b] = "owned" =>
               /\ reply'[Key(b)] = reply[Key(b)]
               /\ \/ ledger'[Key(b)].status = ledger[Key(b)].status
                  \/ ledger'[Key(b)].status = "unknown"
    PROVE  PlaceHonest(b)'
<1>1. Key(b)' = Key(b)
  BY DEF Key
<1> QED
  BY <1>1 DEF PlaceHonest, ClaimantKnows, Holding

\* An attempt without a claim has nothing to know.
LEMMA UnclaimedHonest ==
    ASSUME NEW b \in Attempts, intent'[b] # "owned", pc'[b] \notin {"wait", "acked", "refused"}
    PROVE  PlaceHonest(b)'
BY DEF PlaceHonest

\* Two claimants have two keys.
LEMMA ClaimantsApart ==
    ASSUME LedgerInv, NEW a \in Attempts, NEW b \in Attempts, a # b,
           pc[a] \in Holding, intent[a] = "owned", pc[b] \in Holding, intent[b] = "owned"
    PROVE  Key(a) # Key(b)
BY DEF LedgerInv

\* Steps of an attempt on its own locals.
LEMMA LocalRowsHonest ==
    ASSUME TypeInv, LedgerInv, RowsHonest, Fenced, NEW a \in Attempts,
           \/ Admit(a) \/ Preflight(a) \/ Takeover(a) \/ SkipCommand(a) \/ PrepareCommand(a)
           \/ Dispatch(a) \/ Fence(a) \/ NotSent(a) \/ ServeReplay(a) \/ Readback(a)
           \/ FinishLoop(a) \/ CancelCall(a)
    PROVE  RowsHonest'
<1> USE DEF TypeInv, TypeOK, AttemptType
<1>1. UNCHANGED <<calls, reply, ledger, intent, aPlan>>
  BY DEF Admit, Preflight, Takeover, SkipCommand, PrepareCommand, Dispatch, Fence, NotSent,
         ServeReplay, Readback, FinishLoop, CancelCall, Local, rowVars, worldVars
<1>2. \A k \in Keys : KeyHonest(k)'
  BY <1>1 DEF RowsHonest, KeyHonest
<1>3. ASSUME NEW b \in Attempts, b # a PROVE PlaceHonest(b)'
  <2>1. pc'[b] = pc[b] /\ cmd'[b] = cmd[b] /\ out'[b] = out[b]
    BY <1>3 DEF Admit, Preflight, Takeover, RejectPlan, SkipCommand, PrepareCommand, Dispatch,
           Fence, NotSent, ServeReplay, Readback, FinishLoop, CancelCall, Goto, Conclude
  <2> QED
    BY <1>1, <2>1, BystanderHonest DEF RowsHonest
<1>4. PlaceHonest(a)'
  <2>1. CASE CancelCall(a)
    BY <1>1, <2>1, BystanderHonest DEF RowsHonest, CancelCall
  <2>2. CASE NotSent(a) \/ ServeReplay(a) \/ Readback(a)
    <3>1. cmd' = cmd /\ Key(a)' = Key(a)
      BY <1>1, <2>2 DEF NotSent, ServeReplay, Readback, Key
    <3>2. cmd[a] \in Cmds
      BY <2>2 DEF NotSent, ServeReplay, Readback, AttemptsOK, OnCommand, InLane
    <3>3. CASE NotSent(a)
      <4>1. pc[a] = "send" /\ pc'[a] = "outcome" /\ out'[a][cmd[a]] = "rejected"
        BY <3>2, <3>3 DEF NotSent, Conclude, Goto
      <4> QED
        BY <1>1, <3>1, <4>1 DEF RowsHonest, PlaceHonest, ClaimantKnows, Holding
    <3>4. CASE ServeReplay(a)
      BY <1>1, <3>4, UnclaimedHonest DEF ServeReplay, Goto
    <3>5. CASE Readback(a)
      <4>1. /\ pc[a] = "readback" /\ pc'[a] \in {"outcome", "except"}
            /\ pc'[a] = "outcome" => out'[a][cmd[a]] \in {"confirmed", "unknown"}
        BY <3>2, <3>5 DEF Readback, Conclude, Goto
      <4> QED
        BY <1>1, <3>1, <4>1 DEF RowsHonest, PlaceHonest, ClaimantKnows, Holding
    <3> QED
      BY <2>2, <3>3, <3>4, <3>5
  <2>3. CASE ~CancelCall(a) /\ ~NotSent(a) /\ ~ServeReplay(a) /\ ~Readback(a)
    <3>1. pc[a] \notin Holding \cup {"except"}
      BY <2>3 DEF Admit, Preflight, Takeover, SkipCommand, PrepareCommand, Dispatch, Fence,
                  FinishLoop, Holding
    <3>2. pc'[a] \notin {"wait", "acked", "refused"}
      BY <2>3 DEF Admit, Preflight, Takeover, RejectPlan, SkipCommand, PrepareCommand, Dispatch,
                  Fence, FinishLoop, Goto, Conclude
    <3> QED
      BY <1>1, <3>1, <3>2, UnclaimedHonest DEF LedgerInv
  <2> QED
    BY <2>1, <2>2, <2>3
<1> QED
  BY <1>2, <1>3, <1>4 DEF RowsHonest

LEMMA ExecuteRowsHonest ==
    ASSUME TypeInv, LedgerInv, RowsHonest, NEW a \in Attempts, NEW h \in Hosts, NEW p \in Plans,
           Execute(a, h, p)
    PROVE  RowsHonest'
<1> USE DEF TypeInv, TypeOK, AttemptType
<1>1. UNCHANGED <<calls, reply, ledger, intent, cmd, out>>
  BY DEF Execute, Local, rowVars, worldVars
<1>2. \A k \in Keys : KeyHonest(k)'
  BY <1>1 DEF RowsHonest, KeyHonest
<1>3. ASSUME NEW b \in Attempts, b # a PROVE PlaceHonest(b)'
  <2>1. pc'[b] = pc[b] /\ aPlan'[b] = aPlan[b]
    BY <1>3 DEF Execute, Goto
  <2> QED
    BY <1>1, <2>1, BystanderHonest DEF RowsHonest
<1>4. PlaceHonest(a)'
  BY <1>1, UnclaimedHonest DEF Execute, Goto, LedgerInv, Holding
<1> QED
  BY <1>2, <1>3, <1>4 DEF RowsHonest

LEMMA EndTasksRowsHonest ==
    ASSUME TypeInv, RowsHonest, NEW A, EndTasks(A), UNCHANGED <<calls, reply, ledger>>
    PROVE  RowsHonest'
<1>1. \A k \in Keys : KeyHonest(k)'
  BY DEF RowsHonest, KeyHonest
<1>2. ASSUME NEW b \in Attempts PROVE PlaceHonest(b)'
  <2>1. CASE b \in A
    BY <2>1, UnclaimedHonest DEF EndTasks
  <2>2. CASE b \notin A
    <3>1. /\ pc'[b] = pc[b] /\ intent'[b] = intent[b] /\ cmd'[b] = cmd[b]
          /\ aPlan'[b] = aPlan[b] /\ out'[b] = out[b]
      BY <2>2 DEF EndTasks
    <3> QED
      BY <3>1, BystanderHonest DEF RowsHonest
  <2> QED
    BY <2>1, <2>2
<1> QED
  BY <1>1, <1>2 DEF RowsHonest

\* A claim finds the row absent: no reply yet.
LEMMA ClaimIntentRowsHonest ==
    ASSUME TypeInv, LedgerInv, RowsHonest, NEW a \in Attempts, ClaimIntent(a)
    PROVE  RowsHonest'
<1> USE DEF TypeInv, TypeOK, AttemptType
<1>1. Key(a) \in Keys /\ pc[a] = "ledger" /\ intent[a] # "owned"
  BY KeyInKeys DEF ClaimIntent, OnCommand, InLane, LedgerInv, Holding
<1>2. UNCHANGED <<calls, reply, aPlan, cmd>> /\ Key(a)' = Key(a)
  BY DEF ClaimIntent, Key, worldVars
<1>3. ASSUME NEW b \in Attempts, b # a
      PROVE  pc'[b] = pc[b] /\ intent'[b] = intent[b] /\ out'[b] = out[b]
  BY <1>3 DEF ClaimIntent, Conclude, Goto
<1>4. CASE Decision(ledger[Key(a)], a) = "acquired"
  <2>1. ledger[Key(a)].status = "absent"
    BY <1>4 DEF Decision
  <2>2. /\ \/ intent'[a] = "owned" /\ pc'[a] = "send"
           \/ intent'[a] # "owned" /\ pc'[a] = "except"
        /\ ledger'[Key(a)].status = "dispatching"
        /\ \A k \in Keys : k # Key(a) => ledger'[k] = ledger[k]
    BY <1>1, <1>4 DEF RowType, ClaimIntent, Dispatching, Goto
  <2>3. \A k \in Keys : KeyHonest(k)'
    BY <1>1, <1>2, <2>2 DEF RowsHonest, KeyHonest
  <2>4. PlaceHonest(a)'
    BY <1>1, <1>2, <2>1, <2>2 DEF RowsHonest, KeyHonest, PlaceHonest, ClaimantKnows, Holding
  <2>5. ASSUME NEW b \in Attempts, b # a PROVE PlaceHonest(b)'
    <3>1. pc[b] \in Holding /\ intent[b] = "owned" => Key(b) # Key(a) /\ Key(b) \in Keys
      BY <2>1, KeyInKeys DEF LedgerInv, Holding, OnCommand, InLane
    <3> QED
      BY <1>2, <1>3, <2>2, <2>5, <3>1, BystanderHonest DEF RowsHonest
  <2> QED
    BY <2>3, <2>4, <2>5 DEF RowsHonest
<1>5. CASE Decision(ledger[Key(a)], a) # "acquired"
  <2>1. ledger' = ledger /\ intent'[a] # "owned" /\ pc'[a] \in {"send", "outcome"}
    BY <1>1, <1>5 DEF ClaimIntent, Conclude, Goto
  <2>2. \A k \in Keys : KeyHonest(k)'
    BY <1>2, <2>1 DEF RowsHonest, KeyHonest
  <2>3. PlaceHonest(a)'
    BY <2>1, UnclaimedHonest
  <2>4. ASSUME NEW b \in Attempts, b # a PROVE PlaceHonest(b)'
    BY <1>2, <1>3, <2>1, <2>4, BystanderHonest DEF RowsHonest
  <2> QED
    BY <2>2, <2>3, <2>4 DEF RowsHonest
<1> QED
  BY <1>4, <1>5

\* The call and its answer change the reply to a key whose row is DISPATCHING
\* or UNKNOWN, which say nothing of it.
LEMMA CallRowsHonest ==
    ASSUME TypeInv, LedgerInv, RowsHonest, Fenced, NEW a \in Attempts,
           Send(a) \/ \E r \in {"accepted", "rejected", "unreachable", "raised"} : Answer(a, r)
    PROVE  RowsHonest'
<1> USE DEF TypeInv, TypeOK, AttemptType
<1>1. /\ pc[a] \in {"send", "wait"} /\ intent[a] = "owned"
      /\ UNCHANGED <<ledger, intent, aPlan, cmd>> /\ Key(a)' = Key(a)
  BY DEF Send, Answer, Key, rowVars, LedgerInv, RowsHonest, PlaceHonest
<1>2. Key(a) \in Keys /\ cmd[a] \in Cmds
  BY <1>1, KeyInKeys DEF OnCommand, InLane, AttemptsOK
<1>3. ledger[Key(a)].status \in {"dispatching", "unknown"}
  BY <1>1 DEF RowsHonest, PlaceHonest, ClaimantKnows, Holding
<1>4. \A k \in Keys : k # Key(a) => reply'[k] = reply[k] /\ calls'[k] = calls[k]
  BY <1>2 DEF Send, Answer, WorldType
<1>5. ASSUME NEW b \in Attempts, b # a PROVE pc'[b] = pc[b] /\ out'[b] = out[b]
  BY <1>5 DEF Send, Answer, Conclude, Goto
<1>6. \A k \in Keys : KeyHonest(k)'
  BY <1>1, <1>3, <1>4 DEF RowsHonest, KeyHonest
<1>7. ASSUME NEW b \in Attempts, b # a PROVE PlaceHonest(b)'
  <2>1. pc[b] \in Holding /\ intent[b] = "owned" => Key(b) # Key(a) /\ Key(b) \in Keys
    BY <1>1, <1>7, ClaimantsApart, KeyInKeys DEF Holding, OnCommand, InLane
  <2> QED
    BY <1>1, <1>4, <1>5, <1>7, <2>1, BystanderHonest DEF RowsHonest
<1>8. PlaceHonest(a)'
  <2>1. CASE Send(a)
    <3>1. pc'[a] = "wait"
      BY <2>1 DEF Send, Goto
    <3> QED
      BY <1>1, <1>3, <3>1 DEF PlaceHonest, ClaimantKnows
  <2>2. ASSUME NEW r \in {"accepted", "rejected", "unreachable", "raised"}, Answer(a, r)
        PROVE  PlaceHonest(a)'
    <3>1. reply'[Key(a)] = IF r \in {"accepted", "rejected"} THEN r ELSE "lost"
      BY <1>2, <2>2 DEF Answer, WorldType
    <3>2. \/ r = "accepted" /\ pc'[a] = "acked"
          \/ r = "rejected" /\ pc'[a] = "refused"
          \/ pc'[a] = "outcome" /\ out'[a][cmd[a]] = "unavailable"
          \/ pc'[a] = "except"
      BY <1>2, <2>2 DEF Answer, Goto, Conclude, Unreachable
    <3> QED
      BY <1>1, <3>1, <3>2 DEF PlaceHonest, ClaimantKnows, Holding
  <2> QED
    BY <2>1, <2>2
<1> QED
  BY <1>6, <1>7, <1>8 DEF RowsHonest

\* Settlement moves only the claimant's own row, and only to what it knows.
LEMMA SettleRowsHonest ==
    ASSUME TypeInv, LedgerInv, RowsHonest, NEW a \in Attempts, SettleAck(a) \/ RecordOutcome(a)
    PROVE  RowsHonest'
<1> USE DEF TypeInv, TypeOK, AttemptType
<1>1. /\ pc[a] \in {"acked", "refused", "outcome"}
      /\ UNCHANGED <<calls, reply, aPlan>>
      /\ \A b \in Attempts : b # a => /\ pc'[b] = pc[b] /\ cmd'[b] = cmd[b]
                                      /\ intent'[b] = intent[b] /\ out'[b] = out[b]
  BY DEF SettleAck, RecordOutcome, Conclude, Goto, worldVars
<1>2. Key(a) \in Keys /\ cmd[a] \in Cmds
  BY <1>1, KeyInKeys DEF OnCommand, AttemptsOK
<1>3. PICK status \in IntentStatuses :
         /\ Settle(a, status)
         /\ pc[a] = "acked" => status = "acknowledged"
         /\ pc[a] = "refused" => status = "rejected"
         /\ pc[a] = "outcome" => status = FinalIntent(out[a][cmd[a]])
  BY DEF SettleAck, RecordOutcome, FinalIntent, IntentStatuses
<1>4. CASE intent[a] = "owned"
  <2>1. \A k \in Keys : k # Key(a) => ledger'[k] = ledger[k]
    BY <1>3, <1>4 DEF Settle, RowType
  <2>2. \/ ledger'[Key(a)] = ledger[Key(a)]
        \/ ledger'[Key(a)].status = status
    BY <1>2, <1>3, <1>4 DEF Settle, SettledRow, RowType, Rows
  <2>3. ledger'[Key(a)].status = "absent" => ledger[Key(a)].status = "absent"
    <3>1. status # "absent"
      BY <1>1, <1>3 DEF FinalIntent
    <3> QED
      BY <2>2, <3>1
  <2>4. /\ status = "rejected" => reply[Key(a)] \in {"none", "rejected"}
        /\ status \in {"acknowledged", "confirmed"} => reply[Key(a)] = "accepted"
    BY <1>1, <1>3, <1>4 DEF FinalIntent, RowsHonest, PlaceHonest, ClaimantKnows, Holding
  <2>5. \A k \in Keys : KeyHonest(k)'
    BY <1>1, <1>2, <2>1, <2>2, <2>3, <2>4 DEF RowsHonest, KeyHonest
  <2>6. ASSUME NEW b \in Attempts, b # a PROVE PlaceHonest(b)'
    <3>1. pc[b] \in Holding /\ intent[b] = "owned" => Key(b) # Key(a) /\ Key(b) \in Keys
      BY <1>1, <1>4, <2>6, ClaimantsApart, KeyInKeys DEF Holding, OnCommand, InLane
    <3> QED
      BY <1>1, <2>1, <2>6, <3>1, BystanderHonest DEF RowsHonest
  <2> QED
    <3>1. PlaceHonest(a)'
      <4>1. CASE RecordOutcome(a)
        BY <4>1, UnclaimedHonest DEF RecordOutcome, Goto
      <4>2. CASE SettleAck(a)
        <5>1. intent' = intent /\ cmd' = cmd /\ Key(a)' = Key(a)
          BY <1>1, <4>2 DEF SettleAck, Key
        <5>2. \/ pc[a] = "acked" /\ pc'[a] = "readback"
              \/ pc[a] = "refused" /\ pc'[a] = "outcome" /\ out'[a][cmd[a]] = "rejected"
          BY <1>2, <4>2 DEF SettleAck, Goto, Conclude
        <5> QED
          BY <1>1, <5>1, <5>2 DEF RowsHonest, PlaceHonest, ClaimantKnows, Holding
      <4> QED
        BY <4>1, <4>2
    <3> QED
      BY <2>5, <2>6, <3>1 DEF RowsHonest
<1>5. CASE intent[a] # "owned"
  <2>1. ledger' = ledger /\ pc[a] = "outcome"
    BY <1>1, <1>3, <1>5 DEF Settle, RowsHonest, PlaceHonest
  <2>2. \A k \in Keys : KeyHonest(k)'
    BY <1>1, <2>1 DEF RowsHonest, KeyHonest
  <2>3. PlaceHonest(a)'
    BY <2>1, UnclaimedHonest DEF SettleAck, RecordOutcome, Goto
  <2>4. ASSUME NEW b \in Attempts, b # a PROVE PlaceHonest(b)'
    BY <1>1, <2>1, <2>4, BystanderHonest DEF RowsHonest
  <2> QED
    BY <2>2, <2>3, <2>4 DEF RowsHonest
<1> QED
  BY <1>4, <1>5

\* recover_inflight closes rows as UNKNOWN.
LEMMA HostStepRowsHonest ==
    ASSUME TypeInv, RowsHonest, HostStep \/ (\E h \in Hosts : CloseHost(h))
    PROVE  RowsHonest'
<1>1. UNCHANGED <<calls, reply, pc, aPlan, cmd, intent, out>>
  BY DEF HostStep, StartHost, RecoverPlans, RecoverIntents, PeriodicRecovery, RenewFails, ExpireLease,
         LapseRow, ReleaseStaleOwner, CloseDone, CloseHost, attemptVars, worldVars
<1>2. \A k \in Keys : ledger'[k].status \in {ledger[k].status, "unknown"}
  BY DEF TypeInv, TypeOK, RowType, Rows, HostStep, StartHost, RecoverPlans,
         RecoverIntents, RecoverRow, PeriodicRecovery, RenewFails, ExpireLease, LapseRow,
         ReleaseStaleOwner, CloseDone, CloseHost, rowVars
<1>3. \A k \in Keys : KeyHonest(k)'
  BY <1>1, <1>2 DEF RowsHonest, KeyHonest
<1>4. ASSUME NEW b \in Attempts PROVE PlaceHonest(b)'
  <2>1. pc[b] \in Holding => Key(b) \in Keys
    BY KeyInKeys DEF Holding, OnCommand, InLane
  <2> QED
    BY <1>1, <1>2, <2>1, BystanderHonest DEF RowsHonest
<1> QED
  BY <1>3, <1>4 DEF RowsHonest

LEMMA RowsHonestStep ==
    TypeInv /\ LedgerInv /\ RowsHonest /\ Fenced /\ [Next]_vars => RowsHonest'
<1> SUFFICES ASSUME TypeInv, LedgerInv, RowsHonest, Fenced, [Next]_vars PROVE RowsHonest'
  OBVIOUS
<1>1. CASE UNCHANGED vars
  BY <1>1 DEF vars, rowVars, attemptVars, worldVars, RowsHonest, KeyHonest, PlaceHonest,
              ClaimantKnows, Key
<1>2. CASE HostStep \/ (\E h \in Hosts : CloseHost(h))
  BY <1>2, HostStepRowsHonest
<1>3. ASSUME NEW h \in Hosts, Crash(h) PROVE RowsHonest'
  BY <1>3, EndTasksRowsHonest DEF Crash, rowVars, worldVars
<1>4. ASSUME NEW a \in Attempts, Step(a) \/ CancelCall(a) PROVE RowsHonest'
  <2>1. CASE AdmitRefused(a) \/ HandleException(a)
    BY <2>1, EndTasksRowsHonest DEF AdmitRefused, HandleException, Local, rowVars, worldVars
  <2>2. CASE Claim(a) \/ SettleExecution(a)
    <3>1. UNCHANGED <<calls, reply, ledger>>
      BY <2>2 DEF Claim, SettleExecution, worldVars
    <3>2. CASE EndTasks({a})
      BY <3>1, <3>2, EndTasksRowsHonest
    <3>3. CASE UNCHANGED <<intent, cmd, aPlan, out>> /\ \E l \in {"preflight", "except"} : Goto(a, l)
      <4>1. \A k \in Keys : KeyHonest(k)'
        BY <3>1 DEF RowsHonest, KeyHonest
      <4>2. ASSUME NEW b \in Attempts, b # a PROVE PlaceHonest(b)'
        BY <3>1, <3>3, <4>2, BystanderHonest DEF RowsHonest, Goto, TypeInv, TypeOK, AttemptType
      <4>3. intent[a] # "owned" /\ pc'[a] \in {"preflight", "except"}
        BY <2>2, <3>3 DEF Claim, SettleExecution, LedgerInv, Holding, Goto, TypeInv, TypeOK, AttemptType
      <4> QED
        BY <3>3, <4>1, <4>2, <4>3, UnclaimedHonest DEF RowsHonest
    <3> QED
      BY <2>2, <3>2, <3>3 DEF Claim, SettleExecution
  <2>3. CASE SettleAck(a) \/ RecordOutcome(a)
    BY <2>3, SettleRowsHonest
  <2> QED
    BY <1>4, <2>1, <2>2, <2>3, LocalRowsHonest, ClaimIntentRowsHonest, CallRowsHonest DEF Step
<1>5. ASSUME NEW a \in Attempts, NEW h \in Hosts, NEW p \in Plans, Execute(a, h, p) PROVE RowsHonest'
  BY <1>5, ExecuteRowsHonest
<1> QED
  BY <1>1, <1>2, <1>3, <1>4, <1>5 DEF Next, HostStep

\* Without leases there is no ledger: no row is ever written.
NoLedger == \A k \in Keys : ledger[k].status = "absent"
NoIntent == \A a \in Attempts : pc[a] # "ledger" /\ intent[a] # "owned"

LEMMA NoLedgerStep ==
    ASSUME TypeInv, NoLedger, NoIntent, ~Fenced, [Next]_vars
    PROVE  NoLedger' /\ NoIntent'
<1> USE DEF TypeInv, TypeOK, AttemptType, RowType
<1>1. CASE UNCHANGED vars
  BY <1>1 DEF vars, rowVars, attemptVars, NoLedger, NoIntent
<1>2. CASE HostStep \/ (\E h \in Hosts : CloseHost(h))
  <2>1. UNCHANGED <<pc, intent>>
    BY <1>2 DEF HostStep, StartHost, RecoverPlans, RecoverIntents, PeriodicRecovery, RenewFails,
         ExpireLease, LapseRow, ReleaseStaleOwner, CloseDone, CloseHost, attemptVars
  <2>2. \A k \in Keys : ledger'[k].status = "absent"
    <3>1. CASE \E h \in Hosts : RecoverIntents(h)
      BY <3>1 DEF RecoverIntents, RecoverRow, NoLedger
    <3>2. CASE ~\E h \in Hosts : RecoverIntents(h)
      <4>1. UNCHANGED ledger
        BY <1>2, <3>2 DEF HostStep, StartHost, RecoverPlans, PeriodicRecovery, RenewFails,
             ExpireLease, LapseRow, ReleaseStaleOwner, CloseDone, CloseHost, rowVars
      <4> QED BY <4>1 DEF NoLedger
    <3> QED BY <3>1, <3>2
  <2> QED BY <2>1, <2>2 DEF NoLedger, NoIntent
<1>3. ASSUME NEW A, EndTasks(A), UNCHANGED ledger PROVE NoLedger' /\ NoIntent'
  BY <1>3 DEF EndTasks, NoLedger, NoIntent
<1>4. ASSUME NEW h \in Hosts, Crash(h) PROVE NoLedger' /\ NoIntent'
  BY <1>3, <1>4 DEF Crash, rowVars
<1>5. ASSUME NEW a \in Attempts, Step(a) \/ CancelCall(a) PROVE NoLedger' /\ NoIntent'
  <2>1. CASE AdmitRefused(a) \/ HandleException(a) \/ Claim(a) \/ SettleExecution(a)
    <3>1. UNCHANGED ledger
      BY <2>1 DEF AdmitRefused, HandleException, Claim, SettleExecution, Local, rowVars
    <3>2. CASE EndTasks({a})
      BY <1>3, <3>1, <3>2
    <3>3. CASE UNCHANGED intent /\ \E l \in {"preflight", "except"} : Goto(a, l)
      BY <3>1, <3>3 DEF NoLedger, NoIntent, Goto
    <3> QED
      BY <2>1, <3>2, <3>3 DEF AdmitRefused, HandleException, Claim, SettleExecution
  <2>2. CASE SettleAck(a) \/ RecordOutcome(a)
    BY <2>2 DEF SettleAck, RecordOutcome, Settle, Conclude, Goto, NoLedger, NoIntent
  <2>3. CASE Send(a) \/ \E r \in {"accepted", "rejected", "unreachable", "raised"} : Answer(a, r)
    BY <2>3 DEF Send, Answer, Conclude, Goto, rowVars, NoLedger, NoIntent
  <2>4. CASE \/ Admit(a) \/ Preflight(a) \/ Takeover(a) \/ SkipCommand(a) \/ PrepareCommand(a)
             \/ Dispatch(a) \/ Fence(a) \/ NotSent(a) \/ ServeReplay(a) \/ Readback(a)
             \/ FinishLoop(a) \/ CancelCall(a)
    BY <2>4 DEF Admit, Preflight, Takeover, RejectPlan, SkipCommand, PrepareCommand, Dispatch, Fence,
         NotSent, ServeReplay, Readback, FinishLoop, CancelCall, Local, rowVars, Goto, Conclude,
         NoLedger, NoIntent
  <2>5. ~ClaimIntent(a)
    BY DEF ClaimIntent, NoIntent
  <2> QED
    BY <1>5, <2>1, <2>2, <2>3, <2>4, <2>5 DEF Step
<1>6. ASSUME NEW a \in Attempts, NEW h \in Hosts, NEW p \in Plans, Execute(a, h, p)
      PROVE  NoLedger' /\ NoIntent'
  BY <1>6 DEF Execute, Goto, Local, rowVars, NoLedger, NoIntent
<1> QED
  BY <1>1, <1>2, <1>4, <1>5, <1>6 DEF Next, HostStep

\* A ledger row never promises less than happened, for any hosts, attempts,
\* plans, keys and restarts, with leases or without: settle() writes only what
\* the claiming attempt was told (persistence/coordination.py), and recovery
\* only closes rows as UNKNOWN.
THEOREM LedgerNeverLies == Spec => []LedgerIsHonest
<1>1. Spec => []TypeInv
  BY TypeInit, TypeStep, PTL DEF Spec
<1>2. CASE Fenced
  <2>1. TypeInv /\ LedgerInv /\ RowsHonest /\ [Next]_vars => LedgerInv' /\ RowsHonest'
    BY <1>2, LedgerStep, RowsHonestStep
  <2>2. RowsHonest => LedgerIsHonest
    BY DEF RowsHonest, KeyHonest, LedgerIsHonest
  <2> QED
    BY <1>1, <2>1, <2>2, LedgerInit, RowsHonestInit, PTL DEF Spec
<1>3. CASE ~Fenced
  <2>1. Init => NoLedger /\ NoIntent
    BY DEF Init, NoLedger, NoIntent, NoRow
  <2>2. TypeInv /\ NoLedger /\ NoIntent /\ [Next]_vars => NoLedger' /\ NoIntent'
    BY <1>3, NoLedgerStep
  <2>3. NoLedger => LedgerIsHonest
    BY <1>3 DEF NoLedger, LedgerIsHonest
  <2> QED
    BY <1>1, <2>1, <2>2, <2>3, PTL DEF Spec
<1> QED
  BY <1>2, <1>3
==============================================================================
