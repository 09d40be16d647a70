-------------------------- MODULE BundleSagaProofs --------------------------
(***************************************************************************)
(* What a bundle promises, for every set of plans, every bundle, every         *)
(* interleaving of its saga with sweeps, recovery passes, crashes and lost     *)
(* grants: members act only with consumed authority and after their            *)
(* predecessors completed, and neither the record nor a schedule row tells     *)
(* more than happened.  Clients ask for nothing but cancellations here: with   *)
(* schedule_plan and execute_plan at work on the members of a bundle that is   *)
(* still to be committed, the promises do not hold.                            *)
(*                                                                             *)
(* The argument: a plan that is EXECUTING is in somebody's hands until a crash,*)
(* and then until plan recovery has run (ExecutingIsHeld); only the saga       *)
(* executes members without a row and only the scheduler those with one        *)
(* (RowsInBundle, SagaBinding), so that a row the scheduler settles without    *)
(* executing it belongs to a plan that is READY (HandReady) and stays so       *)
(* (RowTells); recovery never gives back what the saga is about to consume     *)
(* (Reserving).                                                                *)
(***************************************************************************)
EXTENDS ScheduledPlansProofs

\* Clients ask at most for cancellations, which a bundle refuses.
ToolsAside == tPc \in {"idle", "cancel"} /\ xSt["tool"] = "none"

\* Rows belong to members and fall due before the scheduler takes them up; the
\* saga executes members only while there is no row.
RowsInBundle ==
    /\ \A p \in Plans : row[p] # "absent" => p \in MemberSet
    /\ \A p \in sTodo : row[p] # "absent" /\ At[p] <= now
    /\ sPc \in RowPlaces => row[sPlan] # "absent" /\ At[sPlan] <= now
    /\ cPc \in {"save", "reserve", "approve", "split", "member", "exec"} => \A p \in Plans : row[p] = "absent"

\* Nothing happens before the record is saved, and only commit() creates it.
BeforeRecord ==
    /\ bundle.status = "absent" =>
         /\ resv = "none" /\ cPc \in {"idle", "save"}
         /\ sPc \notin {"rec_member", "rec_settle"}
         /\ \A p \in Plans : row[p] = "absent" /\ planSt[p] = "ready"
    /\ cPc = "save" => bundle.status = "absent"

\* commit() executes members, and writes a record that exists.
SagaBinding ==
    /\ xSt["saga"] # "none" => cPc = "exec" /\ xPlan["saga"] \in MemberSet
    /\ cPc \notin {"idle", "save"} => cCopy.status # "absent"

ExecutingIsHeld ==
    \A p \in Plans : planSt[p] = "executing" =>
        \/ sPc \in {"down", "rec_plans"}
        \/ \E c \in Callers : xSt[c] \in Busy /\ xPlan[c] = p

\* The row at hand belongs to a plan that is READY, until it is executed.
BeforeExec == {"inflight", "missed", "missed_member", "evidence", "gate", "gate_row", "gate_member"}
HandReady ==
    /\ sPc \in BeforeExec => planSt[sPlan] = "ready"
    /\ sPc \notin {"inflight_mark", "inflight_row"}
    /\ sPc \in {"gate", "exec"} => row[sPlan] \in {"pending", "cancelled"}

\* Places of commit() before its first member executes or falls due.
Unstarted == {"save", "reserve", "approve", "split", "consume", "undo"}
UnstartedReady ==
    cPc \in Unstarted =>
        /\ Members # <<>>
        /\ \A m \in MemberSet : planSt[m] = "ready"
        /\ cPc = "consume" => \A m \in MemberSet : At[m] > now /\ row[m] = "pending"
        /\ cPc = "undo" => grant # "valid"

\* What a settled row tells of its plan.
Fits(p, status) ==
    /\ status = "executed" => planSt[p] = "completed"
    /\ status = "unknown" => planSt[p] = "unknown"
    /\ status = "failed" => planSt[p] \in {"failed", "ready"}
    /\ status = "missed" => planSt[p] = "ready"
    /\ status = "cancelled" => planSt[p] = "ready" /\ grant # "valid"
RowTells == \A p \in Plans : Fits(p, row[p]) /\ planSt[p] # "cancelled"

\* What a result tells of the persisted outcomes.
ResultTells ==
    \A c \in Callers : xSt[c] = "done" /\ xRes[c] = "confirmed" => outc[xPlan[c]] = "confirmed"

RecordTells(rec) == \A m \in MemberSet : rec.mem[m] = "executed" => outc[m] = "confirmed"
RecordsTell == RecordTells(bundle) /\ RecordTells(cCopy) /\ RecordTells(rCopy)

\* Until the saga consumes the grants, every recovery pass finds members that
\* may need them.
Needing == {"unknown", "scheduled"}
Reserving ==
    /\ cPc \in {"save", "reserve"} => resv = "none"
    /\ cPc \in {"approve", "split", "consume"} => resv \in {"reserved", "committed"}
    /\ cPc \in {"reserve", "approve", "split", "consume"} =>
         /\ \A m \in MemberSet : bundle.mem[m] \in {"pending"} \cup Needing
         /\ sPc \in {"rec_member", "rec_settle"} =>
              \A i \in 1..Len(Members) :
                 /\ rCopy.mem[Members[i]] \in {"pending"} \cup Needing
                 /\ i < rNext => rCopy.mem[Members[i]] \in Needing
    /\ sPc = "rec_settle" => rNext > Len(Members)

Authority == \A p \in Plans : calls[p] > 0 => resv = "committed"

PredDone ==
    \A c \in Callers : xSt[c] = "sent" => \A q \in Pred[xPlan[c]] : outc[q] = "confirmed"

BundleInv ==
    /\ ToolsAside /\ RowsInBundle /\ BeforeRecord /\ SagaBinding /\ ExecutingIsHeld /\ HandReady
    /\ UnstartedReady /\ RowTells /\ ResultTells /\ RecordsTell /\ Reserving /\ Authority /\ PredDone

Base == Control /\ OnceInv /\ StoreType
AllInv == Base /\ BundleInv

-----------------------------------------------------------------------------
LEMMA BundleInit == Init => BundleInv
<1> SUFFICES ASSUME Init PROVE BundleInv
  OBVIOUS
<1>1. \A c \in Callers : xSt[c] = "none"
  BY DEF Init
<1>2. "tool" \in Callers /\ "saga" \in Callers
  BY DEF Callers
<1>3. ToolsAside /\ RowsInBundle /\ BeforeRecord /\ SagaBinding
  BY <1>1, <1>2 DEF Init, ToolsAside, RowsInBundle, BeforeRecord, SagaBinding, RowPlaces, NoBundle
<1>4. ExecutingIsHeld /\ HandReady /\ UnstartedReady /\ RowTells /\ ResultTells /\ PredDone
  BY <1>1 DEF Init, ExecutingIsHeld, HandReady, BeforeExec, UnstartedReady, Unstarted, RowTells, Fits,
              ResultTells, PredDone
<1>5. RecordsTell /\ Reserving /\ Authority
  BY DEF Init, RecordsTell, RecordTells, NoBundle, Reserving, Authority
<1> QED
  BY <1>3, <1>4, <1>5 DEF BundleInv

-----------------------------------------------------------------------------
(* The executor. *)

\* Who may be executing what.
LEMMA Executors ==
    ASSUME AllInv, NEW c \in Callers, xSt[c] # "none"
    PROVE  /\ c \in {"sched", "saga"}
           /\ bundle.status # "absent"
           /\ c = "sched" => /\ sPc \in {"exec", "complete", "record"} /\ xPlan[c] = sPlan
                             /\ row[sPlan] # "absent" /\ sPlan \in MemberSet
           /\ c = "saga" => cPc = "exec" /\ xPlan[c] \in MemberSet /\ row[xPlan[c]] = "absent"
           /\ xPlan[c] \in MemberSet /\ xPlan[c] \in Plans
<1> USE DEF AllInv, Base, BundleInv
<1>1. c \in {"sched", "saga"}
  BY DEF ToolsAside, Callers
<1>2. CASE c = "sched"
  <2>1. sPc \in {"exec", "complete", "record"} /\ xPlan[c] = sPlan
    BY <1>2 DEF StoreType, ResultType
  <2>2. sPc \in RowPlaces
    BY <2>1 DEF RowPlaces
  <2>3. sPlan \in Plans /\ row[sPlan] # "absent" /\ sPlan \in MemberSet
    BY <2>2 DEF RowsInBundle, Control, SchedControl
  <2>4. bundle.status # "absent"
    BY <2>3 DEF BeforeRecord
  <2> QED
    BY <1>2, <2>1, <2>3, <2>4
<1>3. CASE c = "saga"
  <2>1. cPc = "exec" /\ xPlan[c] \in MemberSet
    BY <1>3 DEF SagaBinding
  <2>2. xPlan[c] \in Plans
    BY <2>1, MembersArePlans
  <2> QED
    BY <1>3, <2>1, <2>2 DEF RowsInBundle, BeforeRecord
<1> QED
  BY <1>1, <1>2, <1>3

\* No row at hand, no execution, while commit() has not come to its members.
LEMMA UnstartedQuiet ==
    ASSUME AllInv
    PROVE  /\ cPc \in {"save", "reserve", "approve", "split", "member", "exec", "consume"} => sPc \notin RowPlaces
           /\ cPc \in {"save", "reserve", "approve", "split", "consume"} => \A c \in Callers : xSt[c] = "none"
<1> USE DEF AllInv, Base, BundleInv
<1>1. ASSUME cPc \in {"save", "reserve", "approve", "split", "member", "exec", "consume"}, sPc \in RowPlaces PROVE FALSE
  <2>1. sPlan \in Plans /\ row[sPlan] # "absent" /\ At[sPlan] <= now /\ sPlan \in MemberSet
    BY <1>1 DEF RowsInBundle, Control, SchedControl
  <2>2. cPc = "consume"
    BY <1>1, <2>1 DEF RowsInBundle
  <2>3. At[sPlan] > now
    BY <2>1, <2>2 DEF UnstartedReady, Unstarted
  <2>4. At[sPlan] \in Nat /\ now \in Nat
    BY <2>1, TimeAssumption DEF StoreType, EnvType
  <2> QED
    BY <2>1, <2>3, <2>4
<1>2. ASSUME cPc \in {"save", "reserve", "approve", "split", "consume"}, NEW c \in Callers, xSt[c] # "none" PROVE FALSE
  BY <1>1, <1>2, Executors DEF RowPlaces
<1> QED
  BY <1>1, <1>2

\* Everything but a claim only settles plans that are EXECUTING.
Onward ==
    \A p \in Plans : \/ planSt'[p] = planSt[p]
                     \/ planSt[p] = "executing" /\ planSt'[p] \in {"completed", "failed", "unknown"}

\* What an execution leaves alone.
ExecAside == UNCHANGED <<env, row, bundle, resv, schedVars, sagaVars, toolVars>>

\* Facts about rows, records and results survive the settlement of plans.
LEMMA OnwardKeeps ==
    ASSUME AllInv, Onward, OutcomesFinal
    PROVE  /\ UNCHANGED <<row, grant>> => RowTells'
           /\ UNCHANGED <<bundle, cCopy, rCopy>> => RecordsTell'
           /\ UNCHANGED <<row, cPc, now, grant>> => UnstartedReady'
           /\ UNCHANGED <<row, sPc, sPlan>> => HandReady'
           /\ UNCHANGED <<bundle, resv, row, cPc, sPc>> => BeforeRecord'
           /\ \A q \in Plans : planSt[q] \in TerminalPlan => planSt'[q] = planSt[q]
<1> USE DEF AllInv, BundleInv
<1>1. \A q \in Plans : planSt[q] # "executing" => planSt'[q] = planSt[q]
  BY DEF Onward
<1>2. \A q \in Plans : planSt'[q] # "cancelled"
  BY DEF Onward, RowTells
<1>3. ASSUME UNCHANGED <<row, grant>> PROVE RowTells'
  BY <1>1, <1>2, <1>3 DEF RowTells, Fits
<1>4. ASSUME UNCHANGED <<bundle, cCopy, rCopy>> PROVE RecordsTell'
  BY <1>4, MembersArePlans DEF OutcomesFinal, RecordsTell, RecordTells
<1>5. ASSUME UNCHANGED <<row, cPc, now, grant>> PROVE UnstartedReady'
  BY <1>1, <1>5, MembersArePlans DEF UnstartedReady
<1>6. ASSUME UNCHANGED <<row, sPc, sPlan>> PROVE HandReady'
  <2>1. sPc \in BeforeExec => sPlan \in Plans
    BY DEF BeforeExec, RowPlaces, Base, Control, SchedControl
  <2> QED
    BY <1>1, <1>6, <2>1 DEF HandReady
<1>7. ASSUME UNCHANGED <<bundle, resv, row, cPc, sPc>> PROVE BeforeRecord'
  BY <1>1, <1>7 DEF BeforeRecord
<1> QED
  BY <1>1, <1>3, <1>4, <1>5, <1>6, <1>7 DEF TerminalPlan

\* The parts that do not speak of plans or executions.
LEMMA ExecAsideKeeps ==
    ASSUME AllInv, ExecAside
    PROVE  RowsInBundle' /\ Reserving'
BY DEF AllInv, BundleInv, ExecAside, RowsInBundle, Reserving, env, schedVars, sagaVars

\* Neither an execution nor the loop rewrites outcomes.
LEMMA OutcomesStay ==
    ASSUME AllInv, (\E c \in Callers : Exec(c)) \/ Sweep \/ Sched
    PROVE  OutcomesFinal
BY OutcomesStep DEF AllInv, Base, StoreType, Next

\* An execution takes no step of another caller.
LEMMA ExecAlone ==
    ASSUME AllInv, NEW c \in Callers, Exec(c)
    PROVE  /\ \A d \in Callers : d # c => xSt'[d] = xSt[d] /\ xRes'[d] = xRes[d]
           /\ xPlan' = xPlan /\ xSt[c] \in {"called", "acting", "sent"}
           /\ ToolsAside' /\ SagaBinding'
<1> USE DEF AllInv, Base, BundleInv
<1>1. xPlan' = xPlan /\ xSt[c] \in {"called", "acting", "sent"}
  BY DEF Exec, ExecClaim, ExecRefused, ExecSend, ExecFinish, ExecRaise, Done
<1>2. \A d \in Callers : d # c => xSt'[d] = xSt[d] /\ xRes'[d] = xRes[d]
  BY DEF Exec, ExecClaim, ExecRefused, ExecSend, ExecFinish, ExecRaise, Done, Control, CallControl,
         StoreType, ResultType
<1>3. tPc' = tPc /\ cPc' = cPc /\ cCopy' = cCopy
  BY ExecFrame DEF toolVars, sagaVars
<1>4. c \in {"sched", "saga"}
  BY <1>1, Executors
<1>5. ToolsAside'
  BY <1>2, <1>3, <1>4 DEF ToolsAside, Callers
<1>6. SagaBinding'
  BY <1>1, <1>2, <1>3 DEF SagaBinding, Callers
<1> QED
  BY <1>1, <1>2, <1>5, <1>6

LEMMA ClaimBundle ==
    ASSUME AllInv, NEW c \in Callers, ExecClaim(c)
    PROVE  BundleInv'
<1> USE DEF AllInv, Base, BundleInv
<1>1. Exec(c) /\ ExecAside
  BY ExecFrame DEF Exec, ExecAside
<1>2. PICK p \in Plans : p = xPlan[c] /\ p \in MemberSet
  BY Executors DEF ExecClaim
<1>3. /\ planSt[p] = "ready" /\ At[p] <= now
      /\ bundle.status # "absent" /\ grant = "valid"
  BY <1>2, Executors DEF ExecClaim, Claimable, Admitted, InBundle, ApprovalConsumed
<1>4. /\ \A q \in Plans : planSt'[q] = IF q = p THEN "executing" ELSE planSt[q]
      /\ xSt'[c] = "acting" /\ xRes' = xRes /\ calls' = calls /\ outc' = outc
  BY <1>2 DEF ExecClaim, Control, RowControl, CallControl
<1>5. row[p] \in {"pending", "absent"}
  <2>1. CASE c = "sched"
    <3>1. sPc = "exec" /\ p = sPlan
      BY <1>2, <2>1, Executors DEF ExecClaim, StoreType, ResultType
    <3>2. row[p] \in {"pending", "cancelled"}
      BY <3>1 DEF HandReady
    <3> QED
      BY <1>3, <3>2 DEF RowTells, Fits
  <2>2. CASE c = "saga"
    BY <1>2, <2>2, Executors DEF ExecClaim
  <2> QED
    BY <2>1, <2>2, Executors DEF ExecClaim
<1>6. BeforeRecord'
  BY <1>1, <1>3 DEF BeforeRecord, ExecAside, sagaVars
<1>7. ExecutingIsHeld'
  <2> SUFFICES ASSUME NEW q \in Plans, planSt'[q] = "executing", sPc' \notin {"down", "rec_plans"}
               PROVE  \E d \in Callers : xSt'[d] \in Busy /\ xPlan'[d] = q
    BY DEF ExecutingIsHeld
  <2>1. CASE q = p
    BY <1>1, <1>2, <1>4, <2>1, ExecAlone DEF Busy
  <2>2. CASE q # p
    <3>1. PICK d \in Callers : xSt[d] \in Busy /\ xPlan[d] = q
      BY <1>1, <1>4, <2>2 DEF ExecutingIsHeld, ExecAside, schedVars
    <3> QED
      BY <1>1, <1>2, <2>2, <3>1, ExecAlone
  <2> QED
    BY <2>1, <2>2
<1>8. HandReady'
  <2>1. sPc \in BeforeExec => sPlan # p /\ sPlan \in Plans
    <3> SUFFICES ASSUME sPc \in BeforeExec PROVE sPlan # p /\ sPlan \in Plans
      OBVIOUS
    <3>1. sPc \in RowPlaces /\ sPc \notin {"exec", "complete", "record"}
      BY DEF BeforeExec, RowPlaces
    <3>2. row[sPlan] # "absent" /\ sPlan \in Plans
      BY <3>1 DEF RowsInBundle, Control, SchedControl
    <3> QED
      BY <1>2, <3>1, <3>2, Executors DEF ExecClaim
  <2> QED
    BY <1>1, <1>4, <2>1 DEF HandReady, ExecAside, schedVars
<1>9. UnstartedReady'
  <2>1. cPc \notin Unstarted
    <3>1. cPc \notin {"save", "reserve", "approve", "split", "consume"}
      BY UnstartedQuiet DEF ExecClaim
    <3>2. cPc # "undo"
      BY <1>3 DEF UnstartedReady, Unstarted
    <3> QED
      BY <3>1, <3>2 DEF Unstarted
  <2> QED
    BY <1>1, <2>1 DEF UnstartedReady, ExecAside, sagaVars
<1>10. RowTells'
  BY <1>1, <1>4, <1>5 DEF RowTells, Fits, ExecAside, env
<1>11. ResultTells'
  <2> SUFFICES ASSUME NEW d \in Callers, xSt'[d] = "done"
               PROVE  xRes'[d] = "confirmed" => outc'[xPlan'[d]] = "confirmed"
    BY DEF ResultTells
  <2>1. xSt[d] = "done" /\ xPlan'[d] = xPlan[d] /\ xPlan[d] \in Plans /\ d # c
    BY <1>1, <1>4, ExecAlone, Executors
  <2> QED
    BY <1>3, <1>4, <2>1 DEF ResultTells
<1>12. RecordsTell'
  BY <1>1, <1>3, <1>4, MembersArePlans DEF RecordsTell, RecordTells, ExecAside, schedVars, sagaVars
<1>13. Authority'
  BY <1>1, <1>4 DEF Authority, ExecAside
<1>14. PredDone'
  <2> SUFFICES ASSUME NEW d \in Callers, xSt'[d] = "sent", NEW q \in Pred[xPlan'[d]]
               PROVE  outc'[q] = "confirmed"
    BY DEF PredDone
  <2>1. xSt[d] = "sent" /\ xPlan'[d] = xPlan[d] /\ xPlan[d] \in Plans
    BY <1>1, <1>4, ExecAlone, Executors
  <2>2. q \in Plans /\ outc[q] = "confirmed"
    BY <2>1, PredAssumption, MembersArePlans DEF PredDone
  <2> QED
    BY <1>3, <1>4, <2>2
<1> QED
  BY <1>1, <1>6, <1>7, <1>8, <1>9, <1>10, <1>11, <1>12, <1>13, <1>14, ExecAlone, ExecAsideKeeps

LEMMA SendBundle ==
    ASSUME AllInv, NEW c \in Callers, ExecSend(c)
    PROVE  BundleInv'
<1> USE DEF AllInv, Base, BundleInv
<1>1. Exec(c) /\ ExecAside /\ UNCHANGED <<planSt, outc, xPlan, xRes>> /\ xSt[c] = "acting" /\ xSt'[c] = "sent"
  BY ExecFrame DEF Exec, ExecAside, ExecSend, rows, Control, CallControl
<1>2. PICK p \in Plans : p = xPlan[c] /\ p \in MemberSet
  BY <1>1, Executors
<1>3. /\ bundle.status # "absent" /\ resv = "committed"
      /\ \A q \in Pred[p] : bundle.mem[q] = "executed"
  BY <1>1, <1>2, Executors DEF ExecSend, Admitted, InBundle, ApprovalConsumed, PredecessorsVerified
<1>4. \A q \in Pred[p] : outc[q] = "confirmed"
  BY <1>2, <1>3, PredAssumption DEF RecordsTell, RecordTells
<1>5. Onward /\ OutcomesFinal
  BY <1>1 DEF Onward, OutcomesFinal
<1>6. \A d \in Callers : xSt'[d] \in Busy <=> xSt[d] \in Busy
  BY <1>1, ExecAlone DEF Busy
<1>7. ExecutingIsHeld'
  BY <1>1, <1>6 DEF ExecutingIsHeld, ExecAside, schedVars
<1>8. ResultTells'
  <2>1. \A d \in Callers : xSt'[d] = "done" => xSt[d] = "done"
    BY <1>1, ExecAlone
  <2> QED
    BY <1>1, <2>1 DEF ResultTells
<1>9. Authority'
  BY <1>1, <1>3 DEF Authority, ExecAside
<1>10. PredDone'
  BY <1>1, <1>2, <1>4, ExecAlone DEF PredDone
<1>11. RowTells' /\ RecordsTell' /\ UnstartedReady' /\ HandReady' /\ BeforeRecord'
  BY <1>1, <1>5, OnwardKeeps DEF ExecAside, env, schedVars, sagaVars
<1> QED
  BY <1>1, <1>7, <1>8, <1>9, <1>10, <1>11, ExecAlone, ExecAsideKeeps

\* The end of an execution, whichever way.
LEMMA DoneBundle ==
    ASSUME AllInv, NEW c \in Callers, Exec(c), NEW res, Done(c, res), Onward,
           xSt[c] \in Busy => planSt'[xPlan[c]] # "executing",
           res = "confirmed" => outc'[xPlan[c]] = "confirmed"
    PROVE  BundleInv'
<1> USE DEF AllInv, Base, BundleInv
<1>1. ExecAside /\ calls' = calls /\ xPlan' = xPlan /\ xSt'[c] = "done" /\ xRes'[c] = res
  BY ExecFrame DEF ExecAside, Done, Control, CallControl, StoreType, ResultType
<1>2. OutcomesFinal
  BY OutcomesStay
<1>3. RowTells' /\ RecordsTell' /\ UnstartedReady' /\ HandReady' /\ BeforeRecord'
  BY <1>1, <1>2, OnwardKeeps DEF ExecAside, env, schedVars, sagaVars
<1>4. ExecutingIsHeld'
  <2> SUFFICES ASSUME NEW q \in Plans, planSt'[q] = "executing", sPc' \notin {"down", "rec_plans"}
               PROVE  \E d \in Callers : xSt'[d] \in Busy /\ xPlan'[d] = q
    BY DEF ExecutingIsHeld
  <2>1. planSt[q] = "executing" /\ sPc' = sPc
    BY <1>1 DEF Onward, ExecAside, schedVars
  <2>2. PICK d \in Callers : xSt[d] \in Busy /\ xPlan[d] = q
    BY <2>1 DEF ExecutingIsHeld
  <2> QED
    BY <1>1, <2>2, ExecAlone
<1>5. ResultTells'
  <2> SUFFICES ASSUME NEW d \in Callers, xSt'[d] = "done"
               PROVE  xRes'[d] = "confirmed" => outc'[xPlan'[d]] = "confirmed"
    BY DEF ResultTells
  <2>1. CASE d = c
    BY <1>1, <2>1
  <2>2. CASE d # c
    <3>1. xSt[d] = "done" /\ xRes'[d] = xRes[d] /\ xPlan'[d] = xPlan[d] /\ xPlan[d] \in Plans
      BY <1>1, <2>2, ExecAlone, Executors
    <3> QED
      BY <1>2, <3>1 DEF ResultTells, OutcomesFinal
  <2> QED
    BY <2>1, <2>2
<1>6. Authority'
  BY <1>1 DEF Authority, ExecAside
<1>7. PredDone'
  <2> SUFFICES ASSUME NEW d \in Callers, xSt'[d] = "sent", NEW q \in Pred[xPlan'[d]]
               PROVE  outc'[q] = "confirmed"
    BY DEF PredDone
  <2>1. xSt[d] = "sent" /\ xPlan'[d] = xPlan[d] /\ xPlan[d] \in Plans
    BY <1>1, ExecAlone, Executors
  <2>2. q \in Plans /\ outc[q] = "confirmed"
    BY <2>1, PredAssumption, MembersArePlans DEF PredDone
  <2> QED
    BY <1>2, <2>2 DEF OutcomesFinal
<1> QED
  BY <1>1, <1>3, <1>4, <1>5, <1>6, <1>7, ExecAlone, ExecAsideKeeps

LEMMA ExecBundle ==
    ASSUME AllInv, NEW c \in Callers, Exec(c)
    PROVE  BundleInv'
<1> USE DEF AllInv, Base
<1>1. CASE ExecClaim(c)
  BY <1>1, ClaimBundle
<1>2. CASE ExecSend(c)
  BY <1>2, SendBundle
<1>3. CASE ExecRefused(c)
  <2>1. Done(c, "refused") /\ Onward /\ xSt[c] \notin Busy
    BY <1>3 DEF ExecRefused, Onward, rows, Busy
  <2> QED
    BY <2>1, DoneBundle
<1>4. CASE ExecRaise(c)
  <2>1. PICK p \in Plans : p = xPlan[c]
    BY <1>4, Executors DEF ExecRaise
  <2>2. Done(c, "raised") /\ Onward /\ planSt'[xPlan[c]] # "executing"
    BY <1>4, <2>1 DEF ExecRaise, Onward, Control, RowControl
  <2> QED
    BY <2>2, DoneBundle
<1>5. ASSUME NEW o \in {"confirmed", "failed", "unknown"}, NEW released \in BOOLEAN,
             ExecFinish(c, o, released)
      PROVE  BundleInv'
  <2>1. PICK p \in Plans : p = xPlan[c]
    BY <1>5, Executors DEF ExecFinish
  <2>2. CASE planSt[p] = "executing"
    <3>1. /\ Done(c, o) /\ Onward /\ planSt'[xPlan[c]] = Settlement(o, released)
          /\ outc'[xPlan[c]] = o
      BY <1>5, <2>1, <2>2 DEF ExecFinish, Onward, Settlement, Control, RowControl, StoreType, OutcomesTell
    <3> QED
      BY <1>5, <3>1, DoneBundle DEF Settlement
  <2>3. CASE planSt[p] # "executing"
    <3>1. Done(c, "refused") /\ Onward /\ planSt'[xPlan[c]] # "executing"
      BY <1>5, <2>1, <2>3 DEF ExecFinish, Onward
    <3> QED
      BY <3>1, DoneBundle
  <2> QED
    BY <2>2, <2>3
<1> QED
  BY <1>1, <1>2, <1>3, <1>4, <1>5 DEF Exec

-----------------------------------------------------------------------------
(* The process and its clients. *)

LEMMA TickBundle ==
    ASSUME AllInv, Tick
    PROVE  BundleInv'
<1> USE DEF AllInv, Base, BundleInv
<1>1. now' = now + 1 /\ cPc # "consume" /\ now \in Nat
  BY DEF Tick, StoreType, EnvType
<1>2. UNCHANGED <<crashes, up, grant, rows, execVars, schedVars, sagaVars, toolVars>>
  BY DEF Tick
<1>3. \A p \in Plans : At[p] \in Nat
  BY TimeAssumption
<1>4. RowsInBundle'
  <2>1. \A p \in Plans : At[p] <= now => At[p] <= now'
    BY <1>1, <1>3
  <2>2. sTodo \subseteq Plans /\ (sPc \in RowPlaces => sPlan \in Plans)
    BY DEF Control, SchedControl
  <2> QED
    BY <1>2, <2>1, <2>2 DEF RowsInBundle, rows, schedVars, sagaVars
<1>5. UnstartedReady'
  BY <1>1, <1>2 DEF UnstartedReady, rows, sagaVars
<1>6. ToolsAside' /\ BeforeRecord' /\ SagaBinding' /\ ExecutingIsHeld' /\ HandReady'
  BY <1>2 DEF ToolsAside, BeforeRecord, SagaBinding, ExecutingIsHeld, HandReady, rows, execVars, schedVars,
              sagaVars, toolVars
<1>7. RowTells' /\ ResultTells' /\ RecordsTell' /\ Reserving' /\ Authority' /\ PredDone'
  BY <1>2 DEF RowTells, Fits, ResultTells, RecordsTell, RecordTells, Reserving, Authority, PredDone,
              rows, execVars, schedVars, sagaVars
<1> QED
  BY <1>4, <1>5, <1>6, <1>7

\* Losing the grants only weakens what the cancelled rows rest on.
LEMMA BefallBundle ==
    ASSUME AllInv, NEW fate \in Fates, Befall(fate)
    PROVE  BundleInv'
<1> USE DEF AllInv, Base, BundleInv
<1>1. grant' # "valid"
  BY TimeAssumption DEF Befall
<1>2. UNCHANGED <<now, crashes, up, rows, execVars, schedVars, sagaVars, toolVars>>
  BY DEF Befall
<1>3. RowTells' /\ UnstartedReady'
  BY <1>1, <1>2 DEF RowTells, Fits, UnstartedReady, rows, sagaVars
<1>4. ToolsAside' /\ RowsInBundle' /\ BeforeRecord' /\ SagaBinding' /\ ExecutingIsHeld' /\ HandReady'
  BY <1>2 DEF ToolsAside, RowsInBundle, BeforeRecord, SagaBinding, ExecutingIsHeld, HandReady, rows,
              execVars, schedVars, sagaVars, toolVars
<1>5. ResultTells' /\ RecordsTell' /\ Reserving' /\ Authority' /\ PredDone'
  BY <1>2 DEF ResultTells, RecordsTell, RecordTells, Reserving, Authority, PredDone, rows, execVars,
              schedVars, sagaVars
<1> QED
  BY <1>3, <1>4, <1>5

LEMMA RestartBundle ==
    ASSUME AllInv, Restart
    PROVE  BundleInv'
<1> USE DEF AllInv, Base, BundleInv
<1>1. sPc = "down" /\ sPc' = "rec_plans"
  BY DEF Restart, StoreType, ResultType
<1>2. UNCHANGED <<now, grant, rows, execVars, sPlan, sTime, sTodo, rCopy, rNext, sagaVars, toolVars>>
  BY DEF Restart
<1>3. RowsInBundle' /\ BeforeRecord' /\ HandReady' /\ ExecutingIsHeld' /\ Reserving'
  BY <1>1, <1>2 DEF RowsInBundle, BeforeRecord, HandReady, BeforeExec, ExecutingIsHeld, Reserving, RowPlaces,
                    rows, sagaVars
<1>4. ToolsAside' /\ SagaBinding' /\ UnstartedReady' /\ RowTells'
  BY <1>2 DEF ToolsAside, SagaBinding, UnstartedReady, RowTells, Fits, rows, execVars, sagaVars, toolVars
<1>5. ResultTells' /\ RecordsTell' /\ Authority' /\ PredDone'
  BY <1>2 DEF ResultTells, RecordsTell, RecordTells, Authority, PredDone, rows, execVars, sagaVars
<1> QED
  BY <1>3, <1>4, <1>5

LEMMA CrashBundle ==
    ASSUME AllInv, Crash
    PROVE  BundleInv'
<1> USE DEF AllInv, Base, BundleInv
<1>1. /\ \A c \in Callers : xSt'[c] = "none"
      /\ sPc' = "down" /\ cPc' = "idle" /\ tPc' = "idle" /\ sTodo' = {}
      /\ rCopy' = NoBundle /\ cCopy' = NoBundle
  BY DEF Crash
<1>2. UNCHANGED <<now, grant, rows, calls, outc>>
  BY DEF Crash
<1>3. "tool" \in Callers /\ "saga" \in Callers
  BY DEF Callers
<1>4. RowsInBundle' /\ BeforeRecord' /\ HandReady' /\ ExecutingIsHeld' /\ Reserving' /\ ToolsAside' /\ SagaBinding'
  BY <1>1, <1>2, <1>3 DEF RowsInBundle, BeforeRecord, HandReady, BeforeExec, ExecutingIsHeld, Reserving,
                    RowPlaces, ToolsAside, SagaBinding, rows
<1>5. UnstartedReady' /\ RowTells' /\ ResultTells' /\ Authority' /\ PredDone'
  BY <1>1, <1>2 DEF UnstartedReady, Unstarted, RowTells, Fits, ResultTells, Authority, PredDone, rows
<1>6. RecordsTell'
  BY <1>1, <1>2 DEF RecordsTell, RecordTells, NoBundle, rows
<1> QED
  BY <1>4, <1>5, <1>6

\* A cancellation finds no row outside a bundle.
LEMMA ToolBundle ==
    ASSUME AllInv, Tools \subseteq {"cancel"},
           Tool \/ \E op \in Tools, p \in Plans : ToolBegin(op, p)
    PROVE  BundleInv'
<1> USE DEF AllInv, Base, BundleInv
<1>1. CASE \E op \in Tools, p \in Plans : ToolBegin(op, p)
  <2>1. tPc' = "cancel" /\ UNCHANGED <<rows, execVars>>
    BY <1>1 DEF ToolBegin
  <2> QED
    BY <1>1, <2>1, ToolFrame
       DEF ToolsAside, RowsInBundle, BeforeRecord, SagaBinding, ExecutingIsHeld, HandReady, UnstartedReady,
           RowTells, Fits, ResultTells, RecordsTell, RecordTells, Reserving, Authority, PredDone, env, rows,
           execVars, schedVars, sagaVars
<1>2. CASE Tool
  <2>1. ToolCancel
    BY <1>2 DEF Tool, ToolsAside, ToolSchedule, ToolPersist, ToolExecute, ToolExecEnded, ToolCancelPlan
  <2>2. tPlan \in Plans
    BY <2>1 DEF ToolCancel, Control, ToolControl
  <2>3. ~(row[tPlan] = "pending" /\ ~InBundle(tPlan))
    BY <2>2 DEF InBundle, RowsInBundle, BeforeRecord
  <2>4. tPc' = "idle" /\ UNCHANGED <<planSt, row, bundle, resv, execVars>>
    BY <2>1, <2>3 DEF ToolCancel, TEnd
  <2> QED
    BY <1>2, <2>4, ToolFrame
       DEF ToolsAside, RowsInBundle, BeforeRecord, SagaBinding, ExecutingIsHeld, HandReady, UnstartedReady,
           RowTells, Fits, ResultTells, RecordsTell, RecordTells, Reserving, Authority, PredDone, env, rows,
           execVars, schedVars, sagaVars
<1> QED
  BY <1>1, <1>2

-----------------------------------------------------------------------------
(* The scheduler loop and recovery. *)

SchedStep == Sweep \/ Sched

\* The loop takes no step while its own execution is busy, never finds a plan in
\* flight at the row in hand, and calls or takes a result as "sched" only.
LEMMA SchedCalls ==
    ASSUME AllInv, SchedStep
    PROVE  /\ calls' = calls /\ tPc' = tPc /\ xSt["sched"] \notin Busy
           /\ \A c \in Callers : \/ xSt'[c] = xSt[c] /\ xPlan'[c] = xPlan[c] /\ xRes'[c] = xRes[c]
                                 \/ c = "sched" /\ xSt'[c] \in {"none", "called"}
<1> USE DEF AllInv, Base, BundleInv
<1>1. xSt["sched"] \notin Busy
  <2>1. CASE sPc = "exec"
    <3>1. SExecEnded
      BY <2>1 DEF SchedStep, Sweep, Sched, SNext, SEnd, SInflight, SInflightMark, SInflightRow, SMissed,
                  SMissedMember, SEvidence, SGate, SGateRow, SGateMember, SComplete, SRecord, SFixup, RecPlans,
                  RecList, RecMember, RecSave, RecSettle, RecDone
    <3> QED
      BY <3>1 DEF SExecEnded, Busy
  <2>2. CASE sPc # "exec"
    BY <2>2 DEF StoreType, ResultType, Busy
  <2> QED
    BY <2>1, <2>2
<1>2. UNCHANGED execVars \/ Return("sched") \/ Call("sched", sPlan)
  BY DEF SchedStep, Sweep, Sched, SNext, SEnd, SInflight, SInflightMark, SInflightRow, SMissed, SMissedMember,
         SEvidence, SGate, SGateRow, SGateMember, SExecEnded, SComplete, SRecord, SFixup, RecPlans, RecList,
         RecMember, RecSave, RecSettle, RecDone
<1>3. xSt \in [Callers -> {"none", "called", "done"} \cup Busy] /\ xPlan \in [Callers -> Plans \cup {NoPlan}]
  BY DEF Control, CallControl
<1>4. xRes \in [Callers -> Results] /\ "sched" \in Callers
  BY DEF StoreType, ResultType, Callers
<1>5. CASE UNCHANGED execVars
  BY <1>1, <1>5, SchedFrame DEF execVars, SchedStep, toolVars
<1>6. CASE Return("sched")
  BY <1>1, <1>3, <1>4, <1>6, SchedFrame DEF Return, SchedStep, toolVars
<1>7. CASE Call("sched", sPlan)
  BY <1>1, <1>3, <1>4, <1>7, SchedFrame DEF Call, SchedStep, toolVars
<1> QED
  BY <1>2, <1>5, <1>6, <1>7

\* Recovery settles what is EXECUTING and nothing else touches a plan.
LEMMA SchedOnward ==
    ASSUME AllInv, SchedStep
    PROVE  /\ Onward /\ ~SInflightMark /\ ~SInflightRow
           /\ ~RecPlans => planSt' = planSt
<1> USE DEF AllInv, Base, BundleInv
<1>1. ~SInflightMark /\ ~SInflightRow
  BY DEF HandReady, SInflightMark, SInflightRow
<1>2. CASE RecPlans
  <2>1. \A p \in Plans : planSt'[p] = IF Orphan(p) THEN "unknown" ELSE planSt[p]
    BY <1>2 DEF RecPlans
  <2> QED
    BY <1>1, <1>2, <2>1 DEF Onward, Orphan
<1>3. CASE ~RecPlans
  <2>1. planSt' = planSt
    BY <1>1, <1>3 DEF SchedStep, Sweep, Sched, SNext, SEnd, SInflight, SMissed, SMissedMember, SEvidence, SGate,
         SGateRow, SGateMember, SExecEnded, SComplete, SRecord, SFixup, RecList, RecMember, RecSave, RecSettle,
         RecDone, rows
  <2> QED
    BY <1>1, <2>1 DEF Onward
<1> QED
  BY <1>2, <1>3

\* A row in hand is due, belongs to a member and has a record to tell of.
LEMMA InHand ==
    ASSUME AllInv, NEW p, p \in sTodo \/ (sPc \in RowPlaces /\ p = sPlan)
    PROVE  /\ p \in Plans /\ p \in MemberSet /\ At[p] <= now /\ row[p] # "absent"
           /\ bundle.status # "absent" /\ InBundle(p)
BY DEF AllInv, Base, BundleInv, RowsInBundle, BeforeRecord, InBundle, Control, SchedControl

\* What a settled plan's row may become.
LEMMA ScheduleStatusFits ==
    ASSUME AllInv, NEW p \in Plans, planSt[p] \in TerminalPlan
    PROVE  Fits(p, ScheduleStatus(planSt[p])) /\ ScheduleStatus(planSt[p]) \notin {"absent", "pending"}
<1>1. planSt[p] \in {"completed", "failed", "unknown"}
  BY DEF AllInv, BundleInv, RowTells, TerminalPlan
<1> QED
  BY <1>1 DEF ScheduleStatus, Fits

\* The loop settles pending rows that are due, and says of them what is so.
RowMoves ==
    \A p \in Plans :
        \/ row'[p] = row[p]
        \/ /\ row[p] = "pending" /\ row'[p] \notin {"absent", "pending"}
           /\ Fits(p, row'[p]) /\ At[p] <= now

LEMMA TransitionMoves ==
    ASSUME AllInv, NEW p \in Plans, NEW status, row' = Transition(p, status), Fits(p, status),
           status \notin {"absent", "pending"}, At[p] <= now
    PROVE  RowMoves
BY DEF AllInv, Base, StoreType, RowType, Transition, RowMoves

LEMMA SchedRowMoves ==
    ASSUME AllInv, SchedStep
    PROVE  /\ RowMoves
           /\ row' # row => planSt' = planSt
<1> USE DEF AllInv, Base, BundleInv
<1>1. ASSUME NEW p \in Plans, SNext(p) PROVE RowMoves
  <2>1. At[p] <= now
    BY <1>1, InHand DEF SNext
  <2>2. CASE planSt[p] \in TerminalPlan
    <3>1. row' = Transition(p, ScheduleStatus(planSt[p]))
      BY <1>1, <2>2 DEF SNext
    <3> QED
      BY <1>1, <2>1, <2>2, <3>1, ScheduleStatusFits, TransitionMoves
  <2>3. CASE planSt[p] \notin TerminalPlan
    BY <1>1, <2>3 DEF SNext, RowMoves
  <2> QED
    BY <2>2, <2>3
<1>2. ASSUME SMissed PROVE RowMoves
  <2>1. sPlan \in Plans /\ At[sPlan] <= now /\ planSt[sPlan] = "ready"
    BY <1>2, InHand DEF SMissed, RowPlaces, HandReady, BeforeExec
  <2> QED
    BY <1>2, <2>1, TransitionMoves DEF SMissed, Fits
<1>3. ASSUME SGateRow PROVE RowMoves
  <2>1. sPlan \in Plans /\ At[sPlan] <= now /\ planSt[sPlan] = "ready"
    BY <1>3, InHand DEF SGateRow, RowPlaces, HandReady, BeforeExec
  <2> QED
    BY <1>3, <2>1, TransitionMoves DEF SGateRow, Fits
<1>4. ASSUME SComplete PROVE RowMoves
  <2>1. sPlan \in Plans /\ At[sPlan] <= now
    BY <1>4, InHand DEF SComplete, RowPlaces
  <2>2. xSt["sched"] = "done" /\ xRes["sched"] \in Settled /\ xPlan["sched"] = sPlan /\ "sched" \in Callers
    BY <1>4 DEF SComplete, StoreType, ResultType, Callers
  <2>3. planSt[sPlan] \in TerminalPlan
    BY <2>2 DEF StoreType, ResultType
  <2>4. row' = Transition(sPlan, ScheduleStatus(planSt[sPlan]))
    BY <1>4 DEF SComplete
  <2> QED
    BY <2>1, <2>3, <2>4, ScheduleStatusFits, TransitionMoves
<1>5. ASSUME SFixup PROVE RowMoves
  <2>1. sPlan \in Plans /\ At[sPlan] <= now
    BY <1>5, InHand DEF SFixup, RowPlaces
  <2>2. CASE planSt[sPlan] \in TerminalPlan
    <3>1. row' = Transition(sPlan, ScheduleStatus(planSt[sPlan]))
      BY <1>5, <2>2 DEF SFixup
    <3> QED
      BY <2>1, <2>2, <3>1, ScheduleStatusFits, TransitionMoves
  <2>3. CASE planSt[sPlan] \notin TerminalPlan
    BY <1>5, <2>3 DEF SFixup, RowMoves
  <2> QED
    BY <2>2, <2>3
<1>6. ASSUME ~(SMissed \/ SGateRow \/ SComplete \/ SFixup \/ \E p \in Plans : SNext(p)) PROVE RowMoves
  <2>1. row' = row
    BY <1>6, SchedOnward DEF SchedStep, Sweep, Sched, SEnd, SInflight, SMissedMember, SEvidence, SGate,
         SGateMember, SExecEnded, SRecord, RecPlans, RecList, RecMember, RecSave, RecSettle, RecDone, rows
  <2> QED
    BY <2>1 DEF RowMoves
<1>7. RowMoves
  BY <1>1, <1>2, <1>3, <1>4, <1>5, <1>6
<1>8. RecPlans => row' = row
  BY DEF RecPlans
<1> QED
  BY <1>7, <1>8, SchedOnward

\* Where the loop gets its rows from.
LEMMA SchedHand ==
    ASSUME AllInv, SchedStep
    PROVE  /\ \A p \in sTodo' : p \in sTodo \/ (p \in Plans /\ row[p] # "absent" /\ At[p] <= now)
           /\ sPc' \in RowPlaces => \/ sPc \in RowPlaces /\ sPlan' = sPlan
                                    \/ \E p \in Plans : SNext(p) /\ sPlan' = p /\ sPc' = "inflight"
<1>1. CASE Sweep \/ RecDone
  BY <1>1 DEF Sweep, RecDone, RowPlaces
<1>2. ASSUME NEW p \in Plans, SNext(p) PROVE sTodo' \subseteq sTodo /\ (sPc' \in RowPlaces => sPlan' = p /\ sPc' = "inflight")
  BY <1>2 DEF SNext, RowPlaces
<1>3. CASE ~(Sweep \/ RecDone \/ \E p \in Plans : SNext(p))
  <2>1. sPlan' = sPlan /\ sTodo' \subseteq sTodo
    BY <1>3, SchedOnward DEF SchedStep, Sched, SEnd, SInflight, SMissed, SMissedMember, SEvidence, SGate,
         SGateRow, SGateMember, SExecEnded, SComplete, SRecord, SFixup, RecPlans, RecList, RecMember, RecSave,
         RecSettle, SGoto
  <2>2. sPc' \in RowPlaces => sPc \in RowPlaces
    BY <1>3, SchedOnward DEF SchedStep, Sched, SEnd, SInflight, SMissed, SMissedMember, SEvidence, SGate,
         SGateRow, SGateMember, SExecEnded, SComplete, SRecord, SFixup, RecPlans, RecList, RecMember, RecSave,
         RecSettle, SGoto, RowPlaces
  <2> QED
    BY <2>1, <2>2
<1> QED
  BY <1>1, <1>2, <1>3

LEMMA SchedRowsInBundle ==
    ASSUME AllInv, SchedStep
    PROVE  RowsInBundle'
<1> USE DEF AllInv, Base, BundleInv
<1>1. now' = now /\ cPc' = cPc
  BY SchedFrame DEF SchedStep, sagaVars
<1>2. \A p \in Plans : row'[p] = "absent" <=> row[p] = "absent"
  BY SchedRowMoves DEF RowMoves
<1>3. \A p \in sTodo' : p \in Plans /\ row[p] # "absent" /\ At[p] <= now
  BY SchedHand, InHand
<1>4. sPc' \in RowPlaces => sPlan' \in Plans /\ row[sPlan'] # "absent" /\ At[sPlan'] <= now
  <2>1. \A p \in Plans : SNext(p) => p \in sTodo
    BY DEF SNext
  <2> QED
    BY <2>1, SchedHand, InHand
<1> QED
  BY <1>1, <1>2, <1>3, <1>4 DEF RowsInBundle

\* Writers of the record, and of the reservation.
LEMMA SchedWriters ==
    ASSUME AllInv, SchedStep
    PROVE  /\ bundle' = bundle \/ (sPc \in RowPlaces /\ bundle.status # "absent") \/ RecSave
           /\ bundle'.status = "absent" => bundle.status = "absent"
           /\ resv' # resv => RecSettle
<1>1. ASSUME NEW p, NEW status, RecordMember(p, status), sPc \in RowPlaces
      PROVE  /\ bundle' = bundle \/ (sPc \in RowPlaces /\ bundle.status # "absent")
             /\ bundle'.status = "absent" => bundle.status = "absent"
  <2>1. CASE InBundle(p) /\ bundle.mem[p] \notin MemberDone
    <3>1. \E mem : bundle'.status = Aggregate(mem)
      BY <1>1, <2>1 DEF RecordMember
    <3> QED
      BY <1>1, <2>1, <3>1, AggregateType DEF InBundle
  <2>2. CASE ~(InBundle(p) /\ bundle.mem[p] \notin MemberDone)
    BY <1>1, <2>2 DEF RecordMember
  <2> QED
    BY <2>1, <2>2
<1>2. CASE RecSave
  <2>1. PICK status \in BundleStatus \ {"absent"} : bundle' = [rCopy EXCEPT !.status = status]
    BY <1>2, RecoveredStatusType DEF RecSave
  <2>2. bundle'.status = status
    BY <2>1 DEF AllInv, Base, StoreType, RecordType, Record
  <2> QED
    BY <1>2, <2>1, <2>2 DEF RecSave
<1>3. CASE SMissedMember \/ SGateMember \/ SRecord
  <2>1. sPc \in RowPlaces /\ resv' = resv
    BY <1>3 DEF SMissedMember, SGateMember, SRecord, RowPlaces
  <2>2. bundle' = bundle \/ \E status : RecordMember(sPlan, status)
    BY <1>3 DEF SMissedMember, SGateMember, SRecord
  <2> QED
    BY <1>1, <2>1, <2>2
<1>4. CASE ~(RecSave \/ SMissedMember \/ SGateMember \/ SRecord)
  BY <1>4, SchedOnward DEF SchedStep, Sweep, Sched, SNext, SEnd, SInflight, SMissed, SEvidence, SGate,
         SGateRow, SExecEnded, SComplete, SFixup, RecPlans, RecList, RecMember, RecSettle, RecDone, rows
<1> QED
  BY <1>2, <1>3, <1>4

LEMMA SchedBeforeRecord ==
    ASSUME AllInv, SchedStep
    PROVE  BeforeRecord'
<1> USE DEF AllInv, Base, BundleInv
<1>0. cPc' = "save" => bundle'.status = "absent"
  <2>1. cPc' = cPc
    BY SchedFrame DEF SchedStep, sagaVars
  <2> QED
    BY <2>1, SchedWriters DEF BeforeRecord, RecSave
<1> SUFFICES ASSUME bundle'.status = "absent"
             PROVE  /\ resv' = "none" /\ cPc' \in {"idle", "save"}
                    /\ sPc' \notin {"rec_member", "rec_settle"}
                    /\ \A p \in Plans : row'[p] = "absent" /\ planSt'[p] = "ready"
  BY <1>0 DEF BeforeRecord
<1>1. bundle.status = "absent"
  BY SchedWriters
<1>2. /\ resv = "none" /\ cPc \in {"idle", "save"} /\ sPc \notin {"rec_member", "rec_settle"}
      /\ \A p \in Plans : row[p] = "absent" /\ planSt[p] = "ready"
  BY <1>1 DEF BeforeRecord
<1>3. cPc' = cPc
  BY SchedFrame DEF SchedStep, sagaVars
<1>4. resv' = resv
  BY <1>2, SchedWriters DEF RecSettle
<1>5. \A p \in Plans : row'[p] = "absent" /\ planSt'[p] = "ready"
  BY <1>2, SchedRowMoves, SchedOnward DEF RowMoves, Onward
<1>6. sPc' \notin {"rec_member", "rec_settle"}
  <2>1. ~RecMember /\ ~RecSave
    BY <1>2 DEF RecMember, RecSave
  <2> QED
    BY <1>1, <1>2, <2>1, SchedOnward DEF SchedStep, Sweep, Sched, SNext, SEnd, SInflight, AfterInflight, SMissed,
        SMissedMember, SEvidence, SGate, SGateRow, SGateMember, SExecEnded, SComplete, SRecord, SFixup, RecPlans,
        RecList, Recoverable, OpenBundle, RecSettle, RecDone, SGoto
<1> QED
  BY <1>2, <1>3, <1>4, <1>5, <1>6

LEMMA SchedHeld ==
    ASSUME AllInv, SchedStep
    PROVE  ExecutingIsHeld'
<1> USE DEF AllInv, Base, BundleInv
<1> SUFFICES ASSUME NEW q \in Plans, planSt'[q] = "executing"
             PROVE  \/ sPc' \in {"down", "rec_plans"}
                    \/ \E d \in Callers : xSt'[d] \in Busy /\ xPlan'[d] = q
  BY DEF ExecutingIsHeld
<1>1. planSt[q] = "executing"
  BY SchedOnward DEF Onward
<1>2. sPc # "down"
  BY DEF SchedStep, Sweep, Sched, SNext, SEnd, SInflight, SInflightMark, SInflightRow, SMissed, SMissedMember,
         SEvidence, SGate, SGateRow, SGateMember, SExecEnded, SComplete, SRecord, SFixup, RecPlans, RecList,
         RecMember, RecSave, RecSettle, RecDone
<1>3. CASE sPc = "rec_plans"
  <2>1. RecPlans
    BY <1>3 DEF SchedStep, Sweep, Sched, SNext, SEnd, SInflight, SInflightMark, SInflightRow, SMissed,
         SMissedMember, SEvidence, SGate, SGateRow, SGateMember, SExecEnded, SComplete, SRecord, SFixup, RecList,
         RecMember, RecSave, RecSettle, RecDone
  <2>2. planSt'[q] = IF Orphan(q) THEN "unknown" ELSE planSt[q]
    BY <2>1 DEF RecPlans
  <2>3. PICK d \in Callers : xPlan[d] = q /\ xSt[d] \in Busy
    BY <1>1, <2>2 DEF Orphan, Busy
  <2> QED
    BY <2>3, SchedCalls
<1>4. CASE sPc # "rec_plans"
  <2>1. PICK d \in Callers : xPlan[d] = q /\ xSt[d] \in Busy
    BY <1>1, <1>2, <1>4 DEF ExecutingIsHeld
  <2> QED
    BY <2>1, SchedCalls
<1> QED
  BY <1>3, <1>4

\* The plan of a row the sweep comes to is not in flight: a busy saga has no
\* rows, and the loop's own execution is over.
LEMMA NextReady ==
    ASSUME AllInv, NEW p \in Plans, SNext(p), planSt[p] \notin TerminalPlan
    PROVE  planSt[p] = "ready"
<1> USE DEF AllInv, Base, BundleInv
<1>1. p \in sTodo /\ sPc = "next"
  BY DEF SNext
<1>2. row[p] # "absent"
  BY <1>1, InHand
<1>3. planSt[p] # "executing"
  <2> SUFFICES ASSUME planSt[p] = "executing" PROVE FALSE
    OBVIOUS
  <2>1. PICK d \in Callers : xPlan[d] = p /\ xSt[d] \in Busy
    BY <1>1 DEF ExecutingIsHeld
  <2>2. xSt[d] # "none"
    BY <2>1 DEF Busy
  <2> QED
    BY <1>1, <1>2, <2>1, <2>2, Executors
<1> QED
  BY <1>3 DEF Control, RowControl, Statuses

LEMMA SchedHandReady ==
    ASSUME AllInv, SchedStep
    PROVE  HandReady'
<1> USE DEF AllInv, Base, BundleInv
<1>1. \A p \in Plans : planSt[p] = "ready" => planSt'[p] = "ready"
  BY SchedOnward DEF Onward
<1>2. ASSUME NEW p \in Plans, SNext(p) PROVE HandReady'
  <2>1. sPlan' = p /\ sPc' \in {"next", "inflight"} /\ (sPc' = "inflight" => planSt[p] \notin TerminalPlan)
    BY <1>2 DEF SNext
  <2> QED
    BY <1>1, <1>2, <2>1, NextReady DEF HandReady, BeforeExec
<1>3. CASE sPc \in RowPlaces
  <2>1. sPlan \in Plans /\ sPlan' = sPlan
    BY <1>3, SchedOnward DEF Control, SchedControl, RowPlaces, SchedStep, Sweep, Sched, SNext, SEnd, SInflight,
        SMissed, SMissedMember, SEvidence, SGate, SGateRow, SGateMember, SExecEnded, SComplete, SRecord, SFixup,
        RecPlans, RecList, RecMember, RecSave, RecSettle, RecDone, SGoto
  <2>2. sPc' \notin {"inflight_mark", "inflight_row"} /\ (sPc' \in BeforeExec => sPc \in BeforeExec)
    BY <1>3, SchedOnward DEF HandReady, BeforeExec, RowPlaces, SchedStep, Sweep, Sched, SNext, SEnd, SInflight,
        AfterInflight, SMissed, SMissedMember, SEvidence, SGate, SGateRow, SGateMember, SExecEnded, SComplete,
        SRecord, SFixup, RecPlans, RecList, RecMember, RecSave, RecSettle, RecDone, SGoto
  <2>3. sPc' \in {"gate", "exec"} => row' = row /\ (row[sPlan] = "pending" \/ sPc = "gate")
    BY <1>3, SchedOnward DEF RowPlaces, SchedStep, Sweep, Sched, SNext, SEnd, SInflight,
        AfterInflight, SMissed, SMissedMember, SEvidence, StillPending, SGate, SGateRow, SGateMember, SExecEnded,
        SComplete, SRecord, SFixup, RecPlans, RecList, RecMember, RecSave, RecSettle, RecDone, SGoto, rows
  <2> QED
    BY <1>1, <2>1, <2>2, <2>3 DEF HandReady
<1>4. CASE sPc \notin RowPlaces /\ ~\E p \in Plans : SNext(p)
  <2>1. sPc' \notin RowPlaces
    BY <1>4, SchedHand
  <2> QED
    BY <2>1 DEF HandReady, RowPlaces, BeforeExec
<1> QED
  BY <1>2, <1>3, <1>4

LEMMA SchedUnstarted ==
    ASSUME AllInv, SchedStep
    PROVE  UnstartedReady'
<1> USE DEF AllInv, Base, BundleInv
<1>1. UNCHANGED <<cPc, now, grant>>
  BY SchedFrame DEF SchedStep, sagaVars
<1>2. \A p \in Plans : planSt[p] = "ready" => planSt'[p] = "ready"
  BY SchedOnward DEF Onward
<1>3. \A p \in Plans : At[p] > now => row'[p] = row[p]
  <2>1. now \in Nat /\ \A p \in Plans : At[p] \in Nat
    BY TimeAssumption DEF StoreType, EnvType
  <2> QED
    BY <2>1, SchedRowMoves DEF RowMoves
<1> QED
  BY <1>1, <1>2, <1>3, MembersArePlans DEF UnstartedReady

LEMMA SchedRowTells ==
    ASSUME AllInv, SchedStep
    PROVE  RowTells'
<1> USE DEF AllInv, Base, BundleInv
<1>1. grant' = grant
  BY SchedFrame DEF SchedStep
<1>2. CASE row' = row
  BY <1>1, <1>2, SchedOnward, OutcomesStay, OnwardKeeps DEF SchedStep
<1>3. CASE row' # row
  BY <1>1, <1>3, SchedRowMoves DEF RowTells, Fits, RowMoves
<1> QED
  BY <1>2, <1>3

LEMMA SchedResultTells ==
    ASSUME AllInv, SchedStep
    PROVE  ResultTells' /\ PredDone'
<1> USE DEF AllInv, Base, BundleInv
<1>1. OutcomesFinal
  BY OutcomesStay DEF SchedStep
<1>2. ResultTells'
  <2> SUFFICES ASSUME NEW d \in Callers, xSt'[d] = "done"
               PROVE  xRes'[d] = "confirmed" => outc'[xPlan'[d]] = "confirmed"
    BY DEF ResultTells
  <2>1. xSt[d] = "done" /\ xRes'[d] = xRes[d] /\ xPlan'[d] = xPlan[d] /\ xPlan[d] \in Plans
    BY SchedCalls, Executors
  <2> QED
    BY <1>1, <2>1 DEF ResultTells, OutcomesFinal
<1>3. PredDone'
  <2> SUFFICES ASSUME NEW d \in Callers, xSt'[d] = "sent", NEW q \in Pred[xPlan'[d]]
               PROVE  outc'[q] = "confirmed"
    BY DEF PredDone
  <2>1. xSt[d] = "sent" /\ xPlan'[d] = xPlan[d] /\ xPlan[d] \in Plans
    BY SchedCalls, Executors
  <2>2. q \in Plans /\ outc[q] = "confirmed"
    BY <2>1, PredAssumption, MembersArePlans DEF PredDone
  <2> QED
    BY <1>1, <2>2 DEF OutcomesFinal
<1> QED
  BY <1>2, <1>3

\* A member is EXECUTED in the record on the word of a confirmed result, of an
\* executed row or of the plan itself.
LEMMA SchedRecordsTell ==
    ASSUME AllInv, SchedStep
    PROVE  RecordsTell'
<1> USE DEF AllInv, Base, BundleInv
<1>1. \A m \in MemberSet : outc[m] = "confirmed" => outc'[m] = "confirmed"
  BY OutcomesStay, MembersArePlans DEF SchedStep, OutcomesFinal
<1>2. cCopy' = cCopy
  BY SchedFrame DEF SchedStep, sagaVars
<1>3. RecordTells(cCopy)'
  BY <1>1, <1>2 DEF RecordsTell, RecordTells
<1>4. ASSUME NEW status, RecordMember(sPlan, status), status = "executed" => outc[sPlan] = "confirmed"
      PROVE  RecordTells(bundle)'
  <2>1. CASE InBundle(sPlan) /\ bundle.mem[sPlan] \notin MemberDone
    <3>1. bundle'.mem = [bundle.mem EXCEPT ![sPlan] = status]
      BY <1>4, <2>1 DEF RecordMember
    <3>2. \A m \in MemberSet : bundle'.mem[m] = IF m = sPlan THEN status ELSE bundle.mem[m]
      BY <3>1 DEF StoreType, RecordType, Record
    <3> QED
      BY <1>1, <1>4, <3>2 DEF RecordsTell, RecordTells
  <2>2. CASE ~(InBundle(sPlan) /\ bundle.mem[sPlan] \notin MemberDone)
    BY <1>1, <1>4, <2>2 DEF RecordMember, RecordsTell, RecordTells
  <2> QED
    BY <2>1, <2>2
<1>5. RecordTells(bundle)'
  <2>1. CASE SMissedMember \/ SGateMember \/ SRecord
    <3>1. CASE bundle' = bundle
      BY <1>1, <3>1 DEF RecordsTell, RecordTells
    <3>2. CASE SMissedMember /\ bundle' # bundle
      BY <1>4, <3>2 DEF SMissedMember
    <3>3. CASE SGateMember /\ bundle' # bundle
      BY <1>4, <3>3 DEF SGateMember
    <3>4. CASE SRecord /\ bundle' # bundle
      <4>1. xSt["sched"] = "done" /\ xPlan["sched"] = sPlan /\ "sched" \in Callers
        BY <3>4 DEF SRecord, StoreType, ResultType, Callers
      <4>2. RecordMember(sPlan, MemberOutcome(xRes["sched"])) /\ xRes["sched"] \in Settled
        BY <3>4 DEF SRecord, StoreType, ResultType
      <4>3. MemberOutcome(xRes["sched"]) = "executed" => outc[sPlan] = "confirmed"
        BY <4>1, <4>2 DEF MemberOutcome, ResultTells, Settled
      <4> QED
        BY <1>4, <4>2, <4>3
    <3> QED
      BY <2>1, <3>1, <3>2, <3>3, <3>4
  <2>2. CASE RecSave
    <3>1. bundle'.mem = rCopy.mem
      BY <2>2 DEF RecSave, StoreType, RecordType, Record
    <3> QED
      BY <1>1, <3>1 DEF RecordsTell, RecordTells
  <2>3. CASE ~(SMissedMember \/ SGateMember \/ SRecord \/ RecSave)
    <3>1. bundle' = bundle
      BY <2>3, SchedOnward DEF SchedStep, Sweep, Sched, SNext, SEnd, SInflight, SMissed, SEvidence, SGate,
         SGateRow, SExecEnded, SComplete, SFixup, RecPlans, RecList, RecMember, RecSettle, RecDone, rows
    <3> QED
      BY <1>1, <3>1 DEF RecordsTell, RecordTells
  <2> QED
    BY <2>1, <2>2, <2>3
<1>6. RecordTells(rCopy)'
  <2>1. CASE RecList
    BY <1>1, <2>1 DEF RecList, RecordsTell, RecordTells
  <2>2. CASE RecDone
    BY <2>2 DEF RecDone, RecordTells, NoBundle
  <2>3. CASE RecMember
    <3>1. PICK m \in MemberSet : m = Members[rNext]
      BY <2>3, MembersAssumption DEF RecMember, MemberSet, StoreType, PlaceType
    <3>2. rCopy' = [rCopy EXCEPT !.mem[m] = RecoveredMember(m)]
      BY <2>3, <3>1 DEF RecMember
    <3>3. \A n \in MemberSet : rCopy'.mem[n] = IF n = m THEN RecoveredMember(m) ELSE rCopy.mem[n]
      BY <3>2 DEF StoreType, RecordType, Record
    <3>4. RecoveredMember(m) = "executed" => outc[m] = "confirmed"
      BY MembersArePlans DEF RecoveredMember, RowTells, Fits, StoreType, OutcomesTell
    <3> QED
      BY <1>1, <3>3, <3>4 DEF RecordsTell, RecordTells
  <2>4. CASE ~(RecList \/ RecDone \/ RecMember)
    <3>1. rCopy' = rCopy
      BY <2>4, SchedOnward DEF SchedStep, Sweep, Sched, SNext, SEnd, SInflight, SMissed, SMissedMember, SEvidence,
         SGate, SGateRow, SGateMember, SExecEnded, SComplete, SRecord, SFixup, RecPlans, RecSave, RecSettle, SGoto
    <3> QED
      BY <1>1, <3>1 DEF RecordsTell, RecordTells
  <2> QED
    BY <2>1, <2>2, <2>3, <2>4
<1> QED
  BY <1>3, <1>5, <1>6 DEF RecordsTell

\* A recovery pass that meets a commit() before its members have started finds
\* only members that may need the grants, so it does not give them back.
LEMMA SchedReserving ==
    ASSUME AllInv, SchedStep
    PROVE  Reserving' /\ Authority'
<1> USE DEF AllInv, Base, BundleInv
<1>1. cPc' = cPc /\ calls' = calls
  BY SchedFrame, SchedCalls DEF SchedStep, sagaVars
<1>2. Len(Members) \in Nat /\ rNext \in 1..(Len(Members) + 1)
  BY MembersAssumption DEF StoreType, PlaceType
<1>3. \A i \in 1..Len(Members) : Members[i] \in MemberSet
  BY DEF MemberSet
<1>4. sPc' = "rec_settle" => rNext' > Len(Members)
  BY SchedOnward DEF SchedStep, Sweep, Sched, SNext, SEnd, SInflight, AfterInflight, SMissed, SMissedMember,
         SEvidence, SGate, SGateRow, SGateMember, SExecEnded, SComplete, SRecord, SFixup, RecPlans, RecList,
         RecMember, RecSave, RecSettle, RecDone, SGoto
<1>5. ASSUME resv' # resv PROVE cPc \notin {"save", "reserve"} /\ resv # "committed" /\ (cPc \in {"approve", "split", "consume"} => resv' = "committed")
  <2>1. RecSettle /\ resv \in {"none", "reserved", "committed", "released"}
    BY <1>5, SchedWriters DEF StoreType, RowType
  <2>2. resv = "reserved" /\ resv' \in {"released", "committed"}
    BY <1>5, <2>1 DEF RecSettle, Released, Consume, Consumable
  <2>3. ASSUME cPc \in {"approve", "split", "consume"} PROVE resv' = "committed"
    <3>1. Len(Members) # 0
      BY <2>3, MembersAssumption DEF UnstartedReady, Unstarted
    <3>2. 1 \in 1..Len(Members) /\ 1 < rNext
      BY <1>2, <2>1, <3>1 DEF RecSettle, Reserving
    <3>3. rCopy.mem[Members[1]] \in Needing
      BY <2>1, <2>3, <3>2 DEF RecSettle, Reserving
    <3>4. \E m \in MemberSet : rCopy.mem[m] \in {"executed", "unknown", "scheduled"}
      BY <1>3, <3>2, <3>3 DEF Needing
    <3> QED
      BY <1>5, <2>1, <3>4 DEF RecSettle, Consume
  <2> QED
    BY <2>2, <2>3 DEF Reserving
<1>6. ASSUME cPc \in {"reserve", "approve", "split", "consume"}
      PROVE  /\ \A m \in MemberSet : bundle'.mem[m] \in {"pending"} \cup Needing
             /\ sPc' \in {"rec_member", "rec_settle"} =>
                  \A i \in 1..Len(Members) :
                     /\ rCopy'.mem[Members[i]] \in {"pending"} \cup Needing
                     /\ i < rNext' => rCopy'.mem[Members[i]] \in Needing
  <2>1. sPc \notin RowPlaces
    BY <1>6, UnstartedQuiet
  <2>2. \A m \in MemberSet : bundle.mem[m] \in {"pending"} \cup Needing
    BY <1>6 DEF Reserving
  <2>3. sPc \in {"rec_member", "rec_settle"} =>
           \A i \in 1..Len(Members) : /\ rCopy.mem[Members[i]] \in {"pending"} \cup Needing
                                      /\ i < rNext => rCopy.mem[Members[i]] \in Needing
    BY <1>6 DEF Reserving
  <2>4. CASE RecSave
    <3>1. bundle'.mem = rCopy.mem /\ sPc = "rec_member" /\ rCopy' = rCopy /\ rNext' = rNext
      BY <2>4 DEF RecSave, SGoto, StoreType, RecordType, Record
    <3>2. \A m \in MemberSet : \E i \in 1..Len(Members) : m = Members[i]
      BY DEF MemberSet
    <3> QED
      BY <2>3, <3>1, <3>2
  <2>5. ASSUME ~RecSave PROVE bundle' = bundle
    BY <2>1, <2>5, SchedWriters
  <2>6. CASE RecList
    <3>1. RecList /\ ~RecSave /\ (sPc' \in {"rec_member", "rec_settle"} => rCopy' = bundle /\ rNext' = 1)
      BY <2>6 DEF RecList, RecSave
    <3> QED
      BY <1>3, <2>2, <2>5, <3>1
  <2>7. CASE RecMember
    <3>1. PICK m \in MemberSet : m = Members[rNext] /\ rNext \in 1..Len(Members)
      BY <1>2, <2>7 DEF RecMember, MemberSet
    <3>2. sPc = "rec_member" /\ rNext' = rNext + 1 /\ rCopy' = [rCopy EXCEPT !.mem[m] = RecoveredMember(m)]
      BY <2>7, <3>1 DEF RecMember
    <3>3. \A n \in MemberSet : rCopy'.mem[n] = IF n = m THEN RecoveredMember(m) ELSE rCopy.mem[n]
      BY <3>2 DEF StoreType, RecordType, Record
    <3>4. rCopy.mem[m] # "dependency_failed"
      BY <2>3, <3>1, <3>2 DEF Needing
    <3>5. m \in Plans /\ planSt[m] = "ready" /\ row[m] \in {"absent", "pending"}
      BY <1>6, MembersArePlans DEF UnstartedReady, Unstarted, RowsInBundle
    <3>6. RecoveredMember(m) \in Needing
      BY <3>4, <3>5 DEF RecoveredMember, Needing
    <3>7. ~RecSave
      BY <1>2, <2>7 DEF RecMember, RecSave
    <3>8. \A i \in 1..Len(Members) : i < rNext' => i < rNext \/ i = rNext
      BY <1>2, <3>2
    <3>9. \A i \in 1..Len(Members) : /\ rCopy'.mem[Members[i]] \in {"pending"} \cup Needing
                                     /\ i < rNext' => rCopy'.mem[Members[i]] \in Needing
      BY <1>3, <2>3, <3>1, <3>2, <3>3, <3>6, <3>8
    <3> QED
      BY <2>2, <2>5, <3>7, <3>9
  <2>8. CASE ~(RecSave \/ RecList \/ RecMember)
    <3>1. sPc' \notin {"rec_member", "rec_settle"}
      BY <2>8, SchedOnward DEF SchedStep, Sweep, Sched, SNext, SEnd, SInflight, AfterInflight, SMissed,
         SMissedMember, SEvidence, SGate, SGateRow, SGateMember, SExecEnded, SComplete, SRecord, SFixup, RecPlans,
         RecSettle, RecDone, SGoto
    <3> QED
      BY <2>2, <2>5, <2>8, <3>1
  <2> QED
    BY <2>4, <2>6, <2>7, <2>8
<1>7. Authority'
  BY <1>1, <1>5 DEF Authority
<1>8. Reserving'
  BY <1>1, <1>4, <1>5, <1>6 DEF Reserving
<1> QED
  BY <1>7, <1>8

LEMMA SchedBundle ==
    ASSUME AllInv, SchedStep
    PROVE  BundleInv'
<1>1. cPc' = cPc /\ tPc' = tPc /\ cCopy' = cCopy
  BY SchedFrame DEF SchedStep, sagaVars, toolVars
<1>2. ToolsAside' /\ SagaBinding'
  BY <1>1, SchedCalls DEF AllInv, BundleInv, ToolsAside, SagaBinding, Callers
<1> QED
  BY <1>2, SchedRowsInBundle, SchedBeforeRecord, SchedHeld, SchedHandReady, SchedUnstarted, SchedRowTells,
     SchedResultTells, SchedRecordsTell, SchedReserving DEF BundleInv

-----------------------------------------------------------------------------
(* commit(). *)

SagaStep == CommitBegin \/ Saga

\* commit() takes no step while its execution is busy, and calls or takes a
\* result as "saga" only.
LEMMA SagaCalls ==
    ASSUME AllInv, SagaStep
    PROVE  /\ calls' = calls /\ outc' = outc /\ xSt["saga"] \notin Busy
           /\ \A c \in Callers : \/ xSt'[c] = xSt[c] /\ xPlan'[c] = xPlan[c] /\ xRes'[c] = xRes[c]
                                 \/ c = "saga" /\ xSt'[c] \in {"none", "called"}
<1> USE DEF AllInv, Base, BundleInv
<1>1. xSt["saga"] \notin Busy
  <2>1. CASE cPc = "exec"
    <3>1. CommitMark
      BY <2>1 DEF SagaStep, CommitBegin, Saga, CommitSave, CommitReserve, CommitApprove, CommitScheduleAll, CommitConsumeAll,
                  CommitUndo, CommitConsume, CommitExecute, CommitScheduleRest, CommitComplete, CommitFail
    <3> QED
      BY <3>1 DEF CommitMark, Busy
  <2>2. CASE cPc # "exec"
    BY <2>2 DEF SagaBinding, Busy
  <2> QED
    BY <2>1, <2>2
<1>2. UNCHANGED execVars \/ Return("saga") \/ \E p : Call("saga", p)
  BY DEF SagaStep, CommitBegin, Saga, CommitSave, CommitReserve, CommitApprove, CommitScheduleAll, CommitConsumeAll, CommitUndo,
         CommitConsume, CommitExecute, CommitMark, CommitScheduleRest, CommitComplete, CommitFail
<1>3. xSt \in [Callers -> {"none", "called", "done"} \cup Busy] /\ xPlan \in [Callers -> Plans \cup {NoPlan}]
  BY DEF Control, CallControl
<1>4. xRes \in [Callers -> Results] /\ "saga" \in Callers
  BY DEF StoreType, ResultType, Callers
<1>5. CASE UNCHANGED execVars
  BY <1>1, <1>5 DEF execVars
<1>6. CASE Return("saga")
  BY <1>1, <1>3, <1>4, <1>6 DEF Return
<1>7. ASSUME NEW p, Call("saga", p)
      PROVE  /\ calls' = calls /\ outc' = outc
             /\ \A c \in Callers : \/ xSt'[c] = xSt[c] /\ xPlan'[c] = xPlan[c] /\ xRes'[c] = xRes[c]
                                   \/ c = "saga" /\ xSt'[c] \in {"none", "called"}
  BY <1>3, <1>4, <1>7 DEF Call
<1> QED
  BY <1>1, <1>2, <1>5, <1>6, <1>7

\* commit() inserts the members' rows, or cancels them one by one once the grants
\* are lost.
LEMMA SagaRowMoves ==
    ASSUME AllInv, SagaStep, NEW p \in Plans
    PROVE  \/ row'[p] = row[p]
           \/ row'[p] = "pending" /\ p \in MemberSet /\ (CommitScheduleAll \/ CommitScheduleRest)
           \/ /\ row'[p] = "cancelled" /\ row[p] = "pending" /\ p \in MemberSet /\ CommitUndo
              /\ planSt[p] = "ready" /\ grant # "valid"
<1> USE DEF AllInv, Base, BundleInv
<1>1. ASSUME NEW S \in SUBSET MemberSet, ScheduleMembers(S)
      PROVE  row'[p] = row[p] \/ (row'[p] = "pending" /\ p \in MemberSet)
  BY <1>1 DEF ScheduleMembers
<1>2. CASE CommitScheduleAll
  BY <1>1, <1>2 DEF CommitScheduleAll
<1>3. CASE CommitScheduleRest
  <2>1. FutureMembers \in SUBSET MemberSet
    BY DEF FutureMembers
  <2> QED
    BY <1>1, <1>3, <2>1 DEF CommitScheduleRest
<1>4. CASE CommitUndo
  <2>1. CASE cTodo = {}
    BY <1>4, <2>1 DEF CommitUndo
  <2>2. CASE cTodo # {}
    <3>1. PICK m \in cTodo : row' = Transition(m, "cancelled")
      BY <1>4, <2>2 DEF CommitUndo
    <3>2. m \in MemberSet /\ planSt[m] = "ready" /\ grant # "valid"
      BY <1>4, <3>1 DEF CommitUndo, StoreType, PlaceType, UnstartedReady, Unstarted
    <3> QED
      BY <1>4, <3>1, <3>2 DEF Transition, StoreType, RowType
  <2> QED
    BY <2>1, <2>2
<1>5. CASE ~(CommitScheduleAll \/ CommitScheduleRest \/ CommitUndo)
  BY <1>5 DEF SagaStep, CommitBegin, Saga, CommitSave, CommitReserve, CommitApprove, CommitConsumeAll, CommitConsume,
              CommitExecute, CommitMark, CommitComplete, CommitFail, rows
<1> QED
  BY <1>2, <1>3, <1>4, <1>5

\* How commit() comes to the places where it has no rows yet, and to the ones
\* where it has not started its members.
LEMMA SagaPlaces ==
    ASSUME AllInv, SagaStep
    PROVE  /\ cPc' = "save" => CommitBegin
           /\ cPc' = "reserve" => CommitSave
           /\ cPc' = "approve" => CommitReserve /\ resv' = "reserved"
           /\ cPc' = "split" => CommitApprove /\ resv' = resv
           /\ cPc' = "consume" => CommitScheduleAll
           /\ cPc' = "undo" => CommitConsumeAll \/ CommitUndo
           /\ cPc' \in {"member", "exec"} => CommitConsume \/ CommitExecute \/ CommitMark
BY DEF SagaStep, CommitBegin, Saga, CommitSave, CommitReserve, CommitApprove, CommitScheduleAll, CommitConsumeAll, CommitUndo,
       CommitConsume, CommitExecute, CommitMark, CommitScheduleRest, CommitComplete, CommitFail, Fail, CGoto

LEMMA SagaRowsInBundle ==
    ASSUME AllInv, SagaStep
    PROVE  RowsInBundle'
<1> USE DEF AllInv, Base, BundleInv
<1>1. UNCHANGED <<now, sPc, sPlan, sTodo>>
  BY SagaFrame DEF SagaStep, env, schedVars
<1>2. \A p \in Plans : /\ row[p] # "absent" => row'[p] # "absent"
                       /\ row'[p] # "absent" => p \in MemberSet
  BY SagaRowMoves DEF RowsInBundle
<1>3. sTodo \subseteq Plans /\ (sPc \in RowPlaces => sPlan \in Plans)
  BY DEF Control, SchedControl
<1>4. ASSUME cPc' \in {"save", "reserve", "approve", "split", "member", "exec"} PROVE \A p \in Plans : row'[p] = "absent"
  <2>1. row' = row
    BY <1>4, SagaPlaces DEF CommitBegin, CommitSave, CommitReserve, CommitApprove, CommitConsume, CommitExecute, CommitMark, rows
  <2>2. \A p \in Plans : row[p] = "absent"
    BY <1>4, SagaPlaces DEF CommitBegin, CommitSave, CommitReserve, CommitApprove, CommitConsume, CommitExecute, CommitMark,
                            BeforeRecord, RowsInBundle
  <2> QED
    BY <2>1, <2>2
<1> QED
  BY <1>1, <1>2, <1>3, <1>4 DEF RowsInBundle

\* What commit() writes into the record.
LEMMA ScheduleMembersWrites ==
    ASSUME AllInv, NEW S \in SUBSET MemberSet, ScheduleMembers(S)
    PROVE  /\ bundle' = cCopy' /\ cCopy'.status = "scheduled"
           /\ \A m \in MemberSet : cCopy'.mem[m] = IF m \in S THEN "scheduled" ELSE cCopy.mem[m]
BY DEF AllInv, Base, StoreType, RecordType, Record, ScheduleMembers

LEMMA MarkWrites ==
    ASSUME AllInv, CommitMark
    PROVE  /\ bundle' = cCopy' /\ cCopy'.status = cCopy.status
           /\ \A m \in MemberSet : cCopy'.mem[m] = "executed" => outc[m] = "confirmed"
<1> USE DEF AllInv, Base, BundleInv
<1>1. cPc = "exec" /\ xSt["saga"] = "done" /\ "saga" \in Callers
  BY DEF CommitMark, Callers
<1>2. PICK m \in MemberSet : m = xPlan["saga"]
  BY <1>1 DEF SagaBinding
<1>3. PICK status : /\ status = IF xRes["saga"] \in {"refused", "raised"} THEN "unknown" ELSE MemberOutcome(xRes["saga"])
                    /\ cCopy' = [cCopy EXCEPT !.mem[m] = status, !.evid[m] = (status = "executed")]
                    /\ bundle' = cCopy'
  BY <1>2 DEF CommitMark
<1>4. status = "executed" => outc[m] = "confirmed"
  BY <1>1, <1>2, <1>3 DEF MemberOutcome, ResultTells, StoreType, ResultType, Results
<1>5. cCopy'.status = cCopy.status /\ \A n \in MemberSet : cCopy'.mem[n] = IF n = m THEN status ELSE cCopy.mem[n]
  BY <1>3 DEF StoreType, RecordType, Record
<1> QED
  BY <1>3, <1>4, <1>5 DEF RecordsTell, RecordTells

LEMMA SagaRecords ==
    ASSUME AllInv, SagaStep
    PROVE  /\ \A m \in MemberSet : bundle'.mem[m] = "executed" => outc[m] = "confirmed"
           /\ \A m \in MemberSet : cCopy'.mem[m] = "executed" => outc[m] = "confirmed"
           /\ ~CommitBegin => bundle'.status # "absent"
           /\ cPc' \notin {"idle", "save"} => cCopy'.status # "absent"
<1> USE DEF AllInv, Base, BundleInv
<1>1. /\ \A m \in MemberSet : bundle.mem[m] = "executed" => outc[m] = "confirmed"
      /\ \A m \in MemberSet : cCopy.mem[m] = "executed" => outc[m] = "confirmed"
  BY DEF RecordsTell, RecordTells
<1>2. CASE CommitBegin
  BY <1>1, <1>2 DEF CommitBegin, CGoto, rows
<1>3. CASE CommitSave
  <2>1. bundle' = cCopy' /\ cCopy'.status = "committing" /\ \A m \in MemberSet : cCopy'.mem[m] = "pending"
    BY <1>3 DEF CommitSave, NoBundle
  <2> QED
    BY <2>1
<1>4. CASE CommitScheduleAll \/ CommitScheduleRest
  <2>1. cPc \in {"split", "member"} /\ bundle.status # "absent" /\ cCopy.status # "absent"
    BY <1>4 DEF CommitScheduleAll, CommitScheduleRest, BeforeRecord, SagaBinding
  <2>2. \/ bundle' = bundle /\ cCopy' = cCopy
        \/ \E S \in SUBSET MemberSet : ScheduleMembers(S)
    BY <1>4 DEF CommitScheduleAll, CommitScheduleRest, FutureMembers, Fail
  <2>3. CASE bundle' = bundle /\ cCopy' = cCopy
    BY <1>1, <2>1, <2>3
  <2>4. ASSUME NEW S \in SUBSET MemberSet, ScheduleMembers(S)
        PROVE  /\ bundle' = cCopy' /\ cCopy'.status # "absent"
               /\ \A m \in MemberSet : cCopy'.mem[m] = "executed" => outc[m] = "confirmed"
    BY <1>1, <2>4, ScheduleMembersWrites
  <2> QED
    BY <2>2, <2>3, <2>4
<1>5. CASE CommitMark
  <2>1. cCopy.status # "absent"
    BY <1>5 DEF CommitMark, SagaBinding
  <2> QED
    BY <1>5, <2>1, MarkWrites
<1>6. CASE CommitComplete \/ CommitFail
  <2>1. cCopy' = cCopy /\ cPc \in {"member", "fail"}
    BY <1>6 DEF CommitComplete, CommitFail, CGoto
  <2>2. PICK status \in BundleStatus \ {"absent"} : bundle' = [cCopy EXCEPT !.status = status]
    BY <1>6 DEF CommitComplete, CommitFail, StoreType, PlaceType, BundleStatus
  <2>3. bundle'.status = status /\ bundle'.mem = cCopy.mem
    BY <2>2 DEF StoreType, RecordType, Record
  <2> QED
    BY <1>1, <2>1, <2>2, <2>3 DEF SagaBinding
<1>7. CASE CommitReserve \/ CommitApprove \/ CommitConsumeAll \/ CommitUndo \/ CommitConsume \/ CommitExecute
  <2>1. bundle' = bundle /\ cCopy' = cCopy /\ cPc \notin {"idle", "save"}
    BY <1>7 DEF CommitReserve, CommitApprove, CommitConsumeAll, CommitUndo, CommitConsume, CommitExecute, Fail, CGoto, rows
  <2> QED
    BY <1>1, <2>1 DEF BeforeRecord, SagaBinding
<1> QED
  BY <1>2, <1>3, <1>4, <1>5, <1>6, <1>7 DEF SagaStep, Saga

LEMMA SagaUnstarted ==
    ASSUME AllInv, SagaStep
    PROVE  UnstartedReady'
<1> USE DEF AllInv, Base, BundleInv
<1>1. UNCHANGED <<now, grant, planSt>>
  BY SagaFrame DEF SagaStep, env
<1>2. ASSUME cPc' \in Unstarted PROVE Members # <<>> /\ \A m \in MemberSet : planSt[m] = "ready"
  <2>1. CASE CommitBegin
    BY <2>1, MembersArePlans DEF CommitBegin, BeforeRecord
  <2>2. CASE ~CommitBegin
    <3>1. cPc \in Unstarted
      BY <1>2, <2>2, SagaPlaces DEF Unstarted, CommitSave, CommitReserve, CommitApprove, CommitScheduleAll, CommitConsumeAll,
                                    CommitUndo
    <3> QED
      BY <3>1 DEF UnstartedReady
  <2> QED
    BY <2>1, <2>2
<1>3. ASSUME cPc' = "consume" PROVE \A m \in MemberSet : At[m] > now /\ row'[m] = "pending"
  <2>1. CommitScheduleAll
    BY <1>3, SagaPlaces
  <2>2. \A m \in MemberSet : At[m] \in Nat /\ now \in Nat
    BY MembersArePlans, TimeAssumption DEF StoreType, EnvType
  <2>3. \A m \in MemberSet : At[m] > now
    BY <2>1, <2>2 DEF CommitScheduleAll, DueMembers
  <2>4. ScheduleMembers(MemberSet)
    BY <1>3, <2>1 DEF CommitScheduleAll, Fail
  <2> QED
    BY <2>3, <2>4, MembersArePlans DEF ScheduleMembers
<1>4. ASSUME cPc' = "undo" PROVE grant # "valid"
  <2>1. CASE CommitConsumeAll
    BY <1>4, <2>1 DEF CommitConsumeAll, Consumable, Reserving
  <2>2. CASE CommitUndo
    BY <2>2 DEF CommitUndo, UnstartedReady, Unstarted
  <2> QED
    BY <1>4, <2>1, <2>2, SagaPlaces
<1> QED
  BY <1>1, <1>2, <1>3, <1>4 DEF UnstartedReady

LEMMA SagaReserving ==
    ASSUME AllInv, SagaStep
    PROVE  Reserving' /\ Authority'
<1> USE DEF AllInv, Base, BundleInv
<1>1. UNCHANGED <<sPc, rCopy, rNext>>
  BY SagaFrame DEF SagaStep, schedVars
<1>2. cPc' \in {"save", "reserve"} => resv' = "none"
  BY SagaPlaces DEF CommitBegin, CommitSave, BeforeRecord, Reserving, rows
<1>3. cPc' \in {"approve", "split", "consume"} => resv' \in {"reserved", "committed"}
  BY SagaPlaces DEF CommitApprove, CommitScheduleAll, Fail, Reserving
<1>4. ASSUME cPc' \in {"reserve", "approve", "split", "consume"}
      PROVE  /\ \A m \in MemberSet : bundle'.mem[m] \in {"pending"} \cup Needing
             /\ sPc \in {"rec_member", "rec_settle"} => cPc \in {"reserve", "approve", "split", "consume"}
  <2>1. CASE CommitSave
    <3>1. \A m \in MemberSet : bundle'.mem[m] = "pending"
      BY <2>1 DEF CommitSave, NoBundle
    <3>2. bundle.status = "absent"
      BY <2>1 DEF CommitSave, BeforeRecord
    <3> QED
      BY <3>1, <3>2 DEF BeforeRecord
  <2>2. CASE CommitReserve \/ CommitApprove
    BY <2>2 DEF CommitReserve, CommitApprove, Reserving
  <2>3. CASE cPc' = "consume" /\ CommitScheduleAll
    <3>1. ScheduleMembers(MemberSet)
      BY <2>3 DEF CommitScheduleAll, Fail
    <3>2. \A m \in MemberSet : bundle'.mem[m] = "scheduled"
      BY <3>1, ScheduleMembersWrites
    <3> QED
      BY <2>3, <3>2 DEF CommitScheduleAll, Needing
  <2> QED
    BY <1>4, <2>1, <2>2, <2>3, SagaPlaces
<1>5. Reserving'
  BY <1>1, <1>2, <1>3, <1>4 DEF Reserving
<1>6. resv = "committed" => resv' = "committed"
  BY DEF Reserving, SagaStep, CommitBegin, Saga, CommitSave, CommitReserve, CommitApprove, CommitScheduleAll, CommitConsumeAll,
         CommitUndo, CommitConsume, CommitExecute, CommitMark, CommitScheduleRest, CommitComplete, CommitFail, Fail,
         Released, Consume, rows
<1>7. Authority'
  BY <1>6, SagaCalls DEF Authority
<1> QED
  BY <1>5, <1>7

LEMMA SagaBundle ==
    ASSUME AllInv, SagaStep
    PROVE  BundleInv'
<1> USE DEF AllInv, Base, BundleInv
<1>1. UNCHANGED <<now, grant, planSt, sPc, sPlan, rCopy, tPc>>
  BY SagaFrame DEF SagaStep, env, schedVars, toolVars
<1>2. ToolsAside'
  BY <1>1, SagaCalls DEF ToolsAside, Callers
<1>3. BeforeRecord'
  <2>1. CASE CommitBegin
    BY <1>1, <2>1 DEF CommitBegin, CGoto, BeforeRecord, rows
  <2>2. CASE ~CommitBegin
    BY <2>2, SagaRecords, SagaPlaces DEF BeforeRecord
  <2> QED
    BY <2>1, <2>2
<1>4. SagaBinding'
  <2>1. ASSUME xSt'["saga"] # "none" PROVE cPc' = "exec" /\ xPlan'["saga"] \in MemberSet
    <3>1. CASE CommitExecute
      <4>1. PICK i \in 1..Len(Members) : Call("saga", Members[i])
        BY <3>1 DEF CommitExecute
      <4>2. xPlan'["saga"] = Members[i]
        BY <4>1 DEF Call, Control, CallControl, Callers
      <4> QED
        BY <3>1, <4>2 DEF CommitExecute, CGoto, MemberSet
    <3>2. CASE CommitMark
      <4>1. xSt'["saga"] = "none"
        BY <3>2 DEF CommitMark, Return, Control, CallControl, Callers
      <4> QED
        BY <2>1, <4>1
    <3>3. CASE ~CommitExecute /\ ~CommitMark
      <4>1. cPc # "exec" /\ UNCHANGED execVars
        BY <3>3 DEF SagaStep, CommitBegin, Saga, CommitSave, CommitReserve, CommitApprove, CommitScheduleAll, CommitConsumeAll,
              CommitUndo, CommitConsume, CommitScheduleRest, CommitComplete, CommitFail
      <4> QED
        BY <2>1, <4>1 DEF SagaBinding, execVars
    <3> QED
      BY <3>1, <3>2, <3>3
  <2> QED
    BY <2>1, SagaRecords DEF SagaBinding
<1>5. ExecutingIsHeld'
  BY <1>1, SagaCalls DEF ExecutingIsHeld
<1>6. HandReady'
  <2>1. sPc \in RowPlaces => sPlan \in Plans
    BY DEF Control, SchedControl
  <2> QED
    BY <1>1, <2>1, SagaRowMoves DEF HandReady, RowPlaces
<1>7. RowTells'
  BY <1>1, SagaRowMoves DEF RowTells, Fits
<1>8. ResultTells' /\ PredDone'
  <2>1. \A c \in Callers : xSt'[c] \in {"done", "sent"} =>
           xSt'[c] = xSt[c] /\ xPlan'[c] = xPlan[c] /\ xRes'[c] = xRes[c]
    BY SagaCalls
  <2> QED
    BY <1>1, <2>1, SagaCalls DEF ResultTells, PredDone
<1>9. RecordsTell'
  BY <1>1, SagaCalls, SagaRecords DEF RecordsTell, RecordTells
<1> QED
  BY <1>2, <1>3, <1>4, <1>5, <1>6, <1>7, <1>8, <1>9, SagaRowsInBundle, SagaUnstarted, SagaReserving

-----------------------------------------------------------------------------
(* The theorems. *)

LEMMA BundleStep ==
    ASSUME Tools \subseteq {"cancel"}, AllInv, [Next]_vars
    PROVE  AllInv'
<1>1. Base'
  BY OnceStep, StoreStep DEF AllInv, Base
<1>2. ASSUME Next PROVE BundleInv'
  BY <1>2, ExecBundle, TickBundle, BefallBundle, RestartBundle, CrashBundle, ToolBundle, SchedBundle, SagaBundle
     DEF Next, SchedStep, SagaStep
<1>3. ASSUME UNCHANGED vars PROVE BundleInv'
  BY <1>3 DEF AllInv, BundleInv, ToolsAside, RowsInBundle, BeforeRecord, SagaBinding, ExecutingIsHeld, HandReady,
       UnstartedReady, RowTells, Fits, ResultTells, RecordsTell, RecordTells, Reserving, Authority, PredDone, vars,
       env, rows, execVars, schedVars, sagaVars, toolVars
<1> QED
  BY <1>1, <1>2, <1>3 DEF AllInv

LEMMA BundleSound ==
    ASSUME Tools \subseteq {"cancel"}
    PROVE  Spec => []AllInv
<1>1. Init => AllInv
  BY InitControl, InitOnce, InitStore, BundleInit DEF AllInv, Base
<1>2. AllInv /\ [Next]_vars => AllInv'
  BY BundleStep
<1> QED
  BY <1>1, <1>2, PTL DEF Spec

\* Whatever the grants, the clock, the sweeps, the recovery passes and the
\* crashes do, no member of a bundle reaches the adapter unless the approval
\* reservation has been committed: commit() consumes the grants before it
\* executes, ExecutionAdmission looks at the reservation before every dispatch,
\* and recovery never gives back a reservation that has been used.
THEOREM EffectsAreAuthorised ==
    ASSUME Tools \subseteq {"cancel"}
    PROVE  Spec => []AuthorityPrecedesEffect
<1>1. AllInv => AuthorityPrecedesEffect
  <2> SUFFICES ASSUME AllInv, NEW m \in MemberSet, resv # "committed" PROVE calls[m] = 0
    BY DEF AuthorityPrecedesEffect
  <2>1. m \in Plans /\ calls[m] \in Nat
    BY MembersArePlans DEF AllInv, Base, Control, RowControl
  <2> QED
    BY <2>1 DEF AllInv, BundleInv, Authority
<1> QED
  BY <1>1, BundleSound, PTL

\* A member acts only after every command of all its predecessors was confirmed,
\* and the record calls a member EXECUTED only if its persisted outcomes are, although
\* commit(), the scheduler and recovery write the record from copies they read earlier
\* and a plan may end UNKNOWN with every outcome confirmed (executor.py:1041).
THEOREM MembersWaitForPredecessors ==
    ASSUME Tools \subseteq {"cancel"}
    PROVE  Spec => []MembersAreConfirmed
<1>1. AllInv => MembersAreConfirmed
  BY DEF AllInv, BundleInv, MembersAreConfirmed, PredDone, RecordsTell, RecordTells, Callers
<1> QED
  BY <1>1, BundleSound, PTL

\* A settled schedule row tells what happened to its plan, whether the sweep, the
\* in-flight test, the fix-up after an exception or commit()'s undoing wrote it.
THEOREM RowsTellTheTruth ==
    ASSUME Tools \subseteq {"cancel"}
    PROVE  Spec => []RowIsHonest
<1>1. AllInv => RowIsHonest
  <2> SUFFICES ASSUME AllInv, NEW p \in Plans
               PROVE  /\ row[p] = "executed" => planSt[p] = "completed"
                      /\ row[p] = "unknown" => planSt[p] = "unknown"
                      /\ row[p] = "failed" => planSt[p] = "failed" \/ calls[p] = 0
                      /\ row[p] \in {"missed", "cancelled"} => calls[p] = 0
    BY DEF RowIsHonest
  <2>1. Fits(p, row[p]) /\ (planSt[p] = "ready" => calls[p] = 0)
    BY DEF AllInv, Base, BundleInv, RowTells, OnceInv, ReadyUntouched
  <2> QED
    BY <2>1 DEF Fits
<1> QED
  BY <1>1, BundleSound, PTL
=============================================================================
