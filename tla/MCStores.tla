------------------------------- MODULE MCStores -------------------------------
(* What several callers write at once, checked side by side: the consent      *)
(* ledger, local automation rules, the state store, connection secrets, the *)
(* adapters of a connection, and the resident's review of *)
(* a plan.  They share no state; `focus` names the one whose behaviours are    *)
(* explored while the others rest.                                             *)
EXTENDS ApprovalGrants, LocalAutomation, StateIngest, ConnectionSecrets, ManagedAdapters,
        ResidentConsent, TLC

CONSTANTS g1, g2, g3, x1, d1, d2, s1, u1, q1, q2, v1, v2,
          Teams,     \* which issuing attempts and calls arrive together
          e1, e2, t1, t2, c1

VARIABLE focus

-----------------------------------------------------------------------------
(* Approvals.  g1 and g2 replay one assertion; g2 and g3 retry one decision   *)
(* request, whose identity v1 reuses for a revocation; q1 and q2 retry one     *)
(* recurrence under its reservation_id; d2 delivers under the reservation of   *)
(* the schedule s1.                                                            *)
SharedNonce   == (g1 :> "n1") @@ (g2 :> "n1") @@ (g3 :> "n2")
OnePlan       == [g \in Grants |-> "p"]
SharedRequest == (g1 :> NoRequest) @@ (g2 :> "r1") @@ (g3 :> "r1") @@ (v1 :> "r1") @@ (v2 :> "r2")
CallKinds     == [c \in Callers |->
    CASE c = x1 -> "execute" [] c \in {d1, d2} -> "deliver" [] c = s1 -> "schedule"
      [] c = u1 -> "rule" [] OTHER -> "recurring"]
SharedRecord  == [c \in Callers |->
    CASE c \in {s1, d2} -> "S" [] c = u1 -> "U" [] c \in {q1, q2} -> "Q" [] OTHER -> NoRecord]

\* Attempts and calls outside the chosen team were refused before the run begins.
TeamInit ==
    /\ \E T \in Teams :
         /\ issuing = [g \in Grants |-> IF g \in T THEN "idle" ELSE "refused"]
         /\ call = [c \in Callers |-> IF c \in T THEN Idle ELSE [Idle EXCEPT !.pc = "refused"]]
         /\ focus # "approvals" => d1 \in T /\ x1 \in T
    /\ LedgerInit

\* Two events at minute 0.
EventTimes   == (e1 :> 0) @@ (e2 :> 0)

\* One lost link, failed write or restart; a write that fails or comes late, and a
\* restart, among more readbacks.
BudgetOf(c, t, r, b, f, s) ==
    [x \in Bounded |-> CASE x = "changes" -> c [] x = "ticks" -> t [] x = "reads" -> r
                         [] x = "breaks" -> b [] x = "failures" -> f [] x = "restarts" -> s]
FourBudgets == {BudgetOf(2, 1, 1, 1, 0, 0), BudgetOf(2, 1, 1, 0, 1, 0), BudgetOf(2, 1, 1, 0, 0, 1),
                BudgetOf(2, 0, 3, 0, 1, 1)}

\* A connection that is created and, at the same time, reauthenticated.
OneConnection == (t1 :> c1) @@ (t2 :> c1)

\* Two requests of one session while the household changes; of two sessions; a
\* resident beside other callers of the ledger; a wall clock that is set.
LimitOf(v, t, r, a, c, o, u, h, j) ==
    [visits |-> v, talks |-> t, reviews |-> r, asks |-> a, consents |-> c, others |-> o,
     turns |-> u, hours |-> h, jumps |-> j]
FourLimits == {LimitOf(1, 2, 2, 1, 1, 0, 1, 1, 0), LimitOf(2, 2, 2, 2, 2, 0, 0, 1, 0),
               LimitOf(1, 1, 2, 2, 2, 2, 0, 2, 0), LimitOf(1, 1, 1, 1, 1, 1, 1, 2, 1)}

-----------------------------------------------------------------------------
ApprovalsRest  == UNCHANGED approvalVars
AutomationRest == UNCHANGED automationVars
StateRests     == UNCHANGED stateVars
SecretsRest    == UNCHANGED secretVars
AdaptersRest   == UNCHANGED adapterVars
ConsentRests   == UNCHANGED consentVars

StoresInit ==
    /\ focus \in {"approvals", "automation", "state", "secrets", "adapters", "consent"}
    /\ TeamInit /\ AutomationInit /\ StateInit /\ SecretsInit /\ AdaptersInit
    /\ ConsentInit
    /\ focus # "state" => budget = BudgetOf(2, 1, 1, 1, 0, 0)
    /\ focus # "consent" => limit = LimitOf(1, 1, 1, 1, 1, 1, 1, 2, 1)

StoresNext ==
    /\ \/ focus = "approvals" /\ ApprovalNext
          /\ AutomationRest /\ StateRests /\ SecretsRest /\ AdaptersRest
          /\ ConsentRests
       \/ focus = "automation" /\ AutomationNext
          /\ ApprovalsRest /\ StateRests /\ SecretsRest /\ AdaptersRest
          /\ ConsentRests
       \/ focus = "state" /\ StateNext
          /\ ApprovalsRest /\ AutomationRest /\ SecretsRest /\ AdaptersRest
          /\ ConsentRests
       \/ focus = "secrets" /\ SecretsNext
          /\ ApprovalsRest /\ AutomationRest /\ StateRests /\ AdaptersRest
          /\ ConsentRests
       \/ focus = "adapters" /\ AdaptersNext
          /\ ApprovalsRest /\ AutomationRest /\ StateRests /\ SecretsRest
          /\ ConsentRests
       \/ focus = "consent" /\ ConsentNext
          /\ ApprovalsRest /\ AutomationRest /\ StateRests /\ SecretsRest
          /\ AdaptersRest
    /\ UNCHANGED focus

storesVars == <<focus, approvalVars, automationVars, stateVars, secretVars, adapterVars,
                consentVars>>

StoresSpec == StoresInit /\ [][StoresNext]_storesVars

\* The type invariant of the store that moves; the others are as it began.
StoresTypeOK ==
    CASE focus = "approvals"  -> ApprovalTypeOK
      [] focus = "automation" -> AutomationTypeOK
      [] focus = "state"      -> StateTypeOK
      [] focus = "secrets"    -> SecretsTypeOK
      [] focus = "adapters"   -> AdaptersTypeOK
      [] focus = "consent"    -> ConsentTypeOK
=============================================================================
