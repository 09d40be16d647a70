-------------------------- MODULE MCScheduledPlans --------------------------
(* Small instances of ScheduledPlans.                                         *)
EXTENDS ScheduledPlans

CONSTANTS m1, m2

\* A bundle whose second member depends on the first.
TwoMembers == <<m1, m2>>
Chain == [p \in Plans |-> IF p = m2 THEN {m1} ELSE {}]

\* A bundle of one plan, or no bundle at all.
OneMember == <<m1>>
NoMembers == <<>>
NoPred == [p \in Plans |-> {}]

\* execute_at.  The bundle may be committed before, between and after these.
AtLater == [p \in Plans |-> IF p = m1 THEN 2 ELSE 3]
AtTwo == [p \in Plans |-> 2]
AtOne == [p \in Plans |-> 1]

-----------------------------------------------------------------------------
(* A household that works with bundles only: nobody calls a tool, so that no  *)
(* plan is executing when the scheduler reaches its row.                      *)

BundleSched ==
    \/ \E p \in Plans : SNext(p)
    \/ SEnd \/ SInflight \/ SMissed \/ SMissedMember
    \/ SEvidence \/ SGate \/ SGateRow \/ SGateMember \/ SExecEnded \/ SComplete \/ SRecord
    \/ SFixup \/ RecPlans \/ RecList \/ RecMember \/ RecSave \/ RecSettle \/ RecDone

BundleNext ==
    \/ Tick \/ Crash \/ Restart \/ Sweep \/ BundleSched \/ CommitBegin \/ Saga
    \/ \E c \in Callers : Exec(c)
    \/ \E fate \in Fates : Befall(fate)

BundleSpec == Init /\ [][BundleNext]_vars /\ Fairness
=============================================================================
