---------------------------- MODULE PlanLifecycle ----------------------------
(***************************************************************************)
(* What the execution path promises its callers about a plan, whatever hosts, *)
(* leases, ledgers, recoveries and cancellations are behind it: the plan is   *)
(* begun once, each of its commands reaches the adapter at most once and only *)
(* after that, the plan is settled once, and a settled status tells what      *)
(* became of the commands.  The one status under which a command may still be *)
(* on its way is UNKNOWN.  PlanExecution implements this.                     *)
(***************************************************************************)
CONSTANTS Plans, Cmds

VARIABLES
    status,     \* plan -> its persisted PlanStatus
    effect      \* plan -> command -> what the adapter made of it

lifecycleVars == <<status, effect>>

Replies == {"accepted", "rejected", "lost"}
Verdicts == {"completed", "partially_failed", "failed", "unknown", "cancelled"}

\* The status says no less than what the effects e may be.
Tells(v, e) ==
    \A i \in Cmds :
        /\ v = "completed" => e[i] = "accepted"
        /\ v = "partially_failed" => e[i] \in {"none", "accepted", "rejected"}
        /\ v = "failed" => e[i] \in {"none", "rejected"}
        /\ v = "cancelled" => e[i] = "none"

Init ==
    /\ status = [p \in Plans |-> "ready"]
    /\ effect = [p \in Plans |-> [i \in Cmds |-> "none"]]

Begin(p) ==
    /\ status[p] = "ready"
    /\ status' = [status EXCEPT ![p] = "executing"]
    /\ UNCHANGED effect

\* A command is sent, perhaps by a host that was given up already.
Call(p, i) ==
    /\ status[p] \in {"executing", "unknown"}
    /\ effect[p][i] = "none"
    /\ effect' = [effect EXCEPT ![p][i] = "pending"]
    /\ UNCHANGED status

Reply(p, i, r) ==
    /\ status[p] \in {"executing", "unknown"}
    /\ effect[p][i] = "pending"
    /\ effect' = [effect EXCEPT ![p][i] = r]
    /\ UNCHANGED status

Settle(p, v) ==
    /\ status[p] = "executing"
    /\ Tells(v, effect[p])
    /\ status' = [status EXCEPT ![p] = v]
    /\ UNCHANGED effect

\* Executions whose end nobody will report are settled without one.
GiveUp(S) ==
    /\ \A p \in S : status[p] = "executing"
    /\ status' = [p \in Plans |-> IF p \in S THEN "unknown" ELSE status[p]]
    /\ UNCHANGED effect

Next ==
    \/ \E p \in Plans : \/ Begin(p)
                        \/ \E i \in Cmds : Call(p, i) \/ \E r \in Replies : Reply(p, i, r)
                        \/ \E v \in Verdicts : Settle(p, v)
    \/ \E S \in SUBSET Plans : GiveUp(S)

Spec == Init /\ [][Next]_lifecycleVars
=============================================================================
