---------------------------- MODULE SkillWorkflow ----------------------------
(***************************************************************************)
(* The home-energy skill (EnergySkillWorkflow of skills/workflow.py): one  *)
(* run asks the servers for devices, state, a proposal and the validation  *)
(* of each of its plans, chains the plans into a bundle, asks the operator *)
(* and has the runtime carry the bundle out.  A run left waiting for       *)
(* approval is resumed by later calls, which may overlap: every tool call  *)
(* is awaited, and may fail, answer nonsense or lose its answer after it   *)
(* took effect, or be cancelled with the call that awaits it.              *)
(*                                                                         *)
(* Of the runtime only the promise is here: it carries a bundle out once,  *)
(* and knows it by its digest (ScheduledPlans models how).                 *)
(***************************************************************************)
EXTENDS Naturals, Sequences

CONSTANTS
    Resumes,       \* calls of resume()
    Proposals,     \* proposals: the plans in order, with what each touches and
                   \* whether it will need confirmation
    MaxShifts,     \* bound: changes of the inventory or of the policy
    MaxLosses      \* bound: restarts of the process that holds the runs

ASSUME WorkflowAssumption ==
    /\ "run" \notin Resumes /\ MaxShifts \in Nat /\ MaxLosses \in Nat
    /\ \A p \in Proposals : /\ DOMAIN p = 1 .. Len(p) /\ Len(p) \in Nat \ {0}
                            /\ \A i \in DOMAIN p : p[i].confirm \in BOOLEAN

Hands == {"run"} \cup Resumes

VARIABLES
    bound,     \* the contract: "v1", "v2", or "v3", the one that binds the bundle tool
    current,   \* current_revision: <<of the inventory, of the policy>>
    hand,      \* where run() and each resume() stands
    kept,      \* _runs: the status, with the revision and bundle stored beside it
    final,     \* _consumed_runs: what resume() answers from then on
    carried,   \* the runtime: the commit, as it stands, and for whom it runs
    sent,      \* history: the requests to carry the bundle out
    declined,  \* history: the operator said no while nothing was being executed
    dropped,   \* history: the calls that were cancelled at an await
    losses

workflowVars == <<bound, current, hand, kept, final, carried, sent, declined, dropped, losses>>

Resting  == [at |-> "idle", found |-> 0, proposal |-> <<>>, bundle |-> <<>>,
             rev |-> <<0, 0>>, next |-> 1, approved |-> FALSE]
Ended    == [Resting EXCEPT !.at = "ended"]
NoResult == [status |-> "none", rev |-> <<0, 0>>, bundle |-> <<>>]

WorkflowInit ==
    /\ bound \in {"v1", "v2", "v3"}
    /\ current = <<0, 0>>
    /\ hand = [x \in Hands |-> Resting]
    /\ kept = NoResult /\ final = "none"
    /\ carried = [as |-> "no", by |-> "run"]
    /\ sent = {} /\ declined = FALSE /\ dropped = {} /\ losses = 0

-----------------------------------------------------------------------------
(* Results *)

Executing == {x \in Hands : hand[x].at \in {"grants", "sending"}}

Confirms(b) == \E i \in DOMAIN b : b[i].confirm

\* _store: the run's latest result; a failure before execution keeps no bundle.
Store(x, status) ==
    /\ kept' = IF status \in {"awaiting_approval", "cancelled"}
               THEN [status |-> status, rev |-> hand[x].rev, bundle |-> hand[x].bundle]
               ELSE [NoResult EXCEPT !.status = status]
    /\ hand' = [hand EXCEPT ![x] = Ended]
    /\ UNCHANGED final

\* _resume_failure and _store: the pending run with another status.
Refuse(x, status) ==
    /\ kept' = [kept EXCEPT !.status = status]
    /\ hand' = [hand EXCEPT ![x] = Ended]
    /\ UNCHANGED final

\* _consume: from here on resume() returns this result.
Ends(x, status) ==
    /\ kept' = [status |-> status, rev |-> hand[x].rev, bundle |-> hand[x].bundle]
    /\ final' = status
    /\ hand' = [hand EXCEPT ![x] = Ended]

-----------------------------------------------------------------------------
(* run(): context, proposal, bundle *)

Quiet == UNCHANGED <<bound, current, carried, sent, dropped, losses>>

\* _call_tool: no answer, a malformed one, or an error.
CallFailures == {"failed"}

\* _check_devices, _check_state, _check_energy_context: the answer lacks a list or a
\* field; or a required device or state is missing, stale, invalid or unavailable.
CheckFailures == {"failed", "blocked"}

\* _check_proposal, _required_plans, _check_validation, _check_explanation: no proposal
\* that can be executed, or a plan that is refused.
PlanFailures == {"failed", "blocked"}

\* run() ends early, at any of its calls before execution.
RunFails ==
    /\ \E status \in CASE hand["run"].at \in {"idle", "found"} -> CallFailures \cup CheckFailures
                       [] hand["run"].at \in {"ready", "proposed", "validated"}
                            -> CallFailures \cup PlanFailures
                       [] OTHER -> {} :
         Store("run", status)
    /\ Quiet /\ UNCHANGED declined

\* discover_devices names the inventory everything later is compared with.
Discover ==
    /\ hand["run"].at = "idle"
    /\ hand' = [hand EXCEPT !["run"] = [hand["run"] EXCEPT !.at = "found", !.found = current[1]]]
    /\ Quiet /\ UNCHANGED <<kept, final, declined>>

\* get_state and, but for the oldest contract, get_energy_context, whose inventory
\* must be the one discovered.
ReadContext ==
    /\ hand["run"].at = "found"
    /\ IF bound = "v1" \/ current[1] = hand["run"].found
       THEN hand' = [hand EXCEPT !["run"] = [hand["run"] EXCEPT !.at = "ready"]] /\ UNCHANGED <<kept, final>>
       ELSE Store("run", "blocked")
    /\ Quiet /\ UNCHANGED declined

\* optimize_scenario: a proposal, or nothing to do, which is explained and consumed.
Optimize ==
    /\ hand["run"].at = "ready"
    /\ \/ /\ \E p \in Proposals :
               hand' = [hand EXCEPT !["run"] = [hand["run"] EXCEPT !.at = "proposed", !.proposal = p]]
          /\ UNCHANGED <<kept, final>>
       \/ Ends("run", "no_action_required")
    /\ Quiet /\ UNCHANGED declined

\* Mutant: only the plan just before is looked at.
PredecessorsJustBefore(p, j) == {i \in {j - 1} \ {0} : p[i].touches \cap p[j].touches # {}}

\* last_member_index_for_device: for each device of plan j, the last plan before it
\* that touches the device.
Predecessors(p, j) ==
    {i \in 1 .. (j - 1) : \E d \in p[i].touches \cap p[j].touches :
                              \A k \in (i + 1) .. (j - 1) : d \notin p[k].touches}

\* validate_plan of the next plan.  Its revision must extend the inventory that was
\* discovered; the bundle keeps the revision of the last validation.
ValidateNext ==
    LET p == hand["run"].proposal
        j == Len(hand["run"].bundle) + 1 IN
    /\ hand["run"].at = "proposed"
    /\ IF current[1] = hand["run"].found
       THEN /\ hand' = [hand EXCEPT !["run"] = [hand["run"] EXCEPT
                 !.bundle = Append(hand["run"].bundle,
                                   [touches |-> p[j].touches, confirm |-> p[j].confirm,
                                    after |-> Predecessors(p, j), rev |-> current]),
                 !.rev = current, !.at = IF j = Len(p) THEN "validated" ELSE "proposed"]]
            /\ UNCHANGED <<kept, final>>
       ELSE Store("run", "blocked")
    /\ Quiet /\ UNCHANGED declined

-----------------------------------------------------------------------------
(* Approval *)

\* _execute begins: refused and consumed if the revision moved or cannot be read.
BeginExecution(approved) ==
    \/ /\ current = hand["run"].rev
       /\ hand' = [hand EXCEPT !["run"] = [hand["run"] EXCEPT !.at = "grants", !.approved = approved]]
       /\ UNCHANGED <<kept, final>>
    \/ Ends("run", "blocked")

\* explain_solution, and no plan needs the operator.
ProceedUnasked ==
    /\ hand["run"].at = "validated" /\ ~Confirms(hand["run"].bundle)
    /\ BeginExecution(FALSE)
    /\ Quiet /\ UNCHANGED declined

\* explain_solution and the host's request_approval: no answer yet, a refusal, an
\* approval that quotes another digest, or one of this bundle.
Ask ==
    /\ hand["run"].at = "validated" /\ Confirms(hand["run"].bundle)
    /\ \/ Store("run", "awaiting_approval") /\ UNCHANGED declined
       \/ Store("run", "cancelled") /\ declined' = TRUE
       \/ Store("run", "blocked") /\ UNCHANGED declined
       \/ BeginExecution(TRUE) /\ UNCHANGED declined
    /\ Quiet

Calling(x) == x \in Resumes /\ hand[x].at = "idle" /\ hand["run"].at = "ended"

\* resume() of a run that is consumed, or does not wait (any more, or as far as a
\* restarted process knows).
ResumeInVain(x) ==
    /\ Calling(x)
    /\ IF final # "none"
       THEN hand' = [hand EXCEPT ![x] = Ended] /\ UNCHANGED <<kept, final>>
       ELSE kept.status # "awaiting_approval" /\ Refuse(x, "blocked")
    /\ Quiet /\ UNCHANGED declined

\* resume() of a waiting run: no decision, a malformed or mismatched one, a refusal.
ResumeDecides(x) ==
    /\ Calling(x) /\ final = "none" /\ kept.status = "awaiting_approval"
    /\ \/ hand' = [hand EXCEPT ![x] = Ended] /\ UNCHANGED <<kept, final, declined>>
       \/ Refuse(x, "blocked") /\ UNCHANGED declined
       \/ Refuse(x, "cancelled") /\ declined' = (declined \/ Executing = {})
    /\ Quiet

\* resume() with an approval of this bundle, up to the first await of _execute.
ResumeExecutes(x) ==
    /\ Calling(x) /\ final = "none" /\ kept.status = "awaiting_approval"
    /\ \/ /\ current = kept.rev
          /\ hand' = [hand EXCEPT ![x] = [hand[x] EXCEPT !.at = "grants", !.rev = kept.rev,
                                                      !.bundle = kept.bundle, !.approved = TRUE]]
          /\ UNCHANGED <<kept, final>>
       \/ Refuse(x, "blocked")
    /\ Quiet /\ UNCHANGED declined

-----------------------------------------------------------------------------
(* _execute and _execute_v3_bundle *)

\* The next plan: one that needs confirmation gets a grant of its own, or the run
\* ends here.
NextMember(x) ==
    LET h == hand[x] IN
    /\ h.at = "grants" /\ h.next <= Len(h.bundle)
    /\ IF h.bundle[h.next].confirm /\ ~h.approved
       THEN Ends(x, "blocked")
       ELSE \/ hand' = [hand EXCEPT ![x] = [hand[x] EXCEPT !.next = hand[x].next + 1]] /\ UNCHANGED <<kept, final>>
            \/ h.bundle[h.next].confirm /\ Ends(x, "failed")
    /\ Quiet /\ UNCHANGED declined

\* The bundle tool, or execute_plan or schedule_plan for a lone plan of an old contract.
ByBundle(x) == bound = "v3" \/ Len(hand[x].bundle) > 1

\* The request goes out.  The runtime refuses it, begins, or finds it begun.
Send(x) ==
    /\ hand[x].at = "grants" /\ hand[x].next > Len(hand[x].bundle)
    /\ hand' = [hand EXCEPT ![x] = [hand[x] EXCEPT !.at = "sending"]]
    /\ sent' = sent \cup {[by |-> x, bundle |-> hand[x].bundle, approved |-> hand[x].approved]}
    /\ \/ carried.as = "no" /\ carried' = [as |-> "committing", by |-> x]
       \/ UNCHANGED carried
    /\ UNCHANGED <<bound, current, kept, final, declined, dropped, losses>>

\* What a commit ends as; "mixed" is completed with a member still scheduled.
Outcomes == {"completed", "mixed", "scheduled", "partially_committed", "failed", "unknown",
             "missed"}

\* The runtime settles the commit, whoever is still waiting for it.
Settle ==
    /\ carried.as = "committing"
    /\ \E o \in Outcomes : carried' = [carried EXCEPT !.as = o]
    /\ UNCHANGED <<bound, current, hand, kept, final, sent, declined, dropped, losses>>

\* The run's status for the runtime's answer: a lone plan is confirmed, scheduled or
\* failed, and a commit still under way, or of another call on a lone plan, is no answer.
StatusOf(x) ==
    CASE carried.as = "mixed" -> "scheduled"
      [] carried.as \in {"completed", "scheduled"} /\ (ByBundle(x) \/ carried.by = x) -> carried.as
      [] carried.as \in {"partially_committed", "unknown", "missed"} /\ ByBundle(x) -> carried.as
      [] OTHER -> "failed"

\* The answer, or none that can be used.
Answer(x) ==
    /\ hand[x].at = "sending"
    /\ \/ /\ carried.by # x \/ carried.as # "committing"
          /\ Ends(x, StatusOf(x))
       \/ Ends(x, "failed")
    /\ Quiet /\ UNCHANGED declined

\* Where a call awaits a tool: run() nearly everywhere, a call that executes at a
\* grant it asks for and at its request.
Awaiting(x) ==
    LET h == hand[x] IN
    \/ h.at \in {"found", "ready", "proposed", "validated", "sending"}
    \/ h.at = "idle" /\ x = "run"
    \/ h.at = "grants" /\ h.next <= Len(h.bundle) /\ h.bundle[h.next].confirm /\ h.approved

\* The call is cancelled at an await.  No handler takes a CancelledError: nothing is
\* stored or consumed, and a run that waited for approval still does, whatever went out.
Cancelled(x) ==
    /\ Awaiting(x)
    /\ hand' = [hand EXCEPT ![x] = Ended]
    /\ dropped' = dropped \cup {x}
    /\ UNCHANGED <<bound, current, kept, final, carried, sent, declined, losses>>

-----------------------------------------------------------------------------
\* The inventory or the policy changes.
Shift ==
    /\ current[1] + current[2] < MaxShifts
    /\ \E i \in {1, 2} : current' = [current EXCEPT ![i] = @ + 1]
    /\ UNCHANGED <<bound, hand, kept, final, carried, sent, declined, dropped, losses>>

\* The process is restarted after run() returned: runs and results are in memory.
WorkerRestarts ==
    /\ losses < MaxLosses /\ hand["run"].at = "ended" /\ kept # NoResult
    /\ losses' = losses + 1
    /\ kept' = NoResult /\ final' = "none"
    /\ hand' = [x \in Hands |-> IF hand[x].at = "idle" THEN hand[x]
                                ELSE Ended]
    /\ UNCHANGED <<bound, current, carried, sent, declined, dropped>>

WorkflowNext ==
    \/ RunFails \/ Discover \/ ReadContext \/ Optimize \/ ValidateNext \/ ProceedUnasked \/ Ask
    \/ \E x \in Hands : \/ ResumeInVain(x) \/ ResumeDecides(x) \/ ResumeExecutes(x)
                        \/ NextMember(x) \/ Send(x) \/ Answer(x) \/ Cancelled(x)
    \/ Settle \/ Shift \/ WorkerRestarts

WorkflowSpec == WorkflowInit /\ [][WorkflowNext]_workflowVars

-----------------------------------------------------------------------------
(* Properties *)

Statuses == (Outcomes \ {"mixed"})
            \cup {"none", "awaiting_approval", "cancelled", "blocked", "no_action_required"}

WorkflowTypeOK ==
    /\ current[1] + current[2] <= MaxShifts
    /\ \A x \in Hands : /\ hand[x].at \in {"idle", "found", "ready", "proposed", "validated",
                                           "grants", "sending", "ended"}
                        /\ hand[x].next \in 1 .. (Len(hand[x].bundle) + 1)
    /\ kept.status \in Statuses /\ final \in Statuses
    /\ carried.as \in Outcomes \cup {"no", "committing"} /\ carried.by \in Hands
    /\ declined \in BOOLEAN /\ dropped \subseteq Hands /\ losses <= MaxLosses

\* The plans a plan of a bundle waits for, directly or through others.
Awaits(b, j) ==
    {i \in DOMAIN b : \A S \in SUBSET DOMAIN b :
        b[j].after \subseteq S /\ (\A k \in S : b[k].after \subseteq S) => i \in S}

\* Two plans that touch one device are chained, whatever lies between them.
TrajectoriesAreChained ==
    \A s \in sent : \A j \in DOMAIN s.bundle : \A i \in 1 .. (j - 1) :
        s.bundle[i].touches \cap s.bundle[j].touches # {} => i \in Awaits(s.bundle, j)

\* Every plan of a bundle that goes out was validated on one inventory, and the
\* operator approved the bundle if any of its plans asks for it.
RequestsAreSound ==
    \A s \in sent : /\ \A i, j \in DOMAIN s.bundle : s.bundle[i].rev[1] = s.bundle[j].rev[1]
                    /\ Confirms(s.bundle) => s.approved

\* Once the operator declined a run that nothing was executing, nothing more goes out,
\* and what had gone out was requested by calls cancelled before their answer: the run
\* is stored as cancelled while the runtime may carry that request out.
RefusalHolds == declined => \A s \in sent : s.by \in dropped

\* A run is said to be completed or scheduled only if the runtime made it so, and to
\* need nothing only if nothing was sent.
ResultIsEarned ==
    /\ final = "completed" => carried.as = "completed"
    /\ final = "scheduled" => carried.as \in {"scheduled", "mixed"}
    /\ final = "no_action_required" => sent = {}

\* The skill carries out what was validated and approved, in the order the proposal
\* depends on, and reports no success the runtime did not have.
WorkflowIsFaithful ==
    TrajectoriesAreChained /\ RequestsAreSound /\ RefusalHolds /\ ResultIsEarned
=============================================================================
