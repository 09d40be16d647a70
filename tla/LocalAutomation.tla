--------------------------- MODULE LocalAutomation ---------------------------
(***************************************************************************)
(* Local rules that act without a model or a network                        *)
(* (application/local_automation.py, domain/automation.py, the              *)
(* AutomationRuleRepository of persistence/repositories.py and the rule     *)
(* tools of mcp/domotics_server.py).                                        *)
(*                                                                         *)
(* Two handlers run on one event loop: the event consumer, which hands over *)
(* state events one at a time, and the scheduler, which evaluates the       *)
(* clock.  Each works through a list of records it read when it began.      *)
(* Every repository call is one operation of the storage thread, hence one  *)
(* action, and lets everything else run before the next; so does an         *)
(* execution.  A source may deliver an event again, late, or after a        *)
(* younger one.                                                             *)
(***************************************************************************)
EXTENDS Naturals

CONSTANTS
    RuleIds,        \* rule ids, numbered in the order of ORDER BY rule_id
    EventAt,        \* occurred_at of each state event
    NoEvent,        \* NULL in last_event_id
    TimeRules,      \* the rules with a time trigger: they fire every minute
    Cooldown,       \* rule.cooldown_seconds
    Lifetime,       \* how far ahead a new version's expires_at lies
    EventTTL,     \* state_store.stale_after
    MaxEdits,       \* bound on the updates and status changes a household makes
    MaxDeliveries,  \* bound on the events handled, the clock's included
    MaxMinutes      \* bound of the clock

StateEvents == DOMAIN EventAt
Minutes     == 0 .. MaxMinutes
\* _time_event_id names a rule and a minute; a record names the rule already.
EventIds    == StateEvents \cup Minutes

ASSUME AutomationAssumption ==
    /\ RuleIds \subseteq Nat /\ NoEvent \notin EventIds
    /\ \A e \in StateEvents : EventAt[e] \in Minutes /\ e \notin Minutes
    /\ TimeRules \subseteq RuleIds
    /\ Cooldown \in Nat /\ Lifetime \in Nat \ {0} /\ EventTTL \in Nat
    /\ MaxEdits \in Nat /\ MaxDeliveries \in Nat /\ MaxMinutes \in Nat

Handlers == {"events", "minutes"}

VARIABLES
    minute,         \* the runtime clock
    rule,           \* automation_rules: version, status, expiry and last claim
    handler,        \* what each handler is doing
    edits,          \* edits so far
    delivered,      \* events handled so far
    actionPlan,     \* plans: the version stored as automation:<rule>:<event>
    claims,         \* history: event claims that were granted
    actions         \* history: dispatches of each rule for each event

automationVars == <<minute, rule, handler, edits, delivered, actionPlan, claims, actions>>

NoRule == [version |-> 0, status |-> "absent", until |-> 0, lastEvent |-> NoEvent, lastFired |-> 0]
\* A handler: the event it handles, the rules it has still to go through, and the
\* records it listed them from.
Waiting == [pc |-> "wait", event |-> NoEvent, todo |-> {}, listed |-> [r \in RuleIds |-> NoRule]]

AutomationInit ==
    /\ minute = 0 /\ edits = 0 /\ delivered = 0
    /\ rule = [r \in RuleIds |-> NoRule]
    /\ handler = [h \in Handlers |-> Waiting]
    /\ actionPlan = [r \in RuleIds |-> [e \in EventIds |-> 0]]
    /\ claims = {}
    /\ actions = [r \in RuleIds |-> [e \in EventIds |-> 0]]

-----------------------------------------------------------------------------
(* The tools.  A version carries its own standing consent, which ends with  *)
(* the version's expires_at.                                                *)

InstallRule(r, version) == [version |-> version, status |-> "enabled", until |-> minute + Lifetime,
                        lastEvent |-> NoEvent, lastFired |-> 0]

Register(r) ==
    /\ rule[r].version = 0
    /\ rule' = [rule EXCEPT ![r] = InstallRule(r, 1)]
    /\ UNCHANGED <<edits, minute, handler, delivered, actionPlan, claims, actions>>

\* update: a fresh approval, compared and set on the version it replaces; the
\* claims of the old version are forgotten.
Update(r) ==
    /\ rule[r].version > 0 /\ edits < MaxEdits /\ edits' = edits + 1
    /\ rule' = [rule EXCEPT ![r] = InstallRule(r, rule[r].version + 1)]
    /\ UNCHANGED <<minute, handler, delivered, actionPlan, claims, actions>>

\* set_status: enabling a rule whose consent has run out expires it instead.
SetStatus(r, status) ==
    /\ rule[r].version > 0 /\ edits < MaxEdits /\ edits' = edits + 1
    /\ rule' = [rule EXCEPT ![r].status =
                  IF status = "enabled" /\ rule[r].until <= minute THEN "expired" ELSE status]
    /\ UNCHANGED <<minute, handler, delivered, actionPlan, claims, actions>>

-----------------------------------------------------------------------------
(* handle_event.                                                            *)

\* list_all.
Journal == {r \in RuleIds : rule[r].version > 0}
OccurredAt(e) == IF e \in StateEvents THEN EventAt[e] ELSE e

Begin(h, e, pc) ==
    /\ handler[h].pc = "wait" /\ Journal # {}
    /\ handler' = [handler EXCEPT ![h] = [pc |-> pc, event |-> e, todo |-> Journal, listed |-> rule]]

\* handle_state_event: the consumer hands over one event at a time.
DeliverEvent(e) ==
    /\ delivered < MaxDeliveries /\ EventAt[e] <= minute
    /\ Begin("events", e, "each")
    /\ delivered' = delivered + 1
    /\ UNCHANGED <<edits, minute, rule, actionPlan, claims, actions>>

\* evaluate_time lists the rules for the minute it was called in ...
EvaluateTime ==
    /\ delivered < MaxDeliveries
    /\ Begin("minutes", minute, "due")
    /\ delivered' = delivered + 1
    /\ UNCHANGED <<edits, minute, rule, actionPlan, claims, actions>>

\* r comes next in the list of h.
RuleAt(h, r) == r \in handler[h].todo /\ \A q \in handler[h].todo : r <= q
Advance(h, pc) == handler' = [handler EXCEPT ![h].pc = pc]
Leave(h, r) == handler' = [handler EXCEPT ![h] =
                  IF @.todo = {r} THEN Waiting
                  ELSE [pc |-> IF h = "minutes" THEN "due" ELSE "each", event |-> @.event,
                        todo |-> @.todo \ {r}, listed |-> @.listed]]

\* ... and for each that is enabled and due calls handle_event, which lists
\* them again.
Relist(r) ==
    LET m == handler["minutes"] IN
    /\ m.pc = "due" /\ RuleAt("minutes", r)
    /\ IF m.listed[r].status = "enabled" /\ r \in TimeRules
       THEN handler' = [handler EXCEPT !["minutes"] =
                          [pc |-> "each", event |-> m.event, todo |-> m.todo,
                           listed |-> [m.listed EXCEPT ![r] = rule[r]]]]
       ELSE Leave("minutes", r)
    /\ UNCHANGED <<edits, minute, rule, delivered, actionPlan, claims, actions>>

Triggers(r, e)   == (r \in TimeRules) = (e \in Minutes)
TooOld(e)        == minute > OccurredAt(e) + EventTTL

\* One record: the snapshot's status, age and expiry, its trigger and its
\* conditions (either way), and the consent it carries.
Examine(h, r) ==
    /\ handler[h].pc = "each" /\ RuleAt(h, r)
    /\ LET row == handler[h].listed[r]
           e   == handler[h].event
       IN  \/ /\ row.status # "enabled" \/ TooOld(e)
              /\ Leave(h, r) /\ UNCHANGED rule
           \/ /\ row.status = "enabled" /\ ~TooOld(e) /\ minute >= row.until
              /\ rule' = [rule EXCEPT ![r].status = "expired"]
              /\ Leave(h, r)
           \/ /\ row.status = "enabled" /\ ~TooOld(e) /\ minute < row.until
              /\ IF Triggers(r, e) THEN Advance(h, "claim") \/ Leave(h, r) ELSE Leave(h, r)
              /\ UNCHANGED rule
    /\ UNCHANGED <<edits, minute, delivered, actionPlan, claims, actions>>

\* Mutant: the cooldown of a rule is not consulted.
ClaimableAtOnce(row, e) == row.status = "enabled" /\ row.lastEvent # e

\* claim_event: the row as it is now, whichever version the handler listed.
EventClaimable(row, e) ==
    /\ row.status = "enabled" /\ row.lastEvent # e
    /\ row.lastEvent # NoEvent => minute >= row.lastFired + Cooldown

ClaimEvent(h, r) ==
    /\ handler[h].pc = "claim" /\ RuleAt(h, r)
    /\ LET e == handler[h].event
       IN  IF EventClaimable(rule[r], e)
           THEN /\ rule' = [rule EXCEPT ![r] = [version |-> @.version, status |-> @.status,
                                               until |-> @.until, lastEvent |-> e, lastFired |-> minute]]
                /\ claims' = claims \cup {[id |-> r, version |-> rule[r].version, event |-> e,
                                           at |-> minute]}
                /\ Advance(h, "run")
           ELSE Leave(h, r) /\ UNCHANGED <<rule, claims>>
    /\ UNCHANGED <<edits, minute, delivered, actionPlan, actions>>

-----------------------------------------------------------------------------
(* _execute_claimed.                                                        *)

\* PlanRepository.save refuses a plan that ran, and one with another definition.
Accepts(r, e, version) == actionPlan[r][e] = 0

\* The plan is built from the record that was listed, not from the row; it is
\* executed when validation leaves it READY.
ExecuteClaimed(h, r) ==
    /\ handler[h].pc = "run" /\ RuleAt(h, r)
    /\ LET version == handler[h].listed[r].version
           e       == handler[h].event
       IN  \/ /\ Accepts(r, e, version)
              /\ actionPlan' = [actionPlan EXCEPT ![r][e] = version]
              /\ actions' = [actions EXCEPT ![r][e] = @ + 1]
           \/ UNCHANGED <<actionPlan, actions>>
    /\ Leave(h, r)
    /\ UNCHANGED <<edits, minute, rule, delivered, claims>>

PassMinute ==
    /\ minute < MaxMinutes
    /\ minute' = minute + 1
    /\ UNCHANGED <<edits, rule, handler, delivered, actionPlan, claims, actions>>

AutomationNext ==
    \/ \E r \in RuleIds : \/ Register(r) \/ Update(r)
                          \/ \E status \in {"enabled", "disabled"} : SetStatus(r, status)
    \/ \E e \in StateEvents : DeliverEvent(e)
    \/ EvaluateTime
    \/ \E r \in RuleIds : Relist(r)
    \/ \E h \in Handlers, r \in RuleIds : Examine(h, r) \/ ClaimEvent(h, r) \/ ExecuteClaimed(h, r)
    \/ PassMinute

AutomationSpec == AutomationInit /\ [][AutomationNext]_automationVars

-----------------------------------------------------------------------------
(* Properties.                                                              *)

\* Rows, handlers and stored plans hold the values the code can store.
AutomationTypeOK ==
    /\ minute \in Minutes /\ delivered \in 0 .. MaxDeliveries
    /\ \A r \in RuleIds :
         /\ rule[r].version \in 0 .. MaxEdits + 1
         /\ rule[r].status \in {"absent", "enabled", "disabled", "expired"}
         /\ rule[r].lastEvent \in EventIds \cup {NoEvent}
         /\ actionPlan[r] \in [EventIds -> 0 .. MaxEdits + 1]
    /\ \A h \in Handlers : (handler[h].pc = "wait") <=> (handler[h].todo = {})

\* An event makes a rule act at most once, although a claim only remembers the
\* last event: redelivery after another event, and a rule replaced while its
\* plan waits, are stopped by the identity of the plan.  And two claims of one
\* version lie a cooldown apart, whichever events came in whichever order
\* (claim_event).
RuleActsSparingly ==
    /\ \A r \in RuleIds, e \in EventIds : actions[r][e] <= 1
    /\ \A c, d \in claims :
         c.id = d.id /\ c.version = d.version /\ c # d =>
             c.at >= d.at + Cooldown \/ d.at >= c.at + Cooldown
=============================================================================
