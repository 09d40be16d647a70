---------------------------- MODULE StoresProofs ----------------------------
(***************************************************************************)
(* What several callers write at once: proofs.                             *)
(***************************************************************************)
EXTENDS MCStores, FiniteSetTheorems, FunctionTheorems, TLAPS

-----------------------------------------------------------------------------
(* Local automation.  A claim remembers only the last event of a version,   *)
(* and the version that is listed need not be the one that is claimed for;  *)
(* what the invariant adds is that a claim of the version that is stored     *)
(* lies no later than its lastFired, and that a rule acted for an event      *)
(* exactly when there is a plan of that name.                               *)

RuleRows == [version : 0 .. MaxEdits + 1,
             status : {"absent", "enabled", "disabled", "expired"}, until : Nat,
             lastEvent : EventIds \cup {NoEvent}, lastFired : Nat]
HandlerStates == [pc : {"wait", "due", "each", "claim", "run"}, event : EventIds \cup {NoEvent},
                  todo : SUBSET RuleIds, listed : [RuleIds -> RuleRows]]
ClaimRecords == [id : RuleIds, version : Nat, event : EventIds, at : Nat]

AutomationType ==
    /\ minute \in Minutes /\ edits \in 0 .. MaxEdits /\ delivered \in 0 .. MaxDeliveries
    /\ rule \in [RuleIds -> RuleRows] /\ handler \in [Handlers -> HandlerStates]
    /\ actionPlan \in [RuleIds -> [EventIds -> 0 .. MaxEdits + 1]]
    /\ actions \in [RuleIds -> [EventIds -> Nat]]
    /\ claims \subseteq ClaimRecords

\* A handler works on rules that exist.
HandlerTells(h) ==
    /\ handler[h].pc = "wait" <=> handler[h].todo = {}
    /\ handler[h].pc # "wait" => handler[h].event \in EventIds
    /\ \A r \in handler[h].todo : handler[h].listed[r].version > 0 /\ rule[r].version > 0

ActionTells(r, e) == actions[r][e] = IF actionPlan[r][e] = 0 THEN 0 ELSE 1

ClaimTells(c) ==
    /\ c.at <= minute /\ c.version <= rule[c.id].version
    /\ c.version = rule[c.id].version =>
         rule[c.id].lastEvent # NoEvent /\ c.at <= rule[c.id].lastFired

ClaimsApart(c, d) ==
    c.id = d.id /\ c.version = d.version /\ c # d => c.at >= d.at + Cooldown \/ d.at >= c.at + Cooldown

AutomationInv ==
    /\ AutomationType
    /\ \A r \in RuleIds : rule[r].version <= edits + 1
    /\ \A h \in Handlers : HandlerTells(h)
    /\ \A r \in RuleIds, e \in EventIds : ActionTells(r, e)
    /\ \A c \in claims : ClaimTells(c)
    /\ \A c, d \in claims : ClaimsApart(c, d)

HandlerShape(x) ==
    /\ x.pc = "wait" <=> x.todo = {}
    /\ x.pc # "wait" => x.event \in EventIds
    /\ \A r \in x.todo : x.listed[r].version > 0 /\ rule[r].version > 0

LEMMA MinuteIsNat == AutomationInv => minute \in Nat /\ MaxEdits \in Nat /\ edits \in Nat
BY AutomationAssumption DEF AutomationInv, AutomationType, Minutes

LEMMA RowFields ==
    ASSUME NEW x \in RuleRows
    PROVE  /\ x.version \in Nat /\ x.version \in 0 .. MaxEdits + 1 /\ x.until \in Nat
           /\ x.status \in {"absent", "enabled", "disabled", "expired"}
           /\ x.lastEvent \in EventIds \cup {NoEvent} /\ x.lastFired \in Nat
BY AutomationAssumption DEF RuleRows

LEMMA HandlerFields ==
    ASSUME NEW x \in HandlerStates
    PROVE  /\ x.pc \in {"wait", "due", "each", "claim", "run"} /\ x.todo \subseteq RuleIds
           /\ x.event \in EventIds \cup {NoEvent} /\ x.listed \in [RuleIds -> RuleRows]
BY DEF HandlerStates

LEMMA WaitingIs == Waiting \in HandlerStates /\ Waiting.pc = "wait" /\ Waiting.todo = {}
<1>1. NoRule \in RuleRows BY AutomationAssumption DEF NoRule, RuleRows
<1>2. [r \in RuleIds |-> NoRule] \in [RuleIds -> RuleRows] BY <1>1
<1> QED BY <1>2 DEF Waiting, HandlerStates

\* One handler goes on, while versions only grow.
LEMMA HandlersMove ==
    ASSUME AutomationInv, NEW h \in Handlers, NEW x \in HandlerStates, HandlerShape(x),
           handler' = [handler EXCEPT ![h] = x],
           \A r \in RuleIds : rule[r].version > 0 => rule'[r].version > 0
    PROVE  handler' \in [Handlers -> HandlerStates] /\ \A g \in Handlers : HandlerTells(g)'
<1>1. handler \in [Handlers -> HandlerStates] BY DEF AutomationInv, AutomationType
<1>2. handler' \in [Handlers -> HandlerStates] /\ handler'[h] = x
      /\ \A g \in Handlers \ {h} : handler'[g] = handler[g]
  BY <1>1
<1>3. \A g \in Handlers : handler[g].todo \subseteq RuleIds BY <1>1, HandlerFields
<1>4. x.todo \subseteq RuleIds BY HandlerFields
<1>5. ASSUME NEW g \in Handlers PROVE HandlerTells(g)'
  <2>1. CASE g = h BY <1>2, <1>4, <2>1 DEF HandlerTells, HandlerShape
  <2>2. CASE g # h
    <3>1. HandlerTells(g) /\ handler'[g] = handler[g] BY <1>2, <2>2 DEF AutomationInv
    <3> QED BY <1>3, <3>1 DEF HandlerTells
  <2> QED BY <2>1, <2>2
<1> QED BY <1>2, <1>5

\* Leaving a rule leaves the rest of the list.
LEMMA LeaveMoves ==
    ASSUME AutomationInv, NEW h \in Handlers, NEW r \in RuleIds, RuleAt(h, r), Leave(h, r),
           \A q \in RuleIds : rule[q].version > 0 => rule'[q].version > 0
    PROVE  handler' \in [Handlers -> HandlerStates] /\ \A g \in Handlers : HandlerTells(g)'
<1>1. PICK y \in HandlerStates : y = handler[h] BY DEF AutomationInv, AutomationType
<1>2. HandlerShape(y) BY <1>1 DEF AutomationInv, HandlerTells, HandlerShape
<1>3. PICK x : x = IF y.todo = {r} THEN Waiting
                   ELSE [pc |-> IF h = "minutes" THEN "due" ELSE "each", event |-> y.event,
                         todo |-> y.todo \ {r}, listed |-> y.listed]
  OBVIOUS
<1>4. handler' = [handler EXCEPT ![h] = x] BY <1>1, <1>3 DEF Leave
<1>5. r \in y.todo BY <1>1 DEF RuleAt
<1>6. x \in HandlerStates /\ HandlerShape(x)
  <2>1. CASE y.todo = {r} BY <1>3, <2>1, WaitingIs DEF HandlerShape
  <2>2. CASE y.todo # {r}
    <3>1. /\ x = [pc |-> IF h = "minutes" THEN "due" ELSE "each", event |-> y.event,
                  todo |-> y.todo \ {r}, listed |-> y.listed]
          /\ x.todo = y.todo \ {r} /\ x.event = y.event /\ x.listed = y.listed
          /\ x.pc \in {"due", "each"}
      BY <1>3, <2>2
    <3>2. x \in HandlerStates BY <3>1, HandlerFields DEF HandlerStates
    <3>3. x.todo # {} /\ y.pc # "wait" BY <1>2, <1>5, <2>2, <3>1 DEF HandlerShape
    <3> QED BY <1>2, <3>1, <3>2, <3>3 DEF HandlerShape
  <2> QED BY <2>1, <2>2
<1> QED BY <1>4, <1>6, HandlersMove

LEMMA AdvanceMoves ==
    ASSUME AutomationInv, NEW h \in Handlers, NEW r \in RuleIds, RuleAt(h, r),
           NEW pc \in {"claim", "run"}, Advance(h, pc),
           \A q \in RuleIds : rule[q].version > 0 => rule'[q].version > 0
    PROVE  handler' \in [Handlers -> HandlerStates] /\ \A g \in Handlers : HandlerTells(g)'
<1>1. PICK y \in HandlerStates : y = handler[h] BY DEF AutomationInv, AutomationType
<1>2. HandlerShape(y) BY <1>1 DEF AutomationInv, HandlerTells, HandlerShape
<1>3. PICK x : x = [y EXCEPT !.pc = pc] OBVIOUS
<1>4. handler' = [handler EXCEPT ![h] = x] BY <1>1, <1>3 DEF Advance
<1>5. y.todo # {} BY <1>1 DEF RuleAt
<1>6. /\ x \in HandlerStates /\ x.pc = pc /\ x.todo = y.todo /\ x.event = y.event
      /\ x.listed = y.listed
  BY <1>3 DEF HandlerStates
<1>7. HandlerShape(x) BY <1>2, <1>5, <1>6 DEF HandlerShape
<1> QED BY <1>4, <1>6, <1>7, HandlersMove

\* One row changes: a new version, or the claims of the same.
LEMMA RulesMove ==
    ASSUME AutomationInv, NEW r \in RuleIds, NEW x \in RuleRows, rule' = [rule EXCEPT ![r] = x],
           minute' = minute,
           \/ x.version > rule[r].version
           \/ /\ x.version = rule[r].version
              /\ rule[r].lastEvent # NoEvent => x.lastEvent # NoEvent /\ x.lastFired >= rule[r].lastFired
    PROVE  /\ rule' \in [RuleIds -> RuleRows]
           /\ \A q \in RuleIds : rule[q].version > 0 => rule'[q].version > 0
           /\ \A c \in claims : ClaimTells(c)'
<1>1. rule \in [RuleIds -> RuleRows] BY DEF AutomationInv, AutomationType
<1>2. rule' \in [RuleIds -> RuleRows] /\ rule'[r] = x /\ \A q \in RuleIds \ {r} : rule'[q] = rule[q]
  BY <1>1
<1>3. /\ rule[r].version \in Nat /\ x.version \in Nat
      /\ rule[r].lastFired \in Nat /\ x.lastFired \in Nat
  BY <1>1, RowFields
<1>4. \A q \in RuleIds : rule[q].version > 0 => rule'[q].version > 0
  <2>1. TAKE q \in RuleIds
  <2>2. CASE q = r BY <1>2, <1>3, <2>2
  <2>3. CASE q # r BY <1>2, <2>3
  <2> QED BY <2>2, <2>3
<1>5. ASSUME NEW c \in claims PROVE ClaimTells(c)'
  <2>1. ClaimTells(c) BY DEF AutomationInv
  <2>2. c.id \in RuleIds /\ c.version \in Nat /\ c.at \in Nat
    <3>1. c \in ClaimRecords BY DEF AutomationInv, AutomationType
    <3> QED BY <3>1 DEF ClaimRecords
  <2>3. CASE c.id # r
    <3>1. rule'[c.id] = rule[c.id] BY <1>2, <2>2, <2>3
    <3> QED BY <2>1, <3>1 DEF ClaimTells
  <2>4. CASE c.id = r
    <3>1. rule'[c.id] = x BY <1>2, <2>4
    <3>2. c.at <= minute /\ c.version <= rule[r].version
          /\ (c.version = rule[r].version => rule[r].lastEvent # NoEvent /\ c.at <= rule[r].lastFired)
      BY <2>1, <2>4 DEF ClaimTells
    <3>3. c.version <= x.version /\ (c.version = x.version => x.lastEvent # NoEvent /\ c.at <= x.lastFired)
      BY <1>3, <2>2, <3>2
    <3> QED BY <3>1, <3>2, <3>3 DEF ClaimTells
  <2> QED BY <2>3, <2>4
<1> QED BY <1>2, <1>4, <1>5

-----------------------------------------------------------------------------
(* Steps *)

LEMMA AutomationInitially == AutomationInit => AutomationInv
<1> SUFFICES ASSUME AutomationInit PROVE AutomationInv OBVIOUS
<1>1. NoRule \in RuleRows /\ NoRule.version = 0 BY AutomationAssumption DEF NoRule, RuleRows
<1>2. /\ \A r \in RuleIds : rule[r] = NoRule
      /\ rule \in [RuleIds -> RuleRows] /\ handler \in [Handlers -> HandlerStates]
      /\ \A h \in Handlers : handler[h] = Waiting
  BY <1>1, WaitingIs DEF AutomationInit
<1>3. AutomationType BY <1>2, AutomationAssumption DEF AutomationInit, AutomationType, Minutes
<1>4. \A h \in Handlers : HandlerTells(h) BY <1>2, WaitingIs DEF HandlerTells
<1>5. \A r \in RuleIds, e \in EventIds : ActionTells(r, e) BY DEF AutomationInit, ActionTells
<1>6. edits = 0 /\ claims = {} BY DEF AutomationInit
<1>7. \A r \in RuleIds : rule[r].version <= edits + 1
  <2>1. TAKE r \in RuleIds
  <2>2. rule[r].version = 0 BY <1>1, <1>2
  <2>3. edits = 0 BY <1>6
  <2>4. 0 <= 0 + 1 OBVIOUS
  <2> QED BY <2>2, <2>3, <2>4
<1> QED BY <1>3, <1>4, <1>5, <1>6, <1>7 DEF AutomationInv

\* A step that changes a row only.
LEMMA RowStepKeeps ==
    ASSUME AutomationInv, NEW r \in RuleIds, NEW x \in RuleRows, rule' = [rule EXCEPT ![r] = x],
           UNCHANGED <<minute, handler, delivered, actionPlan, claims, actions>>,
           edits' \in 0 .. MaxEdits, edits' >= edits, x.version <= edits' + 1,
           \/ x.version > rule[r].version
           \/ /\ x.version = rule[r].version
              /\ rule[r].lastEvent # NoEvent => x.lastEvent # NoEvent /\ x.lastFired >= rule[r].lastFired
    PROVE  AutomationInv'
<1>1. /\ minute' = minute /\ handler' = handler /\ delivered' = delivered
      /\ actionPlan' = actionPlan /\ claims' = claims /\ actions' = actions
  OBVIOUS
<1>2. /\ rule' \in [RuleIds -> RuleRows]
      /\ \A q \in RuleIds : rule[q].version > 0 => rule'[q].version > 0
      /\ \A c \in claims : ClaimTells(c)'
  BY <1>1, RulesMove
<1>3. AutomationType' BY <1>1, <1>2 DEF AutomationInv, AutomationType
<1>4. \A h \in Handlers : HandlerTells(h)'
  <2>1. TAKE h \in Handlers
  <2>2. handler[h].todo \subseteq RuleIds BY HandlerFields DEF AutomationInv, AutomationType
  <2> QED BY <1>1, <1>2, <2>2 DEF AutomationInv, HandlerTells
<1>5. \A q \in RuleIds, e \in EventIds : ActionTells(q, e)' BY <1>1 DEF AutomationInv, ActionTells
<1>6. \A q \in RuleIds : rule'[q].version <= edits' + 1
  <2>1. TAKE q \in RuleIds
  <2>2. rule[q].version \in Nat /\ rule[q].version <= edits + 1 /\ edits \in Nat /\ edits' \in Nat
    BY RowFields, MinuteIsNat, AutomationAssumption DEF AutomationInv, AutomationType
  <2>3. rule'[q] = x \/ rule'[q] = rule[q] BY DEF AutomationInv, AutomationType
  <2> QED BY <2>2, <2>3
<1> QED BY <1>1, <1>2, <1>3, <1>4, <1>5, <1>6 DEF AutomationInv, ClaimsApart

LEMMA InstallIs ==
    ASSUME AutomationInv, NEW r, NEW n \in 0 .. MaxEdits + 1
    PROVE  InstallRule(r, n) \in RuleRows /\ InstallRule(r, n).version = n
BY MinuteIsNat, AutomationAssumption DEF InstallRule, RuleRows

LEMMA RegisterKeeps == ASSUME AutomationInv, NEW r \in RuleIds, Register(r) PROVE AutomationInv'
<1>1. 1 \in 0 .. MaxEdits + 1 BY MinuteIsNat
<1>2. PICK x \in RuleRows : x = InstallRule(r, 1) /\ x.version = 1 BY <1>1, InstallIs
<1>3. rule' = [rule EXCEPT ![r] = x] /\ rule[r].version = 0 /\ edits' = edits
      /\ UNCHANGED <<minute, handler, delivered, actionPlan, claims, actions>>
  BY <1>2 DEF Register
<1>4. edits' \in 0 .. MaxEdits /\ edits' >= edits /\ x.version <= edits' + 1 /\ x.version > rule[r].version
  BY <1>2, <1>3, MinuteIsNat DEF AutomationInv, AutomationType
<1> QED BY <1>3, <1>4, RowStepKeeps

LEMMA UpdateKeeps == ASSUME AutomationInv, NEW r \in RuleIds, Update(r) PROVE AutomationInv'
<1>1. /\ rule[r].version \in Nat /\ rule[r].version <= edits + 1 /\ edits \in Nat /\ MaxEdits \in Nat
      /\ edits < MaxEdits /\ edits' = edits + 1
  BY MinuteIsNat, RowFields DEF AutomationInv, AutomationType, Update
<1>2. rule[r].version + 1 \in 0 .. MaxEdits + 1 BY <1>1
<1>3. PICK x \in RuleRows : x = InstallRule(r, rule[r].version + 1) /\ x.version = rule[r].version + 1
  BY <1>2, InstallIs
<1>4. rule' = [rule EXCEPT ![r] = x]
      /\ UNCHANGED <<minute, handler, delivered, actionPlan, claims, actions>>
  BY <1>3 DEF Update
<1>5. edits' \in 0 .. MaxEdits /\ edits' >= edits /\ x.version <= edits' + 1 /\ x.version > rule[r].version
  BY <1>1, <1>3
<1> QED BY <1>4, <1>5, RowStepKeeps

LEMMA StatusIs ==
    ASSUME NEW y \in RuleRows, NEW st \in {"enabled", "disabled", "expired"}
    PROVE  /\ [y EXCEPT !.status = st] \in RuleRows /\ [y EXCEPT !.status = st].version = y.version
           /\ [y EXCEPT !.status = st].lastEvent = y.lastEvent
           /\ [y EXCEPT !.status = st].lastFired = y.lastFired
BY DEF RuleRows

LEMMA SetStatusKeeps ==
    ASSUME AutomationInv, NEW r \in RuleIds, NEW status \in {"enabled", "disabled"}, SetStatus(r, status)
    PROVE  AutomationInv'
<1>1. PICK y \in RuleRows : y = rule[r] BY DEF AutomationInv, AutomationType
<1>2. PICK st \in {"enabled", "disabled", "expired"} :
        st = IF status = "enabled" /\ rule[r].until <= minute THEN "expired" ELSE status
  OBVIOUS
<1>3. PICK x \in RuleRows : /\ x = [y EXCEPT !.status = st] /\ x.version = y.version
                            /\ x.lastEvent = y.lastEvent /\ x.lastFired = y.lastFired
  BY StatusIs
<1>4. rule' = [rule EXCEPT ![r] = x]
      /\ UNCHANGED <<minute, handler, delivered, actionPlan, claims, actions>>
  BY <1>1, <1>2, <1>3 DEF SetStatus
<1>5. /\ rule[r].version \in Nat /\ rule[r].version <= edits + 1 /\ edits \in Nat /\ MaxEdits \in Nat
      /\ edits < MaxEdits /\ edits' = edits + 1 /\ y.lastFired \in Nat
  BY <1>1, MinuteIsNat, RowFields DEF AutomationInv, AutomationType, SetStatus
<1>6. edits' \in 0 .. MaxEdits /\ edits' >= edits /\ x.version <= edits' + 1 /\ x.version = rule[r].version
      /\ x.lastFired >= rule[r].lastFired /\ x.lastEvent = rule[r].lastEvent
  BY <1>1, <1>3, <1>5
<1> QED BY <1>4, <1>6, RowStepKeeps

\* A step that moves a handler only.
LEMMA HandlerStepKeeps ==
    ASSUME AutomationInv, UNCHANGED <<edits, minute, rule, actionPlan, claims, actions>>,
           delivered' \in 0 .. MaxDeliveries,
           handler' \in [Handlers -> HandlerStates], \A g \in Handlers : HandlerTells(g)'
    PROVE  AutomationInv'
<1>1. AutomationType' BY DEF AutomationInv, AutomationType
<1>2. \A q \in RuleIds, e \in EventIds : ActionTells(q, e)' BY DEF AutomationInv, ActionTells
<1>3. \A c \in claims' : ClaimTells(c)' BY DEF AutomationInv, ClaimTells
<1> QED BY <1>1, <1>2, <1>3 DEF AutomationInv, ClaimsApart

LEMMA BeginMoves ==
    ASSUME AutomationInv, NEW h \in Handlers, NEW e \in EventIds, NEW pc \in {"each", "due"},
           Begin(h, e, pc), rule' = rule
    PROVE  handler' \in [Handlers -> HandlerStates] /\ \A g \in Handlers : HandlerTells(g)'
<1>1. PICK x : x = [pc |-> pc, event |-> e, todo |-> Journal, listed |-> rule] OBVIOUS
<1>2. x.pc = pc /\ x.event = e /\ x.todo = Journal /\ x.listed = rule BY <1>1
<1>3. Journal \subseteq RuleIds /\ rule \in [RuleIds -> RuleRows]
  BY DEF Journal, AutomationInv, AutomationType
<1>4. x \in HandlerStates BY <1>1, <1>3 DEF HandlerStates
<1>5. HandlerShape(x) BY <1>2 DEF HandlerShape, Journal, Begin
<1>6. handler' = [handler EXCEPT ![h] = x] BY <1>1 DEF Begin
<1> QED BY <1>4, <1>5, <1>6, HandlersMove

LEMMA DeliverEventKeeps == ASSUME AutomationInv, NEW e \in StateEvents, DeliverEvent(e) PROVE AutomationInv'
<1>1. "events" \in Handlers /\ e \in EventIds BY DEF Handlers, EventIds
<1>2. handler' \in [Handlers -> HandlerStates] /\ \A g \in Handlers : HandlerTells(g)'
  BY <1>1, BeginMoves DEF DeliverEvent
<1>3. delivered' \in 0 .. MaxDeliveries BY AutomationAssumption DEF DeliverEvent, AutomationInv, AutomationType
<1> QED BY <1>2, <1>3, HandlerStepKeeps DEF DeliverEvent

LEMMA EvaluateTimeKeeps == ASSUME AutomationInv, EvaluateTime PROVE AutomationInv'
<1>1. "minutes" \in Handlers /\ minute \in EventIds BY DEF Handlers, EventIds, AutomationInv, AutomationType
<1>2. handler' \in [Handlers -> HandlerStates] /\ \A g \in Handlers : HandlerTells(g)'
  BY <1>1, BeginMoves DEF EvaluateTime
<1>3. delivered' \in 0 .. MaxDeliveries BY AutomationAssumption DEF EvaluateTime, AutomationInv, AutomationType
<1> QED BY <1>2, <1>3, HandlerStepKeeps DEF EvaluateTime

LEMMA RelistKeeps == ASSUME AutomationInv, NEW r \in RuleIds, Relist(r) PROVE AutomationInv'
<1>1. "minutes" \in Handlers BY DEF Handlers
<1>2. PICK m \in HandlerStates : m = handler["minutes"] BY <1>1 DEF AutomationInv, AutomationType
<1>3. HandlerShape(m) BY <1>1, <1>2 DEF AutomationInv, HandlerTells, HandlerShape
<1>4. rule' = rule /\ r \in m.todo BY <1>2 DEF Relist, RuleAt
<1>5. handler' \in [Handlers -> HandlerStates] /\ \A g \in Handlers : HandlerTells(g)'
  <2>1. CASE m.listed[r].status = "enabled" /\ r \in TimeRules
    <3>1. PICK x : x = [pc |-> "each", event |-> m.event, todo |-> m.todo,
                        listed |-> [m.listed EXCEPT ![r] = rule[r]]]
      OBVIOUS
    <3>2. handler' = [handler EXCEPT !["minutes"] = x] BY <1>2, <2>1, <3>1 DEF Relist
    <3>3. m.listed \in [RuleIds -> RuleRows] /\ rule[r] \in RuleRows /\ m.todo \subseteq RuleIds
          /\ m.event \in EventIds \cup {NoEvent}
      BY HandlerFields DEF AutomationInv, AutomationType
    <3>4. x \in HandlerStates BY <3>1, <3>3 DEF HandlerStates
    <3>5. /\ x.pc = "each" /\ x.event = m.event /\ x.todo = m.todo /\ x.listed[r] = rule[r]
          /\ \A q \in RuleIds \ {r} : x.listed[q] = m.listed[q]
      BY <3>1, <3>3
    <3>6. m.pc # "wait" BY <1>3, <1>4 DEF HandlerShape
    <3>7. HandlerShape(x) BY <1>3, <1>4, <3>3, <3>5, <3>6 DEF HandlerShape
    <3> QED BY <1>1, <1>4, <3>2, <3>4, <3>7, HandlersMove
  <2>2. CASE ~(m.listed[r].status = "enabled" /\ r \in TimeRules)
    <3>1. Leave("minutes", r) /\ RuleAt("minutes", r) BY <1>2, <2>2 DEF Relist
    <3> QED BY <1>1, <1>4, <3>1, LeaveMoves
  <2> QED BY <2>1, <2>2
<1> QED BY <1>5, HandlerStepKeeps DEF Relist, AutomationInv, AutomationType

LEMMA ExamineKeeps ==
    ASSUME AutomationInv, NEW h \in Handlers, NEW r \in RuleIds, Examine(h, r)
    PROVE  AutomationInv'
<1>1. /\ RuleAt(h, r) /\ edits' = edits /\ minute' = minute /\ delivered' = delivered
      /\ actionPlan' = actionPlan /\ claims' = claims /\ actions' = actions
  BY DEF Examine
<1>2. delivered' \in 0 .. MaxDeliveries BY <1>1 DEF AutomationInv, AutomationType
<1>3. CASE rule' = rule /\ (Leave(h, r) \/ Advance(h, "claim"))
  <2>1. handler' \in [Handlers -> HandlerStates] /\ \A g \in Handlers : HandlerTells(g)'
    BY <1>1, <1>3, LeaveMoves, AdvanceMoves
  <2> QED BY <1>1, <1>2, <1>3, <2>1, HandlerStepKeeps
<1>4. CASE rule' = [rule EXCEPT ![r].status = "expired"] /\ Leave(h, r)
  <2>1. PICK y \in RuleRows : y = rule[r] BY DEF AutomationInv, AutomationType
  <2>2. PICK x \in RuleRows : /\ x = [y EXCEPT !.status = "expired"] /\ x.version = y.version
                              /\ x.lastEvent = y.lastEvent /\ x.lastFired = y.lastFired
    BY StatusIs
  <2>3. rule' = [rule EXCEPT ![r] = x] BY <1>4, <2>1, <2>2
  <2>4. y.lastFired \in Nat BY RowFields
  <2>5. x.version = rule[r].version /\ x.lastEvent = rule[r].lastEvent /\ x.lastFired >= rule[r].lastFired
    BY <2>1, <2>2, <2>4
  <2>6. /\ rule' \in [RuleIds -> RuleRows]
        /\ \A q \in RuleIds : rule[q].version > 0 => rule'[q].version > 0
        /\ \A c \in claims : ClaimTells(c)'
    BY <1>1, <2>3, <2>5, RulesMove
  <2>7. handler' \in [Handlers -> HandlerStates] /\ \A g \in Handlers : HandlerTells(g)'
    BY <1>1, <1>4, <2>6, LeaveMoves
  <2>8. AutomationType' BY <1>1, <2>6, <2>7 DEF AutomationInv, AutomationType
  <2>9. \A q \in RuleIds : rule'[q].version <= edits' + 1
    <3>1. \A q \in RuleIds : rule'[q].version = rule[q].version
      BY <2>1, <2>2, <2>3 DEF AutomationInv, AutomationType
    <3> QED BY <1>1, <3>1 DEF AutomationInv
  <2>10. \A q \in RuleIds, e \in EventIds : ActionTells(q, e)' BY <1>1 DEF AutomationInv, ActionTells
  <2> QED BY <1>1, <2>6, <2>7, <2>8, <2>9, <2>10 DEF AutomationInv, ClaimsApart
<1> QED BY <1>3, <1>4 DEF Examine

LEMMA ClaimEventKeeps ==
    ASSUME AutomationInv, NEW h \in Handlers, NEW r \in RuleIds, ClaimEvent(h, r)
    PROVE  AutomationInv'
<1>1. /\ RuleAt(h, r) /\ edits' = edits /\ minute' = minute /\ delivered' = delivered
      /\ actionPlan' = actionPlan /\ actions' = actions
  BY DEF ClaimEvent
<1>2. delivered' \in 0 .. MaxDeliveries BY <1>1 DEF AutomationInv, AutomationType
<1>3. PICK e \in EventIds : e = handler[h].event
  <2>1. HandlerTells(h) BY DEF AutomationInv
  <2> QED BY <1>1, <2>1 DEF HandlerTells, RuleAt
<1>4. CASE ~EventClaimable(rule[r], e)
  <2>1. rule' = rule /\ claims' = claims /\ Leave(h, r) BY <1>3, <1>4 DEF ClaimEvent
  <2>2. handler' \in [Handlers -> HandlerStates] /\ \A g \in Handlers : HandlerTells(g)'
    BY <1>1, <2>1, LeaveMoves
  <2> QED BY <1>1, <1>2, <2>1, <2>2, HandlerStepKeeps
<1>5. CASE EventClaimable(rule[r], e)
  <2>1. PICK y \in RuleRows : y = rule[r] BY DEF AutomationInv, AutomationType
  <2>2. PICK x : x = [version |-> y.version, status |-> y.status, until |-> y.until,
                      lastEvent |-> e, lastFired |-> minute]
    OBVIOUS
  <2>3. PICK new : new = [id |-> r, version |-> y.version, event |-> e, at |-> minute] OBVIOUS
  <2>4. rule' = [rule EXCEPT ![r] = x] /\ claims' = claims \cup {new} /\ Advance(h, "run")
    BY <1>3, <1>5, <2>1, <2>2, <2>3 DEF ClaimEvent
  <2>5. y.version \in Nat /\ y.lastFired \in Nat /\ minute \in Nat /\ Cooldown \in Nat
    BY RowFields, MinuteIsNat, AutomationAssumption
  <2>6. x \in RuleRows BY <2>2, <2>5, RowFields DEF RuleRows
  <2>7. x.version = y.version /\ x.lastEvent = e /\ x.lastFired = minute /\ e # NoEvent
    BY <2>2, AutomationAssumption
  <2>8. y.lastEvent # NoEvent => minute >= y.lastFired + Cooldown
    BY <1>5, <2>1 DEF EventClaimable
  <2>9. y.lastEvent # NoEvent => x.lastFired >= y.lastFired BY <2>5, <2>7, <2>8
  <2>10. /\ rule' \in [RuleIds -> RuleRows]
         /\ \A q \in RuleIds : rule[q].version > 0 => rule'[q].version > 0
         /\ \A c \in claims : ClaimTells(c)'
    BY <1>1, <2>1, <2>4, <2>6, <2>7, <2>9, RulesMove
  <2>11. handler' \in [Handlers -> HandlerStates] /\ \A g \in Handlers : HandlerTells(g)'
    BY <1>1, <2>4, <2>10, AdvanceMoves
  <2>12. new \in ClaimRecords /\ new.id = r /\ new.version = y.version /\ new.at = minute
    BY <2>3, <2>5 DEF ClaimRecords
  <2>13. AutomationType' BY <1>1, <2>4, <2>10, <2>11, <2>12 DEF AutomationInv, AutomationType
  <2>14. rule'[r] = x /\ \A q \in RuleIds : rule'[q].version = rule[q].version
    BY <2>1, <2>4, <2>7 DEF AutomationInv, AutomationType
  <2>15. \A q \in RuleIds : rule'[q].version <= edits' + 1 BY <1>1, <2>14 DEF AutomationInv
  <2>16. \A q \in RuleIds, f \in EventIds : ActionTells(q, f)' BY <1>1 DEF AutomationInv, ActionTells
  <2>17. ClaimTells(new)' BY <1>1, <2>5, <2>7, <2>12, <2>14 DEF ClaimTells
  <2>18. \A c \in claims : ClaimsApart(c, new) /\ ClaimsApart(new, c)
    <3>1. TAKE c \in claims
    <3>2. ClaimTells(c) /\ c \in ClaimRecords BY DEF AutomationInv, AutomationType
    <3>3. c.at \in Nat BY <3>2 DEF ClaimRecords
    <3>4. CASE c.id = r /\ c.version = y.version
      <4>1. y.lastEvent # NoEvent /\ c.at <= y.lastFired BY <2>1, <3>2, <3>4 DEF ClaimTells
      <4>2. minute >= c.at + Cooldown BY <2>5, <2>8, <3>3, <4>1
      <4> QED BY <2>12, <4>2 DEF ClaimsApart
    <3>5. CASE ~(c.id = r /\ c.version = y.version) BY <2>12, <3>5 DEF ClaimsApart
    <3> QED BY <3>4, <3>5
  <2>19. \A c, d \in claims' : ClaimsApart(c, d)'
    BY <2>4, <2>18 DEF AutomationInv, ClaimsApart
  <2>20. \A c \in claims' : ClaimTells(c)' BY <2>4, <2>10, <2>17
  <2> QED BY <2>11, <2>13, <2>15, <2>16, <2>19, <2>20 DEF AutomationInv
<1> QED BY <1>4, <1>5

LEMMA ExecuteClaimedKeeps ==
    ASSUME AutomationInv, NEW h \in Handlers, NEW r \in RuleIds, ExecuteClaimed(h, r)
    PROVE  AutomationInv'
<1>1. /\ RuleAt(h, r) /\ edits' = edits /\ minute' = minute /\ delivered' = delivered
      /\ rule' = rule /\ claims' = claims /\ Leave(h, r)
  BY DEF ExecuteClaimed
<1>2. delivered' \in 0 .. MaxDeliveries BY <1>1 DEF AutomationInv, AutomationType
<1>3. handler' \in [Handlers -> HandlerStates] /\ \A g \in Handlers : HandlerTells(g)'
  BY <1>1, LeaveMoves
<1>4. CASE UNCHANGED <<actionPlan, actions>> BY <1>1, <1>2, <1>3, <1>4, HandlerStepKeeps
<1>5. CASE LET version == handler[h].listed[r].version
               e       == handler[h].event
           IN  /\ Accepts(r, e, version)
               /\ actionPlan' = [actionPlan EXCEPT ![r][e] = version]
               /\ actions' = [actions EXCEPT ![r][e] = @ + 1]
  <2>1. HandlerTells(h) /\ r \in handler[h].todo BY <1>1 DEF AutomationInv, RuleAt
  <2>2. PICK e \in EventIds : e = handler[h].event BY <2>1 DEF HandlerTells
  <2>3. PICK v \in 1 .. MaxEdits + 1 : v = handler[h].listed[r].version
    <3>1. handler[h].listed \in [RuleIds -> RuleRows] BY HandlerFields DEF AutomationInv, AutomationType
    <3>2. handler[h].listed[r].version \in 0 .. MaxEdits + 1 BY <3>1, RowFields
    <3>3. handler[h].listed[r].version > 0 BY <2>1 DEF HandlerTells
    <3> QED BY <3>2, <3>3, MinuteIsNat
  <2>4. PICK pl \in [EventIds -> 0 .. MaxEdits + 1] : pl = actionPlan[r]
    BY DEF AutomationInv, AutomationType
  <2>5. PICK ac \in [EventIds -> Nat] : ac = actions[r] BY DEF AutomationInv, AutomationType
  <2>6. /\ pl[e] = 0 /\ actionPlan' = [actionPlan EXCEPT ![r] = [pl EXCEPT ![e] = v]]
        /\ actions' = [actions EXCEPT ![r] = [ac EXCEPT ![e] = ac[e] + 1]]
    <3>1. pl[e] = 0 BY <1>5, <2>2, <2>4 DEF Accepts
    <3>2. actionPlan' = [actionPlan EXCEPT ![r] = [pl EXCEPT ![e] = v]]
      BY <1>5, <2>2, <2>3, <2>4 DEF AutomationInv, AutomationType
    <3>3. actions' = [actions EXCEPT ![r] = [ac EXCEPT ![e] = ac[e] + 1]]
      BY <1>5, <2>2, <2>5 DEF AutomationInv, AutomationType
    <3> QED BY <3>1, <3>2, <3>3
  <2>7. ac[e] = 0 BY <2>4, <2>5, <2>6 DEF AutomationInv, ActionTells
  <2>8. /\ v \in 0 .. MaxEdits + 1 /\ v # 0 BY MinuteIsNat
  <2>9. [pl EXCEPT ![e] = v] \in [EventIds -> 0 .. MaxEdits + 1] /\ [ac EXCEPT ![e] = ac[e] + 1] \in [EventIds -> Nat]
    BY <2>7, <2>8
  <2>10. /\ actionPlan' \in [RuleIds -> [EventIds -> 0 .. MaxEdits + 1]]
         /\ actions' \in [RuleIds -> [EventIds -> Nat]]
    BY <2>6, <2>9 DEF AutomationInv, AutomationType
  <2>11. AutomationType' BY <1>1, <1>3, <2>10 DEF AutomationInv, AutomationType
  <2>12. \A q \in RuleIds, f \in EventIds : ActionTells(q, f)'
    <3>1. TAKE q \in RuleIds, f \in EventIds
    <3>2. actionPlan \in [RuleIds -> [EventIds -> 0 .. MaxEdits + 1]] /\ actions \in [RuleIds -> [EventIds -> Nat]]
      BY DEF AutomationInv, AutomationType
    <3>3. CASE q = r /\ f = e
      <4>1. actionPlan'[q][f] = v /\ actions'[q][f] = 1 BY <2>6, <2>7, <3>2, <3>3
      <4> QED BY <2>8, <4>1 DEF ActionTells
    <3>4. CASE ~(q = r /\ f = e)
      <4>1. actionPlan'[q][f] = actionPlan[q][f] /\ actions'[q][f] = actions[q][f]
        BY <2>4, <2>5, <2>6, <3>2, <3>4
      <4> QED BY <4>1 DEF ActionTells, AutomationInv
    <3> QED BY <3>3, <3>4
  <2> QED BY <1>1, <1>3, <2>11, <2>12 DEF AutomationInv, ClaimTells, ClaimsApart
<1> QED BY <1>4, <1>5 DEF ExecuteClaimed

LEMMA PassMinuteKeeps == ASSUME AutomationInv, PassMinute PROVE AutomationInv'
<1>1. /\ minute \in Nat /\ minute < MaxMinutes /\ minute' = minute + 1 /\ MaxMinutes \in Nat
      /\ UNCHANGED <<edits, rule, handler, delivered, actionPlan, claims, actions>>
  BY MinuteIsNat, AutomationAssumption DEF PassMinute
<1>2. minute' \in Minutes BY <1>1 DEF Minutes
<1>3. AutomationType' BY <1>1, <1>2 DEF AutomationInv, AutomationType
<1>4. ASSUME NEW c \in claims PROVE ClaimTells(c)'
  <2>1. c \in ClaimRecords /\ ClaimTells(c) BY DEF AutomationInv, AutomationType
  <2>2. c.at \in Nat BY <2>1 DEF ClaimRecords
  <2> QED BY <1>1, <2>1, <2>2 DEF ClaimTells
<1>5. \A h \in Handlers : HandlerTells(h)' BY <1>1 DEF AutomationInv, HandlerTells
<1>6. \A q \in RuleIds, e \in EventIds : ActionTells(q, e)' BY <1>1 DEF AutomationInv, ActionTells
<1> QED BY <1>1, <1>3, <1>4, <1>5, <1>6 DEF AutomationInv, ClaimsApart

LEMMA AutomationKeeps == AutomationInv /\ [AutomationNext]_automationVars => AutomationInv'
<1> SUFFICES ASSUME AutomationInv, [AutomationNext]_automationVars PROVE AutomationInv' OBVIOUS
<1>1. CASE UNCHANGED automationVars
  <2>1. UNCHANGED <<edits, minute, rule, actionPlan, claims, actions>> /\ handler' = handler
        /\ delivered' = delivered
    BY <1>1 DEF automationVars
  <2>2. handler' \in [Handlers -> HandlerStates] /\ delivered' \in 0 .. MaxDeliveries
    BY <2>1 DEF AutomationInv, AutomationType
  <2>3. \A g \in Handlers : HandlerTells(g)' BY <2>1 DEF AutomationInv, HandlerTells
  <2> QED BY <2>1, <2>2, <2>3, HandlerStepKeeps
<1>2. CASE AutomationNext
  BY <1>2, RegisterKeeps, UpdateKeeps, SetStatusKeeps, DeliverEventKeeps, EvaluateTimeKeeps, RelistKeeps,
     ExamineKeeps, ClaimEventKeeps, ExecuteClaimedKeeps, PassMinuteKeeps DEF AutomationNext
<1> QED BY <1>1, <1>2

LEMMA AutomationInvTells == AutomationInv => AutomationTypeOK /\ RuleActsSparingly
<1> SUFFICES ASSUME AutomationInv PROVE AutomationTypeOK /\ RuleActsSparingly OBVIOUS
<1>1. \A r \in RuleIds : rule[r] \in RuleRows /\ actionPlan[r] \in [EventIds -> 0 .. MaxEdits + 1]
  BY DEF AutomationInv, AutomationType
<1>2. AutomationTypeOK BY <1>1, RowFields DEF AutomationTypeOK, AutomationInv, AutomationType, HandlerTells
<1>3. \A r \in RuleIds, e \in EventIds : actions[r][e] <= 1 BY DEF AutomationInv, ActionTells
<1> QED BY <1>2, <1>3 DEF AutomationInv, ClaimsApart, RuleActsSparingly

\* For any rules, events, cooldown and lifetime, however events are repeated, delayed or
\* reordered and rules are replaced while a handler works from an old list: an event makes
\* a rule act at most once, and two claims of one version lie a cooldown apart
\* (handle_event, claim_event, _execute_claimed).
THEOREM RulesActSparingly == AutomationSpec => [](AutomationTypeOK /\ RuleActsSparingly)
<1>1. AutomationSpec => []AutomationInv BY AutomationInitially, AutomationKeeps, PTL DEF AutomationSpec
<1> QED BY <1>1, AutomationInvTells, PTL

-----------------------------------------------------------------------------
(* Connection secrets.  A file is removed only for a transfer that is being  *)
(* discarded, and what a profile names was adopted, which nothing undoes.    *)
(* So that a lister never discards under a writer, the invariant follows the *)
(* writer of every transfer, and knows that whoever else discards it came    *)
(* after that writer had left.                                              *)

RowStates == {"none", "pending", "adopted", "discarding", "discarded"}
News == {"nothing", "stored", "refused", "unsettled", "cancelled"}
WriterPlaces == {"away", "prepare", "recheck", "publish", "adopt", "resolve",
                 "begin", "unlink", "finish"}
ListerPlaces == {"away", "look", "decide", "begin", "unlink", "finish"}
Profiles == [id : Transfers \cup {NoTransfer}, ref : Transfers, by : Transfers \cup {NoTransfer}]
Loans == [conn : Connections, ref : Transfers, was : Profiles \cup {NoProfile}]
CallerStates == [at : WriterPlaces \cup ListerPlaces, on : Transfers \cup {NoTransfer},
                 todo : SUBSET Transfers, seen : {"none", "confirmed", "mismatch", "open"},
                 was : Profiles \cup {NoProfile}]
Given == {"discarding", "discarded"}

SecretsType ==
    /\ transfer \in [Transfers -> RowStates] /\ told \in [Transfers -> News]
    /\ secret \subseteq Transfers /\ owned \subseteq Transfers
    /\ agent \in [Agents -> CallerStates] /\ lent \in Loans \cup {NoTransfer}
    /\ profile \in [Connections -> Profiles \cup {NoProfile}]
    /\ inflight = {t \in Transfers : agent[t].at # "away"}

\* A writer came, and may have left since.
Admitted(t) == agent[t].at # "away" \/ told[t] # "nothing"
Left(t) == agent[t].at = "away" /\ told[t] # "nothing"

\* Where a writer is tells how far its row and its file are.
StageTells(t) ==
    /\ agent[t].at = "prepare" => transfer[t] = "none"
    /\ agent[t].at = "recheck" => transfer[t] \in {"none", "pending"}
    /\ agent[t].at = "publish" => transfer[t] = "pending"
    /\ agent[t].at = "adopt" => transfer[t] = "pending" /\ t \in secret
    /\ agent[t].at = "resolve" => transfer[t] \in {"pending", "adopted"}
    /\ agent[t].at = "begin" => transfer[t] = "pending"
    /\ agent[t].at \in {"unlink", "finish"} => transfer[t] \in Given
    /\ agent[t].at = "finish" => t \notin secret

FileTells(t) ==
    /\ transfer[t] = "adopted" => t \in secret
    /\ t \in secret => transfer[t] \in {"pending", "adopted", "discarding"}
    /\ told[t] = "stored" => transfer[t] = "adopted"
    /\ told[t] = "refused" => transfer[t] \in {"none", "discarded"} /\ t \notin secret

TransferTells(t) ==
    /\ agent[t].at \in WriterPlaces /\ StageTells(t) /\ FileTells(t)
    /\ agent[t].at # "away" =>
         agent[t].on = t /\ told[t] = "nothing" /\ (t \in NewOnes \/ agent[t].was # NoProfile)
    /\ ~Admitted(t) => transfer[t] = "none" /\ t \notin owned

ListerTells(l) ==
    /\ agent[l].at \in ListerPlaces
    /\ \A t \in agent[l].todo : Admitted(t)
    /\ agent[l].at = "decide" => agent[l].on \in Transfers /\ Admitted(agent[l].on)
    /\ agent[l].at \in {"begin", "unlink", "finish"} => agent[l].on \in Transfers /\ Left(agent[l].on)
    /\ agent[l].at \in {"unlink", "finish"} => transfer[agent[l].on] \in Given
    /\ agent[l].at = "finish" => agent[l].on \notin secret

ProfileTells(c) ==
    profile[c] # NoProfile =>
        /\ transfer[profile[c].ref] = "adopted"
        /\ profile[c].by # NoTransfer => profile[c].by = profile[c].ref

ProfilesTell ==
    /\ profile \in [Connections -> Profiles \cup {NoProfile}]
    /\ \A c \in Connections : ProfileTells(c)

LoanTells == lent # NoTransfer => transfer[lent.ref] # "none"

SecretsInv ==
    /\ SecretsType /\ ProfilesTell /\ LoanTells
    /\ \A t \in Transfers : TransferTells(t)
    /\ \A l \in Listers : ListerTells(l)

-----------------------------------------------------------------------------
(* One caller moves, on behalf of one transfer *)

LEMMA CallerFields ==
    ASSUME NEW x \in CallerStates
    PROVE  /\ x.at \in WriterPlaces \cup ListerPlaces /\ x.on \in Transfers \cup {NoTransfer}
           /\ x.todo \subseteq Transfers /\ x.was \in Profiles \cup {NoProfile}
BY DEF CallerStates

LEMMA AwayIs == Away \in CallerStates /\ Away.at = "away" /\ Away.todo = {}
BY DEF Away, CallerStates, WriterPlaces

LEMMA AgentIs ==
    ASSUME SecretsInv
    PROVE  /\ \A a \in Agents : agent[a] \in CallerStates
           /\ Transfers \subseteq Agents /\ Listers \subseteq Agents
           /\ \A t \in Transfers : TransferTells(t) /\ t \notin Listers
           /\ \A l \in Listers : ListerTells(l) /\ l \notin Transfers
BY SecretsAssumption DEF SecretsInv, SecretsType, Agents

LEMMA ProfilesRest ==
    ASSUME SecretsInv, profile' = profile,
           \A u \in Transfers : transfer[u] = "adopted" => transfer'[u] = "adopted"
    PROVE  ProfilesTell'
<1>1. profile \in [Connections -> Profiles \cup {NoProfile}] /\ \A c \in Connections : ProfileTells(c)
  BY DEF SecretsInv, ProfilesTell
<1>2. ASSUME NEW c \in Connections PROVE ProfileTells(c)'
  <2>1. PICK y \in Profiles \cup {NoProfile} : y = profile[c] BY <1>1
  <2>2. y # NoProfile => y.ref \in Transfers BY DEF Profiles
  <2> QED BY <1>1, <2>1, <2>2 DEF ProfileTells
<1> QED BY <1>1, <1>2 DEF ProfilesTell

LEMMA AgentKeeps ==
    ASSUME SecretsInv, NEW a \in Agents, NEW x \in CallerStates, agent' = [agent EXCEPT ![a] = x],
           NEW t \in Transfers, a = t \/ a \in Listers,
           transfer' \in [Transfers -> RowStates], told' \in [Transfers -> News],
           secret' \subseteq Transfers, owned' \subseteq owned \cup {t}, lent' = lent, ProfilesTell',
           \A u \in Transfers \ {t} :
               transfer'[u] = transfer[u] /\ told'[u] = told[u] /\ (u \in secret' <=> u \in secret),
           inflight' = {u \in Transfers : agent'[u].at # "away"},
           transfer[t] # "none" => transfer'[t] # "none",
           TransferTells(t)', a \in Listers => ListerTells(a)', Admitted(t) => Admitted(t)',
           Left(t) => /\ Left(t)' /\ (t \in secret' => t \in secret)
                      /\ (transfer[t] \in Given => transfer'[t] \in Given)
    PROVE  SecretsInv'
<1>1. /\ agent \in [Agents -> CallerStates] /\ lent \in Loans \cup {NoTransfer}
      /\ owned \subseteq Transfers
  BY DEF SecretsInv, SecretsType
<1>2. /\ agent' \in [Agents -> CallerStates] /\ agent'[a] = x
      /\ \A b \in Agents \ {a} : agent'[b] = agent[b]
  BY <1>1
<1>3. SecretsType' BY <1>1, <1>2 DEF SecretsType, ProfilesTell
<1>4. LoanTells'
  <2>1. LoanTells BY DEF SecretsInv
  <2>2. lent # NoTransfer => lent.ref \in Transfers BY <1>1 DEF Loans
  <2>3. \A u \in Transfers : transfer[u] # "none" => transfer'[u] # "none" OBVIOUS
  <2> QED BY <2>1, <2>2, <2>3 DEF LoanTells
<1>5. \A u \in Transfers : TransferTells(u)'
  <2>1. TAKE u \in Transfers
  <2>2. CASE u # t
    <3>1. agent'[u] = agent[u] /\ TransferTells(u) BY <1>2, <2>2, AgentIs
    <3>2. /\ transfer'[u] = transfer[u] /\ told'[u] = told[u] /\ (u \in secret' <=> u \in secret)
          /\ u \in owned' => u \in owned
      BY <2>2
    <3>3. StageTells(u)' /\ FileTells(u)' BY <3>1, <3>2 DEF TransferTells, StageTells, FileTells
    <3> QED BY <3>1, <3>2, <3>3 DEF TransferTells, Admitted
  <2> QED BY <2>2
<1>6. \A u \in Transfers : (Admitted(u) => Admitted(u)') /\ (Left(u) => Left(u)')
  <2>1. TAKE u \in Transfers
  <2>2. CASE u # t
    <3>1. agent'[u] = agent[u] BY <1>2, <2>2, AgentIs
    <3> QED BY <2>2, <3>1 DEF Admitted, Left
  <2> QED BY <2>2
<1>7. \A l \in Listers : ListerTells(l)'
  <2>1. TAKE l \in Listers
  <2>2. CASE l = a BY <2>2
  <2>3. CASE l # a
    <3>1. agent'[l] = agent[l] /\ ListerTells(l) /\ agent[l] \in CallerStates BY <1>2, <2>3, AgentIs
    <3>2. PICK y \in CallerStates : y = agent[l] BY <3>1
    <3>3. y.todo \subseteq Transfers BY CallerFields
    <3>4. /\ \A u \in y.todo : Admitted(u)'
          /\ y.at = "decide" => y.on \in Transfers /\ Admitted(y.on)'
          /\ y.at \in {"begin", "unlink", "finish"} => y.on \in Transfers /\ Left(y.on)'
      BY <1>6, <3>1, <3>2, <3>3 DEF ListerTells
    <3>5. y.at \in {"unlink", "finish"} => transfer'[y.on] \in Given BY <3>1, <3>2 DEF ListerTells
    <3>6. y.at = "finish" => y.on \notin secret' BY <3>1, <3>2 DEF ListerTells
    <3> QED BY <3>1, <3>2, <3>4, <3>5, <3>6 DEF ListerTells
  <2> QED BY <2>2, <2>3
<1> QED BY <1>3, <1>4, <1>5, <1>7 DEF SecretsInv

\* What a row and a file have to be at a place of the writer.
Fits(at, v, f) ==
    /\ at = "prepare" => v = "none"
    /\ at = "recheck" => v \in {"none", "pending"}
    /\ at = "publish" => v = "pending"
    /\ at = "adopt" => v = "pending" /\ f
    /\ at = "resolve" => v \in {"pending", "adopted"}
    /\ at = "begin" => v = "pending"
    /\ at \in {"unlink", "finish"} => v \in Given
    /\ at = "finish" => ~f
    /\ v = "adopted" => f
    /\ f => v \in {"pending", "adopted", "discarding"}

LEMMA WriterWalks ==
    ASSUME SecretsInv, NEW t \in Transfers, agent[t].at # "away",
           NEW at \in WriterPlaces \ {"away"}, Walk(t, at), inflight' = inflight, told' = told,
           NEW v \in RowStates, transfer' = [transfer EXCEPT ![t] = v],
           transfer[t] # "none" => v # "none",
           secret' = secret \/ secret' = secret \cup {t} \/ secret' = secret \ {t},
           owned' \subseteq owned, lent' = lent, ProfilesTell', Fits(at, v, t \in secret')
    PROVE  SecretsInv'
<1>1. /\ transfer \in [Transfers -> RowStates] /\ told \in [Transfers -> News]
      /\ secret \subseteq Transfers /\ agent \in [Agents -> CallerStates]
      /\ inflight = {u \in Transfers : agent[u].at # "away"}
      /\ TransferTells(t) /\ t \in Agents
  BY AgentIs DEF SecretsInv, SecretsType
<1>2. PICK y \in CallerStates : y = agent[t] BY <1>1
<1>3. PICK x : x = [y EXCEPT !.at = at] OBVIOUS
<1>4. x \in CallerStates /\ x.at = at /\ x.on = y.on /\ x.was = y.was BY <1>3 DEF CallerStates
<1>5. agent' = [agent EXCEPT ![t] = x] BY <1>2, <1>3 DEF Walk
<1>6. agent'[t] = x /\ \A b \in Agents \ {t} : agent'[b] = agent[b] BY <1>1, <1>5
<1>7. inflight' = {u \in Transfers : agent'[u].at # "away"}
  <2>1. \A u \in Transfers : agent'[u].at # "away" <=> agent[u].at # "away"
    BY <1>2, <1>4, <1>6, AgentIs
  <2> QED BY <1>1, <2>1
<1>8. transfer' \in [Transfers -> RowStates] /\ transfer'[t] = v
      /\ \A u \in Transfers \ {t} : transfer'[u] = transfer[u]
  BY <1>1
<1>9. told[t] = "nothing" /\ y.on = t /\ (t \in NewOnes \/ y.was # NoProfile)
  BY <1>1, <1>2 DEF TransferTells
<1>10. StageTells(t)' BY <1>4, <1>6, <1>8 DEF StageTells, Fits
<1>11. FileTells(t)' BY <1>8, <1>9 DEF FileTells, Fits
<1>12. TransferTells(t)' /\ Admitted(t)' BY <1>4, <1>6, <1>9, <1>10, <1>11 DEF TransferTells, Admitted
<1>13. ~Left(t) /\ t \notin Listers BY AgentIs DEF Left
<1> QED BY <1>1, <1>4, <1>5, <1>7, <1>8, <1>12, <1>13, AgentKeeps

LEMMA WriterLeaves ==
    ASSUME SecretsInv, NEW t \in Transfers, agent[t].at # "away",
           NEW news \in News \ {"nothing"}, Depart(t, news),
           NEW v \in RowStates, transfer' = [transfer EXCEPT ![t] = v],
           transfer[t] # "none" => v # "none",
           secret' = secret \/ secret' = secret \ {t},
           owned' \subseteq owned, lent' = lent, ProfilesTell', Fits("away", v, t \in secret'),
           news = "stored" => v = "adopted",
           news = "refused" => v \in {"none", "discarded"} /\ t \notin secret'
    PROVE  SecretsInv'
<1>1. /\ transfer \in [Transfers -> RowStates] /\ told \in [Transfers -> News]
      /\ secret \subseteq Transfers /\ agent \in [Agents -> CallerStates]
      /\ inflight = {u \in Transfers : agent[u].at # "away"}
      /\ TransferTells(t) /\ t \in Agents
  BY AgentIs DEF SecretsInv, SecretsType
<1>2. PICK x \in CallerStates : x = Away /\ x.at = "away" BY AwayIs
<1>3. /\ agent' = [agent EXCEPT ![t] = x] /\ inflight' = inflight \ {t}
      /\ told' = [told EXCEPT ![t] = news]
  BY <1>2 DEF Depart
<1>4. agent'[t] = x /\ \A b \in Agents \ {t} : agent'[b] = agent[b] BY <1>1, <1>3
<1>5. inflight' = {u \in Transfers : agent'[u].at # "away"}
  <2>1. \A u \in Transfers \ {t} : agent'[u] = agent[u] BY <1>4, AgentIs
  <2> QED BY <1>1, <1>2, <1>3, <1>4, <2>1
<1>6. transfer' \in [Transfers -> RowStates] /\ transfer'[t] = v
      /\ \A u \in Transfers \ {t} : transfer'[u] = transfer[u]
  BY <1>1
<1>7. told' \in [Transfers -> News] /\ told'[t] = news /\ \A u \in Transfers \ {t} : told'[u] = told[u]
  BY <1>1, <1>3
<1>8. StageTells(t)' /\ FileTells(t)' BY <1>2, <1>4, <1>6, <1>7 DEF StageTells, FileTells, Fits
<1>9. TransferTells(t)' /\ Admitted(t)' BY <1>2, <1>4, <1>7, <1>8 DEF TransferTells, Admitted, WriterPlaces
<1>10. ~Left(t) /\ t \notin Listers BY AgentIs DEF Left
<1> QED BY <1>1, <1>2, <1>3, <1>5, <1>6, <1>7, <1>9, <1>10, AgentKeeps

-----------------------------------------------------------------------------
(* The writers *)

\* A row that is left alone, and a row that is not yet adopted.
LEMMA RowStays ==
    ASSUME SecretsInv, NEW t \in Transfers, transfer' = transfer
    PROVE  transfer' = [transfer EXCEPT ![t] = transfer[t]] /\ transfer[t] \in RowStates
BY DEF SecretsInv, SecretsType

LEMMA AdoptedStay ==
    ASSUME SecretsInv, NEW t \in Transfers, transfer[t] # "adopted", profile' = profile,
           transfer' = transfer \/ \E v \in RowStates : transfer' = [transfer EXCEPT ![t] = v]
    PROVE  ProfilesTell'
<1>1. transfer \in [Transfers -> RowStates] BY DEF SecretsInv, SecretsType
<1>2. \A u \in Transfers : transfer[u] = "adopted" => transfer'[u] = "adopted" BY <1>1
<1> QED BY <1>2, ProfilesRest

\* What is known of a writer at its place.
LEMMA WriterAt ==
    ASSUME SecretsInv, NEW t \in Transfers
    PROVE  /\ TransferTells(t) /\ StageTells(t) /\ FileTells(t) /\ transfer[t] \in RowStates
           /\ transfer \in [Transfers -> RowStates] /\ secret \subseteq Transfers
           /\ owned \subseteq Transfers
BY AgentIs DEF SecretsInv, SecretsType, TransferTells

LEMMA AdmitKeeps == ASSUME SecretsInv, NEW t \in Transfers, Create(t) \/ Reauth(t) PROVE SecretsInv'
<1>1. PICK was \in Profiles \cup {NoProfile} : AdmitTransfer(t, was) /\ (t \in NewOnes \/ was # NoProfile)
  <2>1. CASE Create(t) BY <2>1 DEF Create
  <2>2. CASE Reauth(t)
    <3>1. Serves[t] \in Connections BY SecretsAssumption
    <3>2. profile[Serves[t]] \in Profiles \cup {NoProfile} BY <3>1 DEF SecretsInv, SecretsType
    <3> QED BY <2>2, <3>2 DEF Reauth
  <2> QED BY <2>1, <2>2
<1>2. /\ agent[t].at = "away" /\ told[t] = "nothing" /\ owned' = owned \cup {t}
      /\ inflight' = inflight \cup {t} /\ transfer' = transfer /\ secret' = secret
      /\ profile' = profile /\ lent' = lent /\ told' = told
      /\ agent' = [agent EXCEPT ![t] = [Away EXCEPT !.at = "prepare", !.on = t, !.was = was]]
  BY <1>1 DEF AdmitTransfer
<1>3. PICK y \in CallerStates : y = Away BY AwayIs
<1>4. PICK x : x = [y EXCEPT !.at = "prepare", !.on = t, !.was = was] OBVIOUS
<1>5. x \in CallerStates /\ x.at = "prepare" /\ x.on = t /\ x.was = was
  BY <1>4 DEF CallerStates, WriterPlaces
<1>6. agent' = [agent EXCEPT ![t] = x] BY <1>2, <1>3, <1>4
<1>7. /\ transfer \in [Transfers -> RowStates] /\ told \in [Transfers -> News]
      /\ secret \subseteq Transfers /\ agent \in [Agents -> CallerStates]
      /\ inflight = {u \in Transfers : agent[u].at # "away"}
      /\ TransferTells(t) /\ t \in Agents
  BY AgentIs DEF SecretsInv, SecretsType
<1>8. agent'[t] = x /\ \A b \in Agents \ {t} : agent'[b] = agent[b] BY <1>6, <1>7
<1>9. inflight' = {u \in Transfers : agent'[u].at # "away"}
  <2>1. \A u \in Transfers \ {t} : agent'[u] = agent[u] BY <1>8, AgentIs
  <2> QED BY <1>2, <1>5, <1>7, <1>8, <2>1
<1>10. transfer[t] = "none" BY <1>2, <1>7 DEF TransferTells, Admitted
<1>11. StageTells(t)' /\ FileTells(t)'
  BY <1>2, <1>5, <1>7, <1>8, <1>10 DEF StageTells, FileTells, TransferTells
<1>12. TransferTells(t)' /\ Admitted(t)'
  BY <1>1, <1>2, <1>5, <1>8, <1>11 DEF TransferTells, Admitted, WriterPlaces
<1>13. ~Left(t) /\ t \notin Listers /\ ProfilesTell' BY <1>2, AgentIs, ProfilesRest DEF Left
<1> QED BY <1>2, <1>5, <1>6, <1>7, <1>9, <1>12, <1>13, AgentKeeps

\* Steps that touch no row, file, caller or report.
LEMMA Untouched ==
    ASSUME SecretsInv, transfer' = transfer, secret' = secret, profile' = profile,
           inflight' = inflight, agent' = agent, lent' = lent, told' = told, owned' \subseteq owned
    PROVE  SecretsInv'
<1>1. SecretsType' BY DEF SecretsInv, SecretsType
<1>2. ProfilesTell' BY ProfilesRest
<1>3. LoanTells' BY DEF SecretsInv, LoanTells
<1>4. ASSUME NEW t \in Transfers PROVE TransferTells(t)'
  <2>1. TransferTells(t) BY AgentIs
  <2>2. StageTells(t)' /\ FileTells(t)' BY <2>1 DEF TransferTells, StageTells, FileTells
  <2> QED BY <2>1, <2>2 DEF TransferTells, Admitted
<1>5. ASSUME NEW l \in Listers PROVE ListerTells(l)'
  <2>1. ListerTells(l) BY AgentIs
  <2>2. \A t : (Admitted(t) => Admitted(t)') /\ (Left(t) => Left(t)') BY DEF Admitted, Left
  <2> QED BY <2>1, <2>2 DEF ListerTells
<1> QED BY <1>1, <1>2, <1>3, <1>4, <1>5 DEF SecretsInv

LEMMA CloseTemporaryKeeps == ASSUME SecretsInv, NEW t \in Transfers, CloseTemporary(t) PROVE SecretsInv'
BY Untouched DEF CloseTemporary

LEMMA GetKeeps == ASSUME SecretsInv, NEW t \in Transfers, Get(t) PROVE SecretsInv'
BY Untouched DEF Get, Release

LEMMA PrepareKeeps == ASSUME SecretsInv, NEW t \in Transfers, PrepareTransfer(t) PROVE SecretsInv'
<1>1. /\ agent[t].at = "prepare" /\ secret' = secret /\ profile' = profile /\ owned' = owned
      /\ lent' = lent
  BY DEF PrepareTransfer
<1>2. transfer[t] = "none" /\ t \notin secret /\ transfer[t] \in RowStates
  BY <1>1, WriterAt DEF StageTells, FileTells
<1>3. transfer' = [transfer EXCEPT ![t] = "pending"] \/ transfer' = transfer
  BY DEF PrepareTransfer, Answered, Failed, Abandoned
<1>4. PICK v \in {"none", "pending"} : transfer' = [transfer EXCEPT ![t] = v]
  BY <1>2, <1>3, RowStays
<1>5. v \in RowStates BY DEF RowStates
<1>6. ProfilesTell' BY <1>1, <1>2, <1>4, <1>5, AdoptedStay
<1>7. CASE transfer' = [transfer EXCEPT ![t] = "pending"] /\ Walk(t, "publish") /\ inflight' = inflight /\ told' = told
  <2>1. "publish" \in WriterPlaces \ {"away"} /\ "pending" \in RowStates
    BY DEF WriterPlaces, RowStates
  <2>2. Fits("publish", "pending", t \in secret') BY <1>1, <1>2 DEF Fits
  <2> QED BY <1>1, <1>2, <1>6, <1>7, <2>1, <2>2, WriterWalks
<1>8. CASE Walk(t, "recheck") /\ inflight' = inflight /\ told' = told
  <2>1. "recheck" \in WriterPlaces \ {"away"} BY DEF WriterPlaces
  <2>2. Fits("recheck", v, t \in secret') BY <1>1, <1>2 DEF Fits
  <2> QED BY <1>1, <1>2, <1>4, <1>5, <1>6, <1>8, <2>1, <2>2, WriterWalks
<1>9. CASE Depart(t, "cancelled")
  <2>1. "cancelled" \in News \ {"nothing"} BY DEF News
  <2>2. Fits("away", v, t \in secret') BY <1>1, <1>2 DEF Fits
  <2> QED BY <1>1, <1>2, <1>4, <1>5, <1>6, <1>9, <2>1, <2>2, WriterLeaves
<1> QED BY <1>7, <1>8, <1>9 DEF PrepareTransfer, Answered, Failed, Abandoned

LEMMA RecheckKeeps == ASSUME SecretsInv, NEW t \in Transfers, RecheckPrepared(t) PROVE SecretsInv'
<1>1. /\ agent[t].at = "recheck" /\ secret' = secret /\ profile' = profile
      /\ lent' = lent /\ owned' \subseteq owned
  BY DEF RecheckPrepared, Release
<1>2. transfer' = transfer BY DEF RecheckPrepared
<1>3. /\ transfer[t] \in {"none", "pending"} /\ transfer[t] \in RowStates
      /\ t \in secret => transfer[t] = "pending"
  BY <1>1, WriterAt DEF StageTells, FileTells
<1>4. PICK v \in RowStates : v = transfer[t] /\ transfer' = [transfer EXCEPT ![t] = v]
  BY <1>2, RowStays
<1>5. ProfilesTell' BY <1>1, <1>2, ProfilesRest
<1>6. Fits("away", v, t \in secret') BY <1>1, <1>3, <1>4 DEF Fits
<1>7. CASE \E news \in {"unsettled", "cancelled"} : Depart(t, news)
  <2>1. PICK news \in {"unsettled", "cancelled"} : Depart(t, news) BY <1>7
  <2>2. news \in News \ {"nothing"} BY DEF News
  <2> QED BY <1>1, <1>4, <1>5, <1>6, <2>1, <2>2, WriterLeaves
<1>8. CASE MayPublish(t) /\ Walk(t, "publish") /\ inflight' = inflight /\ told' = told
  <2>1. "publish" \in WriterPlaces \ {"away"} BY DEF WriterPlaces
  <2>2. Fits("publish", v, t \in secret') BY <1>1, <1>3, <1>4, <1>8 DEF Fits, MayPublish
  <2> QED BY <1>1, <1>4, <1>5, <1>8, <2>1, <2>2, WriterWalks
<1>9. CASE ~MayPublish(t) /\ Depart(t, "refused")
  <2>1. "refused" \in News \ {"nothing"} BY DEF News
  <2>2. v = "none" /\ t \notin secret' BY <1>1, <1>3, <1>4, <1>9 DEF MayPublish
  <2> QED BY <1>1, <1>4, <1>5, <1>6, <1>9, <2>1, <2>2, WriterLeaves
<1> QED BY <1>7, <1>8, <1>9 DEF RecheckPrepared

LEMMA PublishKeeps == ASSUME SecretsInv, NEW t \in Transfers, Publish(t) PROVE SecretsInv'
<1>1. /\ agent[t].at = "publish" /\ profile' = profile /\ transfer' = transfer
      /\ lent' = lent /\ owned' = owned /\ inflight' = inflight /\ told' = told
  BY DEF Publish
<1>2. transfer[t] = "pending" BY <1>1, WriterAt DEF StageTells
<1>3. PICK v \in RowStates : v = "pending" /\ transfer' = [transfer EXCEPT ![t] = v]
  BY <1>1, <1>2, RowStays
<1>4. ProfilesTell' BY <1>1, ProfilesRest
<1>5. "adopt" \in WriterPlaces \ {"away"} /\ "resolve" \in WriterPlaces \ {"away"} BY DEF WriterPlaces
<1>6. CASE secret' = secret \cup {t} /\ Walk(t, "adopt")
  <2>1. Fits("adopt", v, t \in secret') BY <1>3, <1>6 DEF Fits
  <2> QED BY <1>1, <1>2, <1>3, <1>4, <1>5, <1>6, <2>1, WriterWalks
<1>7. CASE (secret' = secret \/ secret' = secret \cup {t}) /\ Walk(t, "resolve")
  <2>1. Fits("resolve", v, t \in secret') BY <1>3, <1>7 DEF Fits
  <2> QED BY <1>1, <1>2, <1>3, <1>4, <1>5, <1>7, <2>1, WriterWalks
<1> QED BY <1>6, <1>7 DEF Publish

\* An adoption binds the profile to a file that is there.
LEMMA AdoptionTells ==
    ASSUME SecretsInv, NEW t \in Transfers, agent[t].at = "adopt", Adoptable(t), Adoption(t)
    PROVE  ProfilesTell' /\ transfer' = [transfer EXCEPT ![t] = "adopted"]
<1>1. /\ transfer \in [Transfers -> RowStates]
      /\ profile \in [Connections -> Profiles \cup {NoProfile}]
      /\ \A c \in Connections : ProfileTells(c)
      /\ TransferTells(t)
  BY AgentIs DEF SecretsInv, SecretsType, ProfilesTell
<1>2. PICK d \in Connections : d = Serves[t] BY SecretsAssumption
<1>3. t \in NewOnes \/ profile[d] # NoProfile BY <1>1, <1>2 DEF TransferTells, Adoptable
<1>4. PICK i : i = IF t \in NewOnes THEN t ELSE profile[d].id OBVIOUS
<1>5. i \in Transfers \cup {NoTransfer}
  <2>1. profile[d] \in Profiles \cup {NoProfile} BY <1>1
  <2>2. profile[d] # NoProfile => profile[d].id \in Transfers \cup {NoTransfer} BY <2>1 DEF Profiles
  <2> QED BY <1>3, <1>4, <2>2
<1>6. PICK z : z = [id |-> i, ref |-> t, by |-> t] OBVIOUS
<1>7. z \in Profiles /\ z.ref = t /\ z.by = t BY <1>5, <1>6 DEF Profiles
<1>8. transfer' = [transfer EXCEPT ![t] = "adopted"] /\ profile' = [profile EXCEPT ![d] = z]
  BY <1>2, <1>4, <1>6 DEF Adoption
<1>9. /\ profile' \in [Connections -> Profiles \cup {NoProfile}] /\ profile'[d] = z
      /\ \A c \in Connections \ {d} : profile'[c] = profile[c]
  BY <1>1, <1>7, <1>8
<1>10. transfer'[t] = "adopted" /\ \A u \in Transfers : transfer[u] = "adopted" => transfer'[u] = "adopted"
  BY <1>1, <1>8
<1>11. ASSUME NEW c \in Connections PROVE ProfileTells(c)'
  <2>1. CASE c = d BY <1>7, <1>9, <1>10, <2>1 DEF ProfileTells
  <2>2. CASE c # d
    <3>1. PICK y \in Profiles \cup {NoProfile} : y = profile[c] BY <1>1
    <3>2. y # NoProfile => y.ref \in Transfers BY DEF Profiles
    <3> QED BY <1>1, <1>9, <1>10, <2>2, <3>1, <3>2 DEF ProfileTells
  <2> QED BY <2>1, <2>2
<1> QED BY <1>8, <1>9, <1>11 DEF ProfilesTell

LEMMA AdoptKeeps == ASSUME SecretsInv, NEW t \in Transfers, AdoptTransfer(t) PROVE SecretsInv'
<1>1. /\ agent[t].at = "adopt" /\ secret' = secret /\ lent' = lent /\ owned' \subseteq owned
  BY DEF AdoptTransfer, Release
<1>2. transfer[t] = "pending" /\ t \in secret BY <1>1, WriterAt DEF StageTells
<1>3. (Adoptable(t) /\ Adoption(t)) \/ UNCHANGED <<transfer, profile>>
  BY DEF AdoptTransfer, Failed, Abandoned
<1>4. PICK v \in {"pending", "adopted"} : transfer' = [transfer EXCEPT ![t] = v] /\ ProfilesTell'
  <2>1. CASE Adoptable(t) /\ Adoption(t) BY <1>1, <2>1, AdoptionTells
  <2>2. CASE transfer' = transfer /\ profile' = profile
    <3>1. ProfilesTell' BY <2>2, ProfilesRest
    <3>2. transfer' = [transfer EXCEPT ![t] = "pending"] BY <1>2, <2>2, RowStays
    <3> QED BY <3>1, <3>2
  <2> QED BY <1>3, <2>1, <2>2
<1>5. v \in RowStates BY DEF RowStates
<1>6. CASE Adoption(t) /\ Depart(t, "stored")
  <2>1. "stored" \in News \ {"nothing"} BY DEF News
  <2>2. transfer'[t] = "adopted" BY <1>6, WriterAt DEF Adoption
  <2>3. v = "adopted" BY <1>4, <2>2, WriterAt
  <2>4. Fits("away", v, t \in secret') BY <1>1, <1>2, <2>3 DEF Fits
  <2> QED BY <1>1, <1>2, <1>4, <1>5, <1>6, <2>1, <2>3, <2>4, WriterLeaves
<1>7. CASE Walk(t, "resolve") /\ inflight' = inflight /\ told' = told
  <2>1. "resolve" \in WriterPlaces \ {"away"} BY DEF WriterPlaces
  <2>2. Fits("resolve", v, t \in secret') BY <1>1, <1>2 DEF Fits
  <2> QED BY <1>1, <1>2, <1>4, <1>5, <1>7, <2>1, <2>2, WriterWalks
<1>8. CASE Depart(t, "cancelled")
  <2>1. "cancelled" \in News \ {"nothing"} BY DEF News
  <2>2. Fits("away", v, t \in secret') BY <1>1, <1>2 DEF Fits
  <2> QED BY <1>1, <1>2, <1>4, <1>5, <1>8, <2>1, <2>2, WriterLeaves
<1> QED BY <1>6, <1>7, <1>8 DEF AdoptTransfer, Abandoned

LEMMA ResolveKeeps == ASSUME SecretsInv, NEW t \in Transfers, Resolve(t) PROVE SecretsInv'
<1>1. /\ agent[t].at = "resolve" /\ secret' = secret /\ profile' = profile
      /\ lent' = lent /\ owned' \subseteq owned
  BY DEF Resolve, Release
<1>2. transfer' = transfer BY DEF Resolve
<1>3. /\ transfer[t] \in {"pending", "adopted"} /\ (transfer[t] = "adopted" => t \in secret)
  BY <1>1, WriterAt DEF StageTells, FileTells
<1>4. PICK v \in RowStates : v = transfer[t] /\ transfer' = [transfer EXCEPT ![t] = v]
  BY <1>2, RowStays
<1>5. ProfilesTell' BY <1>1, <1>2, ProfilesRest
<1>6. Fits("away", v, t \in secret') BY <1>1, <1>3, <1>4 DEF Fits
<1>7. CASE \E news \in {"unsettled", "cancelled"} : Depart(t, news)
  <2>1. PICK news \in {"unsettled", "cancelled"} : Depart(t, news) BY <1>7
  <2>2. news \in News \ {"nothing"} BY DEF News
  <2> QED BY <1>1, <1>4, <1>5, <1>6, <2>1, <2>2, WriterLeaves
<1>8. CASE Confirmed(t) /\ Depart(t, "stored")
  <2>1. "stored" \in News \ {"nothing"} BY DEF News
  <2>2. v = "adopted" BY <1>4, <1>8 DEF Confirmed
  <2> QED BY <1>1, <1>4, <1>5, <1>6, <1>8, <2>1, <2>2, WriterLeaves
<1>9. CASE transfer[t] # "adopted" /\ Walk(t, "begin") /\ inflight' = inflight /\ told' = told
  <2>1. "begin" \in WriterPlaces \ {"away"} BY DEF WriterPlaces
  <2>2. Fits("begin", v, t \in secret') BY <1>1, <1>3, <1>4, <1>9 DEF Fits
  <2> QED BY <1>1, <1>4, <1>5, <1>9, <2>1, <2>2, WriterWalks
<1>10. CASE Depart(t, "unsettled") BY <1>7, <1>10
<1> QED BY <1>7, <1>8, <1>9, <1>10 DEF Resolve

-----------------------------------------------------------------------------
(* Discarding, by a writer or by a lister *)

\* A lister goes on with a transfer whose writer has left.
LEMMA ListerActs ==
    ASSUME SecretsInv, NEW l \in Listers, NEW x \in CallerStates, agent' = [agent EXCEPT ![l] = x],
           NEW t \in Transfers, Left(t), told' = told, inflight' = inflight, lent' = lent,
           profile' = profile, owned' \subseteq owned,
           NEW v \in RowStates, transfer' = [transfer EXCEPT ![t] = v],
           v = transfer[t] \/ (transfer[t] \in {"pending", "discarding", "discarded"} /\ v \in Given),
           told[t] = "refused" => v \in {"none", "discarded"},
           secret' \subseteq secret, \A u \in Transfers \ {t} : u \in secret => u \in secret',
           v = "adopted" => secret' = secret, t \in secret' => v # "discarded",
           x.at \in ListerPlaces, x.todo \subseteq agent[l].todo,
           x.at = "away" \/ x.at = "look" \/ (x.on = t /\ x.at \in {"begin", "unlink", "finish"}),
           x.at \in {"unlink", "finish"} => v \in Given, x.at = "finish" => t \notin secret'
    PROVE  SecretsInv'
<1>1. /\ transfer \in [Transfers -> RowStates] /\ told \in [Transfers -> News]
      /\ secret \subseteq Transfers /\ agent \in [Agents -> CallerStates]
      /\ inflight = {u \in Transfers : agent[u].at # "away"}
      /\ TransferTells(t) /\ ListerTells(l) /\ l \in Agents /\ l \notin Transfers
  BY AgentIs DEF SecretsInv, SecretsType
<1>2. agent'[l] = x /\ \A b \in Agents \ {l} : agent'[b] = agent[b] BY <1>1
<1>3. \A u \in Transfers : agent'[u] = agent[u] BY <1>1, <1>2, AgentIs
<1>4. inflight' = {u \in Transfers : agent'[u].at # "away"} BY <1>1, <1>3
<1>5. transfer' \in [Transfers -> RowStates] /\ transfer'[t] = v
      /\ \A u \in Transfers \ {t} : transfer'[u] = transfer[u]
  BY <1>1
<1>6. Left(t)' /\ Admitted(t)' /\ agent[t].at = "away" BY <1>3 DEF Left, Admitted
<1>7. FileTells(t)'
  <2>1. FileTells(t) BY <1>1 DEF TransferTells
  <2>2. v \in Given => v \in {"discarding", "discarded"} BY DEF Given
  <2> QED BY <1>5, <2>1, <2>2 DEF FileTells
<1>8. TransferTells(t)' BY <1>1, <1>3, <1>6, <1>7 DEF TransferTells, StageTells, Admitted
<1>9. \A u \in Transfers : Admitted(u) => Admitted(u)' BY <1>3 DEF Admitted
<1>10. ListerTells(l)'
  <2>1. agent[l].todo \subseteq Transfers BY <1>1, CallerFields
  <2>2. \A u \in x.todo : Admitted(u)' BY <1>1, <1>9, <2>1 DEF ListerTells
  <2> QED BY <1>2, <1>5, <1>6, <2>2 DEF ListerTells
<1>11. ProfilesTell'
  <2>1. \A u \in Transfers : transfer[u] = "adopted" => transfer'[u] = "adopted" BY <1>1, <1>5
  <2> QED BY <2>1, ProfilesRest
<1>12. transfer[t] \in Given => transfer'[t] \in Given BY <1>5
<1>13. transfer[t] # "none" => transfer'[t] # "none" BY <1>5 DEF Given
<1> QED BY <1>1, <1>4, <1>5, <1>6, <1>8, <1>10, <1>11, <1>12, <1>13, AgentKeeps

LEMMA ListerWalks ==
    ASSUME SecretsInv, NEW l \in Listers, NEW at \in ListerPlaces, Walk(l, at)
    PROVE  \E x \in CallerStates : /\ agent' = [agent EXCEPT ![l] = x] /\ x.at = at
                                   /\ x.todo = agent[l].todo /\ x.on = agent[l].on
<1>1. PICK y \in CallerStates : y = agent[l] BY AgentIs
<1>2. PICK x : x = [y EXCEPT !.at = at] OBVIOUS
<1>3. x \in CallerStates /\ x.at = at /\ x.on = y.on /\ x.todo = y.todo BY <1>2 DEF CallerStates
<1>4. agent' = [agent EXCEPT ![l] = x] BY <1>1, <1>2 DEF Walk
<1> QED BY <1>1, <1>3, <1>4

LEMMA ListerLeaves ==
    ASSUME SecretsInv, NEW l \in Listers, NEW news, Depart(l, news)
    PROVE  /\ inflight' = inflight /\ told' = told
           /\ \E x \in CallerStates : /\ agent' = [agent EXCEPT ![l] = x] /\ x.at = "away"
                                      /\ x.todo = {}
<1>1. l \notin Transfers BY AgentIs
<1>2. inflight \subseteq Transfers BY DEF SecretsInv, SecretsType
<1> QED BY <1>1, <1>2, AwayIs DEF Depart

\* What is known when a caller is about to discard.
LEMMA DiscardAt ==
    ASSUME SecretsInv, NEW a \in Agents, agent[a].at \in {"begin", "unlink", "finish"}
    PROVE  /\ agent[a].on \in Transfers
           /\ a \in Transfers => agent[a].on = a
           /\ a \in Listers => Left(agent[a].on)
           /\ agent[a].at \in {"unlink", "finish"} => transfer[agent[a].on] \in Given
           /\ agent[a].at = "finish" => agent[a].on \notin secret
           /\ a \in Transfers \/ a \in Listers
<1>1. CASE a \in Transfers BY <1>1, WriterAt, AgentIs DEF TransferTells, StageTells
<1>2. CASE a \in Listers BY <1>2, AgentIs DEF ListerTells
<1> QED BY <1>1, <1>2 DEF Agents

\* A file in use belongs to an adopted row.
LEMMA InUseIsAdopted ==
    ASSUME SecretsInv, NEW t \in Transfers, InUse(t) PROVE transfer[t] = "adopted"
BY DEF SecretsInv, ProfilesTell, ProfileTells, InUse

LEMMA BeginDiscardKeeps == ASSUME SecretsInv, NEW a \in Agents, BeginDiscard(a) PROVE SecretsInv'
<1>1. PICK t \in Transfers : t = agent[a].on BY DiscardAt DEF BeginDiscard
<1>2. /\ agent[a].at = "begin" /\ secret' = secret /\ profile' = profile /\ lent' = lent
      /\ owned' \subseteq owned
  BY DEF BeginDiscard, Release
<1>3. (Discardable(t) /\ transfer' = [transfer EXCEPT ![t] = "discarding"]) \/ transfer' = transfer
  BY <1>1 DEF BeginDiscard, Answered, Failed, Abandoned
<1>4. PICK v \in RowStates :
        /\ transfer' = [transfer EXCEPT ![t] = v]
        /\ v = transfer[t] \/ (transfer[t] \in {"pending", "discarding"} /\ v = "discarding")
  <2>1. CASE Discardable(t) /\ transfer' = [transfer EXCEPT ![t] = "discarding"]
    <3>1. "discarding" \in RowStates BY DEF RowStates
    <3> QED BY <2>1, <3>1 DEF Discardable
  <2>2. CASE transfer' = transfer BY <2>2, RowStays
  <2> QED BY <1>3, <2>1, <2>2
<1>5. FileTells(t) /\ transfer[t] \in RowStates BY WriterAt
<1>6. told[t] = "refused" => v \in {"none", "discarded"} BY <1>4, <1>5 DEF FileTells
<1>7. (t \in secret => v # "discarded") /\ (v = "adopted" => t \in secret) BY <1>4, <1>5 DEF FileTells
<1>8. \/ Walk(a, "unlink") /\ inflight' = inflight /\ told' = told /\ v = "discarding"
      \/ Depart(a, "refused") /\ v = "discarded"
      \/ Depart(a, "unsettled") \/ Depart(a, "cancelled")
  <2>1. CASE Answered(Discardable(t) /\ transfer' = [transfer EXCEPT ![t] = "discarding"])
             /\ Walk(a, "unlink") /\ inflight' = inflight /\ told' = told
    <3>1. transfer'[t] = "discarding" BY <2>1, WriterAt DEF Answered
    <3>2. transfer'[t] = v BY <1>4, WriterAt
    <3> QED BY <2>1, <3>1, <3>2
  <2>2. CASE transfer[t] = "discarded" /\ Depart(a, "refused") BY <1>4, <2>2
  <2>3. CASE Depart(a, "unsettled") \/ Depart(a, "cancelled") BY <2>3
  <2> QED BY <1>1, <2>1, <2>2, <2>3 DEF BeginDiscard, Abandoned
<1>9. CASE a \in Transfers
  <2>1. a = t BY <1>1, <1>2, <1>9, DiscardAt
  <2>2. transfer[t] = "pending" BY <1>2, <2>1, WriterAt DEF StageTells
  <2>3. ProfilesTell' BY <1>2, <1>4, <2>2, AdoptedStay
  <2>4. v \in {"pending", "discarding"} BY <1>4, <2>2
  <2>5. Fits("away", v, t \in secret') BY <2>4 DEF Fits
  <2>6. CASE Walk(a, "unlink") /\ inflight' = inflight /\ told' = told /\ v = "discarding"
    <3>1. "unlink" \in WriterPlaces \ {"away"} BY DEF WriterPlaces
    <3>2. Fits("unlink", v, t \in secret') BY <2>6 DEF Fits, Given
    <3> QED BY <1>2, <1>4, <2>1, <2>2, <2>3, <2>6, <3>1, <3>2, WriterWalks
  <2>7. CASE Depart(a, "unsettled") \/ Depart(a, "cancelled")
    <3>1. PICK news \in {"unsettled", "cancelled"} : Depart(t, news) BY <2>1, <2>7
    <3>2. news \in News \ {"nothing"} BY DEF News
    <3> QED BY <1>2, <1>4, <2>1, <2>2, <2>3, <2>4, <2>5, <3>1, <3>2, WriterLeaves
  <2> QED BY <1>8, <2>4, <2>6, <2>7
<1>10. CASE a \in Listers
  <2>1. Left(t) BY <1>1, <1>2, <1>10, DiscardAt
  <2>2. v = transfer[t] \/ (transfer[t] \in {"pending", "discarding", "discarded"} /\ v \in Given)
    BY <1>4 DEF Given
  <2>3. CASE Walk(a, "unlink") /\ inflight' = inflight /\ told' = told /\ v = "discarding"
    <3>1. "unlink" \in ListerPlaces BY DEF ListerPlaces
    <3>2. PICK x \in CallerStates : /\ agent' = [agent EXCEPT ![a] = x] /\ x.at = "unlink"
                                    /\ x.todo = agent[a].todo /\ x.on = t
      BY <1>1, <1>10, <2>3, <3>1, ListerWalks
    <3>3. v \in Given BY <2>3 DEF Given
    <3> QED BY <1>2, <1>4, <1>6, <1>7, <1>10, <2>1, <2>2, <2>3, <3>1, <3>2, <3>3, ListerActs
  <2>4. CASE Depart(a, "refused") \/ Depart(a, "unsettled") \/ Depart(a, "cancelled")
    <3>1. /\ inflight' = inflight /\ told' = told
          /\ \E x \in CallerStates : agent' = [agent EXCEPT ![a] = x] /\ x.at = "away" /\ x.todo = {}
      BY <1>10, <2>4, ListerLeaves
    <3>2. PICK x \in CallerStates : agent' = [agent EXCEPT ![a] = x] /\ x.at = "away" /\ x.todo = {}
      BY <3>1
    <3>3. "away" \in ListerPlaces BY DEF ListerPlaces
    <3> QED BY <1>2, <1>4, <1>6, <1>7, <1>10, <2>1, <2>2, <3>1, <3>2, <3>3, ListerActs
  <2> QED BY <1>8, <2>3, <2>4
<1> QED BY <1>9, <1>10 DEF Agents

LEMMA UnlinkKeeps == ASSUME SecretsInv, NEW a \in Agents, Unlink(a) PROVE SecretsInv'
<1>1. PICK t \in Transfers : t = agent[a].on BY DiscardAt DEF Unlink
<1>2. /\ agent[a].at = "unlink" /\ profile' = profile /\ lent' = lent
      /\ owned' \subseteq owned
  BY DEF Unlink
<1>3. transfer' = transfer BY DEF Unlink
<1>4. transfer[t] \in Given BY <1>1, <1>2, DiscardAt
<1>5. PICK v \in RowStates : v = transfer[t] /\ transfer' = [transfer EXCEPT ![t] = v]
  BY <1>3, RowStays
<1>6. FileTells(t) /\ v \in {"discarding", "discarded"} BY <1>4, <1>5, WriterAt DEF Given
<1>7. told[t] = "refused" => v \in {"none", "discarded"} BY <1>5, <1>6 DEF FileTells
<1>8. /\ secret' = secret \/ secret' = secret \ {t}
      /\ t \in secret' => v = "discarding"
  BY <1>1, <1>5, <1>6 DEF Unlink, FileTells
<1>9. ProfilesTell' BY <1>2, <1>3, ProfilesRest
<1>10. \/ Walk(a, "finish") /\ inflight' = inflight /\ told' = told /\ t \notin secret'
      \/ Depart(a, "unsettled")
  BY <1>1 DEF Unlink
<1>11. CASE a \in Transfers
  <2>1. a = t BY <1>1, <1>2, <1>11, DiscardAt
  <2>2. CASE Walk(a, "finish") /\ inflight' = inflight /\ told' = told /\ t \notin secret'
    <3>1. "finish" \in WriterPlaces \ {"away"} BY DEF WriterPlaces
    <3>2. Fits("finish", v, t \in secret') BY <1>6, <2>2 DEF Fits, Given
    <3> QED BY <1>2, <1>5, <1>8, <1>9, <2>1, <2>2, <3>1, <3>2, WriterWalks
  <2>3. CASE Depart(a, "unsettled")
    <3>1. PICK news \in {"unsettled"} : Depart(t, news) BY <2>1, <2>3
    <3>2. news \in News \ {"nothing"} /\ news # "stored" /\ news # "refused" BY DEF News
    <3>3. Fits("away", v, t \in secret') BY <1>6, <1>8 DEF Fits
    <3>4. agent[t].at # "away" /\ v # "none" BY <1>2, <1>6, <2>1
    <3> QED BY <1>2, <1>5, <1>8, <1>9, <3>1, <3>2, <3>3, <3>4, WriterLeaves
  <2> QED BY <1>10, <2>2, <2>3
<1>12. CASE a \in Listers
  <2>1. Left(t) BY <1>1, <1>2, <1>12, DiscardAt
  <2>2. (t \in secret' => v # "discarded") /\ v \in Given BY <1>6, <1>8 DEF Given
  <2>3. secret' \subseteq secret /\ \A u \in Transfers \ {t} : u \in secret => u \in secret'
    BY <1>8
  <2>4. v # "adopted" BY <1>6
  <2>5. CASE Walk(a, "finish") /\ inflight' = inflight /\ told' = told /\ t \notin secret'
    <3>1. "finish" \in ListerPlaces BY DEF ListerPlaces
    <3>2. PICK x \in CallerStates : /\ agent' = [agent EXCEPT ![a] = x] /\ x.at = "finish"
                                    /\ x.todo = agent[a].todo /\ x.on = t
      BY <1>1, <1>12, <2>5, <3>1, ListerWalks
    <3> QED BY <1>2, <1>5, <1>7, <1>12, <2>1, <2>2, <2>3, <2>4, <2>5, <3>1, <3>2, ListerActs
  <2>6. CASE Depart(a, "unsettled")
    <3>1. /\ inflight' = inflight /\ told' = told
          /\ \E x \in CallerStates : agent' = [agent EXCEPT ![a] = x] /\ x.at = "away" /\ x.todo = {}
      BY <1>12, <2>6, ListerLeaves
    <3>2. PICK x \in CallerStates : agent' = [agent EXCEPT ![a] = x] /\ x.at = "away" /\ x.todo = {}
      BY <3>1
    <3>3. "away" \in ListerPlaces BY DEF ListerPlaces
    <3> QED BY <1>2, <1>5, <1>7, <1>12, <2>1, <2>2, <2>3, <2>4, <3>1, <3>2, <3>3, ListerActs
  <2> QED BY <1>10, <2>5, <2>6
<1> QED BY <1>11, <1>12 DEF Agents

LEMMA FinishDiscardKeeps == ASSUME SecretsInv, NEW a \in Agents, FinishDiscard(a) PROVE SecretsInv'
<1>1. PICK t \in Transfers : t = agent[a].on BY DiscardAt DEF FinishDiscard
<1>2. /\ agent[a].at = "finish" /\ secret' = secret /\ profile' = profile /\ lent' = lent
      /\ owned' \subseteq owned
  BY DEF FinishDiscard, Release
<1>3. transfer[t] \in Given /\ t \notin secret BY <1>1, <1>2, DiscardAt
<1>4. transfer' = [transfer EXCEPT ![t] = "discarded"] \/ transfer' = transfer
  BY <1>1 DEF FinishDiscard, Answered, Failed, Abandoned
<1>5. PICK v \in RowStates :
        transfer' = [transfer EXCEPT ![t] = v] /\ (v = transfer[t] \/ v = "discarded")
  <2>1. CASE transfer' = [transfer EXCEPT ![t] = "discarded"]
    <3>1. "discarded" \in RowStates BY DEF RowStates
    <3> QED BY <2>1, <3>1
  <2>2. CASE transfer' = transfer BY <2>2, RowStays
  <2> QED BY <1>4, <2>1, <2>2
<1>6. v \in Given /\ v \in {"discarding", "discarded"} /\ transfer[t] # "adopted"
  BY <1>3, <1>5 DEF Given
<1>7. FileTells(t) BY WriterAt
<1>8. told[t] = "refused" => v \in {"none", "discarded"} BY <1>5, <1>7 DEF FileTells
<1>9. ProfilesTell' BY <1>2, <1>5, <1>6, AdoptedStay
<1>10. \/ Depart(a, "refused") /\ v = "discarded"
       \/ Depart(a, "unsettled") \/ Depart(a, "cancelled")
  <2>1. CASE Depart(a, "refused") /\ transfer' = [transfer EXCEPT ![t] = "discarded"]
    <3>1. transfer'[t] = "discarded" /\ transfer'[t] = v BY <1>5, <2>1, WriterAt
    <3> QED BY <2>1, <3>1
  <2> QED BY <1>1, <2>1 DEF FinishDiscard, Answered, Abandoned
<1>11. CASE a \in Transfers
  <2>1. a = t BY <1>1, <1>2, <1>11, DiscardAt
  <2>2. Fits("away", v, t \in secret') BY <1>2, <1>3, <1>6 DEF Fits
  <2>3. PICK news \in {"refused", "unsettled", "cancelled"} :
          Depart(t, news) /\ (news = "refused" => v = "discarded")
    BY <1>10, <2>1
  <2>4. news \in News \ {"nothing"} BY DEF News
  <2>5. news # "stored" BY <2>3
  <2> QED BY <1>2, <1>3, <1>5, <1>6, <1>9, <2>1, <2>2, <2>3, <2>4, <2>5, WriterLeaves
<1>12. CASE a \in Listers
  <2>1. Left(t) BY <1>1, <1>2, <1>12, DiscardAt
  <2>2. /\ inflight' = inflight /\ told' = told
        /\ \E x \in CallerStates : agent' = [agent EXCEPT ![a] = x] /\ x.at = "away" /\ x.todo = {}
    BY <1>10, <1>12, ListerLeaves
  <2>3. PICK x \in CallerStates : agent' = [agent EXCEPT ![a] = x] /\ x.at = "away" /\ x.todo = {}
    BY <2>2
  <2>4. "away" \in ListerPlaces BY DEF ListerPlaces
  <2>5. v = transfer[t] \/ (transfer[t] \in {"pending", "discarding", "discarded"} /\ v \in Given)
    BY <1>3, <1>6 DEF Given
  <2> QED BY <1>2, <1>3, <1>5, <1>8, <1>12, <2>1, <2>2, <2>3, <2>4, <2>5, ListerActs
<1> QED BY <1>11, <1>12 DEF Agents

-----------------------------------------------------------------------------
(* Listing, borrowing, deleting and stopping *)

\* A lister looks around; rows, files and writers stay.
LEMMA ListerMoves ==
    ASSUME SecretsInv, NEW l \in Listers, NEW x \in CallerStates, agent' = [agent EXCEPT ![l] = x],
           transfer' = transfer, secret' = secret, profile' = profile, inflight' = inflight,
           lent' = lent, told' = told, owned' \subseteq owned, x.at \in ListerPlaces,
           \A u \in x.todo : Admitted(u),
           x.at = "decide" => x.on \in Transfers /\ Admitted(x.on),
           x.at = "begin" => x.on \in Transfers /\ Left(x.on),
           x.at \notin {"unlink", "finish"}
    PROVE  SecretsInv'
<1>1. /\ agent \in [Agents -> CallerStates] /\ l \in Agents /\ l \notin Transfers
      /\ inflight = {u \in Transfers : agent[u].at # "away"}
  BY AgentIs DEF SecretsInv, SecretsType
<1>2. /\ agent' \in [Agents -> CallerStates] /\ agent'[l] = x
      /\ \A b \in Agents \ {l} : agent'[b] = agent[b]
  BY <1>1
<1>3. \A u \in Transfers : agent'[u] = agent[u] BY <1>1, <1>2, AgentIs
<1>4. SecretsType' BY <1>1, <1>2, <1>3 DEF SecretsInv, SecretsType
<1>5. ProfilesTell' /\ LoanTells' BY ProfilesRest DEF SecretsInv, LoanTells
<1>6. \A u \in Transfers : (Admitted(u) => Admitted(u)') /\ (Left(u) => Left(u)')
  BY <1>3 DEF Admitted, Left
<1>7. ASSUME NEW u \in Transfers PROVE TransferTells(u)'
  <2>1. TransferTells(u) /\ agent'[u] = agent[u] BY <1>3, AgentIs
  <2>2. StageTells(u)' /\ FileTells(u)' BY <2>1 DEF TransferTells, StageTells, FileTells
  <2> QED BY <2>1, <2>2 DEF TransferTells, Admitted
<1>8. ASSUME NEW m \in Listers PROVE ListerTells(m)'
  <2>1. CASE m = l
    <3>1. x.todo \subseteq Transfers BY CallerFields
    <3>2. \A u \in x.todo : Admitted(u)' BY <1>6, <3>1
    <3>3. x.at = "decide" => x.on \in Transfers /\ Admitted(x.on)' BY <1>6
    <3>4. x.at = "begin" => x.on \in Transfers /\ Left(x.on)' BY <1>6
    <3> QED BY <1>2, <2>1, <3>2, <3>3, <3>4 DEF ListerTells
  <2>2. CASE m # l
    <3>1. agent'[m] = agent[m] /\ ListerTells(m) /\ agent[m] \in CallerStates BY <1>2, <2>2, AgentIs
    <3>2. PICK y \in CallerStates : y = agent[m] BY <3>1
    <3>3. y.todo \subseteq Transfers BY CallerFields
    <3>4. /\ \A u \in y.todo : Admitted(u)'
          /\ y.at = "decide" => y.on \in Transfers /\ Admitted(y.on)'
          /\ y.at \in {"begin", "unlink", "finish"} => y.on \in Transfers /\ Left(y.on)'
      BY <1>6, <3>1, <3>2, <3>3 DEF ListerTells
    <3> QED BY <3>1, <3>2, <3>4 DEF ListerTells
  <2> QED BY <2>1, <2>2
<1> QED BY <1>4, <1>5, <1>7, <1>8 DEF SecretsInv

\* A list that ends.
LEMMA ListerEnds ==
    ASSUME SecretsInv, NEW l \in Listers, agent' = [agent EXCEPT ![l] = Away],
           transfer' = transfer, secret' = secret, profile' = profile, inflight' = inflight,
           lent' = lent, told' = told, owned' \subseteq owned
    PROVE  SecretsInv'
<1>1. PICK x \in CallerStates : x = Away /\ x.at = "away" /\ x.todo = {} BY AwayIs
<1>2. "away" \in ListerPlaces BY DEF ListerPlaces
<1> QED BY <1>1, <1>2, ListerMoves

LEMMA BeginListKeeps == ASSUME SecretsInv, NEW l \in Listers, BeginList(l) PROVE SecretsInv'
<1>1. /\ agent' = [agent EXCEPT ![l] = [agent[l] EXCEPT !.at = "look", !.todo = owned]]
      /\ transfer' = transfer /\ secret' = secret /\ profile' = profile /\ inflight' = inflight
      /\ lent' = lent /\ told' = told /\ owned' \subseteq owned
  BY DEF BeginList
<1>2. PICK y \in CallerStates : y = agent[l] BY AgentIs
<1>3. PICK x : x = [y EXCEPT !.at = "look", !.todo = owned] OBVIOUS
<1>4. owned \subseteq Transfers BY DEF SecretsInv, SecretsType
<1>5. x \in CallerStates /\ x.at = "look" /\ x.todo = owned
  BY <1>3, <1>4 DEF CallerStates, ListerPlaces
<1>6. agent' = [agent EXCEPT ![l] = x] BY <1>1, <1>2, <1>3
<1>7. \A u \in owned : Admitted(u) BY <1>4, AgentIs DEF TransferTells
<1>8. x.at \in ListerPlaces BY <1>5 DEF ListerPlaces
<1> QED BY <1>1, <1>5, <1>6, <1>7, <1>8, ListerMoves

LEMMA LookAtKeeps == ASSUME SecretsInv, NEW l \in Listers, LookAt(l) PROVE SecretsInv'
<1>1. /\ transfer' = transfer /\ secret' = secret /\ profile' = profile /\ inflight' = inflight
      /\ lent' = lent /\ told' = told /\ owned' \subseteq owned
  BY DEF LookAt
<1>2. CASE agent' = [agent EXCEPT ![l] = Away] BY <1>1, <1>2, ListerEnds
<1>3. ASSUME NEW t \in agent[l].todo,
             agent' = [agent EXCEPT ![l] =
                 [agent[l] EXCEPT !.at = "decide", !.on = t, !.todo = agent[l].todo \ {t},
                                  !.seen = ReadAdoption(t)]]
      PROVE  SecretsInv'
  <2>1. PICK y \in CallerStates : y = agent[l] /\ ListerTells(l) BY AgentIs
  <2>2. y.todo \subseteq Transfers /\ t \in Transfers BY <1>3, <2>1, CallerFields
  <2>3. PICK r \in {"confirmed", "mismatch", "open"} : r = ReadAdoption(t) BY DEF ReadAdoption
  <2>4. PICK x : x = [y EXCEPT !.at = "decide", !.on = t, !.todo = y.todo \ {t}, !.seen = r]
    OBVIOUS
  <2>5. x \in CallerStates /\ x.at = "decide" /\ x.on = t /\ x.todo \subseteq y.todo
    BY <2>2, <2>4 DEF CallerStates, ListerPlaces
  <2>6. agent' = [agent EXCEPT ![l] = x] BY <1>3, <2>1, <2>3, <2>4
  <2>7. Admitted(t) /\ \A u \in x.todo : Admitted(u) BY <1>3, <2>1, <2>5 DEF ListerTells
  <2>8. x.at \in ListerPlaces BY <2>5 DEF ListerPlaces
  <2> QED BY <1>1, <2>2, <2>5, <2>6, <2>7, <2>8, ListerMoves
<1> QED BY <1>2, <1>3 DEF LookAt

LEMMA DecideKeeps == ASSUME SecretsInv, NEW l \in Listers, Decide(l) PROVE SecretsInv'
<1>1. /\ transfer' = transfer /\ secret' = secret /\ profile' = profile /\ inflight' = inflight
      /\ lent' = lent /\ told' = told /\ owned' \subseteq owned /\ agent[l].at = "decide"
  BY DEF Decide, Release
<1>2. PICK t \in Transfers : t = agent[l].on /\ Admitted(t) BY <1>1, AgentIs DEF ListerTells
<1>3. \A u \in agent[l].todo : Admitted(u) BY AgentIs DEF ListerTells
<1>4. CASE agent' = [agent EXCEPT ![l] = Away] BY <1>1, <1>4, ListerEnds
<1>5. CASE Walk(l, "look")
  <2>1. "look" \in ListerPlaces BY DEF ListerPlaces
  <2>2. PICK x \in CallerStates : /\ agent' = [agent EXCEPT ![l] = x] /\ x.at = "look"
                                  /\ x.todo = agent[l].todo
    BY <1>5, <2>1, ListerWalks
  <2> QED BY <1>1, <1>3, <2>1, <2>2, ListerMoves
<1>6. CASE t \notin inflight /\ Walk(l, "begin")
  <2>1. "begin" \in ListerPlaces BY DEF ListerPlaces
  <2>2. PICK x \in CallerStates : /\ agent' = [agent EXCEPT ![l] = x] /\ x.at = "begin"
                                  /\ x.todo = agent[l].todo /\ x.on = agent[l].on
    BY <1>6, <2>1, ListerWalks
  <2>3. agent[t].at = "away" BY <1>6 DEF SecretsInv, SecretsType
  <2>4. Left(t) BY <1>2, <2>3 DEF Left, Admitted
  <2> QED BY <1>1, <1>2, <1>3, <2>1, <2>2, <2>4, ListerMoves
<1> QED BY <1>2, <1>4, <1>5, <1>6 DEF Decide

\* Steps of the profiles table and of a borrower.
LEMMA ProfileSteps ==
    ASSUME SecretsInv, transfer' = transfer, secret' = secret, inflight' = inflight,
           agent' = agent, told' = told, owned' = owned, ProfilesTell', LoanTells',
           lent' \in Loans \cup {NoTransfer}
    PROVE  SecretsInv'
<1>1. SecretsType' BY DEF SecretsInv, SecretsType, ProfilesTell
<1>2. ASSUME NEW t \in Transfers PROVE TransferTells(t)'
  <2>1. TransferTells(t) BY AgentIs
  <2>2. StageTells(t)' /\ FileTells(t)' BY <2>1 DEF TransferTells, StageTells, FileTells
  <2> QED BY <2>1, <2>2 DEF TransferTells, Admitted
<1>3. ASSUME NEW l \in Listers PROVE ListerTells(l)'
  <2>1. ListerTells(l) BY AgentIs
  <2>2. \A t : (Admitted(t) => Admitted(t)') /\ (Left(t) => Left(t)') BY DEF Admitted, Left
  <2> QED BY <2>1, <2>2 DEF ListerTells
<1> QED BY <1>1, <1>2, <1>3 DEF SecretsInv

\* One profile changes to one that names an adopted transfer.
LEMMA ProfileChanges ==
    ASSUME SecretsInv, NEW c \in Connections, NEW z \in Profiles \cup {NoProfile},
           profile' = [profile EXCEPT ![c] = z], transfer' = transfer,
           z # NoProfile => /\ transfer[z.ref] = "adopted"
                            /\ z.by # NoTransfer => z.by = z.ref
    PROVE  ProfilesTell'
<1>1. /\ profile \in [Connections -> Profiles \cup {NoProfile}]
      /\ \A d \in Connections : ProfileTells(d)
  BY DEF SecretsInv, ProfilesTell
<1>2. /\ profile' \in [Connections -> Profiles \cup {NoProfile}] /\ profile'[c] = z
      /\ \A d \in Connections \ {c} : profile'[d] = profile[d]
  BY <1>1
<1>3. ASSUME NEW d \in Connections PROVE ProfileTells(d)'
  <2>1. CASE d = c BY <1>2, <2>1 DEF ProfileTells
  <2>2. CASE d # c BY <1>1, <1>2, <2>2 DEF ProfileTells
  <2> QED BY <2>1, <2>2
<1> QED BY <1>2, <1>3 DEF ProfilesTell

LEMMA DeleteKeeps == ASSUME SecretsInv, NEW c \in Connections, Delete(c) PROVE SecretsInv'
<1>1. /\ transfer' = transfer /\ secret' = secret /\ inflight' = inflight /\ agent' = agent
      /\ told' = told /\ owned' = owned /\ lent' = lent
      /\ profile' = [profile EXCEPT ![c] = NoProfile]
  BY DEF Delete
<1>2. ProfilesTell' BY <1>1, ProfileChanges
<1>3. LoanTells' /\ lent' \in Loans \cup {NoTransfer} BY <1>1 DEF SecretsInv, SecretsType, LoanTells
<1> QED BY <1>1, <1>2, <1>3, ProfileSteps

LEMMA BorrowKeeps ==
    ASSUME SecretsInv, NEW c \in Connections, NEW t \in Transfers, Borrow(c, t) PROVE SecretsInv'
<1>1. /\ transfer' = transfer /\ secret' = secret /\ inflight' = inflight /\ agent' = agent
      /\ told' = told /\ owned' = owned /\ profile' = profile /\ t \in secret
      /\ lent' = [conn |-> c, ref |-> t, was |-> profile[c]]
  BY DEF Borrow
<1>2. ProfilesTell' BY <1>1, ProfilesRest
<1>3. profile[c] \in Profiles \cup {NoProfile} BY DEF SecretsInv, SecretsType
<1>4. lent' \in Loans /\ lent'.ref = t BY <1>1, <1>3 DEF Loans
<1>5. transfer[t] # "none" BY <1>1, WriterAt DEF FileTells
<1>6. LoanTells' BY <1>1, <1>4, <1>5 DEF LoanTells
<1> QED BY <1>1, <1>2, <1>4, <1>6, ProfileSteps

LEMMA WriteBorrowedKeeps == ASSUME SecretsInv, WriteBorrowed PROVE SecretsInv'
<1>1. /\ transfer' = transfer /\ secret' = secret /\ inflight' = inflight /\ agent' = agent
      /\ told' = told /\ owned' = owned /\ lent # NoTransfer /\ lent' = NoTransfer
  BY DEF WriteBorrowed
<1>2. lent \in Loans /\ LoanTells BY <1>1 DEF SecretsInv, SecretsType
<1>3. PICK c \in Connections, t \in Transfers : c = lent.conn /\ t = lent.ref BY <1>2 DEF Loans
<1>4. PICK old \in Profiles \cup {NoProfile} : old = profile[c] BY DEF SecretsInv, SecretsType
<1>5. CASE profile' = profile
  <2>1. ProfilesTell' BY <1>1, <1>5, ProfilesRest
  <2>2. LoanTells' BY <1>1 DEF LoanTells
  <2> QED BY <1>1, <2>1, <2>2, ProfileSteps
<1>6. CASE Borrowable(t) /\ profile' = [profile EXCEPT ![c] =
                IF old = NoProfile THEN [id |-> NoTransfer, ref |-> t, by |-> NoTransfer]
                ELSE [id |-> old.id, ref |-> t,
                      by |-> IF old.ref = t THEN old.by ELSE NoTransfer]]
  <2>1. transfer[t] = "adopted" BY <1>1, <1>2, <1>3, <1>6 DEF Borrowable, LoanTells
  <2>2. old # NoProfile => /\ old.id \in Transfers \cup {NoTransfer}
                           /\ old.by \in Transfers \cup {NoTransfer}
                           /\ (old.by # NoTransfer => old.by = old.ref)
    <3>1. ProfileTells(c) BY DEF SecretsInv, ProfilesTell
    <3> QED BY <1>4, <3>1 DEF ProfileTells, Profiles
  <2>3. PICK b : b = IF old.ref = t THEN old.by ELSE NoTransfer OBVIOUS
  <2>4. PICK z : z = IF old = NoProfile THEN [id |-> NoTransfer, ref |-> t, by |-> NoTransfer]
                     ELSE [id |-> old.id, ref |-> t, by |-> b]
    OBVIOUS
  <2>5. z \in Profiles /\ z.ref = t /\ (z.by # NoTransfer => z.by = t)
    <3>1. CASE old = NoProfile BY <2>4, <3>1 DEF Profiles
    <3>2. CASE old # NoProfile BY <2>2, <2>3, <2>4, <3>2 DEF Profiles
    <3> QED BY <3>1, <3>2
  <2>6. profile' = [profile EXCEPT ![c] = z] BY <1>6, <2>3, <2>4
  <2>7. ProfilesTell' BY <1>1, <2>1, <2>5, <2>6, ProfileChanges
  <2>8. LoanTells' BY <1>1 DEF LoanTells
  <2> QED BY <1>1, <2>7, <2>8, ProfileSteps
<1> QED BY <1>3, <1>4, <1>5, <1>6 DEF WriteBorrowed

LEMMA StopManagerKeeps == ASSUME SecretsInv, StopManager PROVE SecretsInv'
<1>1. /\ transfer' = transfer /\ secret' = secret /\ profile' = profile /\ owned' = {}
      /\ inflight' = {} /\ lent' = NoTransfer /\ agent' = [a \in Agents |-> Away]
      /\ told' = [t \in Transfers |-> IF agent[t].at # "away" THEN "cancelled" ELSE told[t]]
  BY DEF StopManager
<1>2. PICK x \in CallerStates : x = Away /\ x.at = "away" /\ x.todo = {} BY AwayIs
<1>3. agent' \in [Agents -> CallerStates] /\ \A a \in Agents : agent'[a] = x BY <1>1, <1>2
<1>4. told' \in [Transfers -> News]
  <2>1. told \in [Transfers -> News] /\ "cancelled" \in News BY DEF SecretsInv, SecretsType, News
  <2> QED BY <1>1, <2>1
<1>5. inflight' = {t \in Transfers : agent'[t].at # "away"} BY <1>1, <1>2, <1>3, AgentIs
<1>6. SecretsType' BY <1>1, <1>3, <1>4, <1>5 DEF SecretsInv, SecretsType
<1>7. ProfilesTell' /\ LoanTells' BY <1>1, ProfilesRest DEF LoanTells
<1>8. ASSUME NEW t \in Transfers PROVE TransferTells(t)'
  <2>1. agent'[t] = x BY <1>3, AgentIs
  <2>2. told'[t] = IF agent[t].at # "away" THEN "cancelled" ELSE told[t] BY <1>1
  <2>3. TransferTells(t) /\ FileTells(t) BY WriterAt
  <2>4. StageTells(t)' BY <1>2, <2>1 DEF StageTells
  <2>5. FileTells(t)' BY <1>1, <2>2, <2>3 DEF FileTells
  <2>6. t \notin owned' /\ (~Admitted(t)' => transfer'[t] = "none")
    BY <1>1, <1>2, <2>1, <2>2, <2>3 DEF TransferTells, Admitted
  <2> QED BY <1>2, <2>1, <2>4, <2>5, <2>6 DEF TransferTells, WriterPlaces
<1>9. ASSUME NEW l \in Listers PROVE ListerTells(l)'
  <2>1. agent'[l] = x BY <1>3, AgentIs
  <2> QED BY <1>2, <2>1 DEF ListerTells, ListerPlaces
<1> QED BY <1>6, <1>7, <1>8, <1>9 DEF SecretsInv

-----------------------------------------------------------------------------
(* All of it *)

LEMMA SecretsStart == ASSUME SecretsInit PROVE SecretsInv
<1>1. PICK x \in CallerStates : x = Away /\ x.at = "away" /\ x.todo = {} BY AwayIs
<1>2. /\ transfer = [t \in Transfers |-> "none"] /\ secret = {} /\ owned = {} /\ inflight = {}
      /\ profile = [c \in Connections |-> NoProfile] /\ agent = [a \in Agents |-> Away]
      /\ lent = NoTransfer /\ told = [t \in Transfers |-> "nothing"]
  BY DEF SecretsInit
<1>3. agent \in [Agents -> CallerStates] /\ \A a \in Agents : agent[a] = x BY <1>1, <1>2
<1>4. transfer \in [Transfers -> RowStates] /\ told \in [Transfers -> News]
  BY <1>2 DEF RowStates, News
<1>5. inflight = {t \in Transfers : agent[t].at # "away"} BY <1>1, <1>2, <1>3 DEF Agents
<1>6. SecretsType BY <1>2, <1>3, <1>4, <1>5 DEF SecretsType
<1>7. ProfilesTell /\ LoanTells BY <1>2 DEF ProfilesTell, ProfileTells, LoanTells
<1>8. ASSUME NEW t \in Transfers PROVE TransferTells(t)
  <2>1. agent[t] = x /\ transfer[t] = "none" /\ told[t] = "nothing" BY <1>2, <1>3 DEF Agents
  <2>2. StageTells(t) /\ FileTells(t) BY <1>1, <1>2, <2>1 DEF StageTells, FileTells
  <2> QED BY <1>1, <1>2, <2>1, <2>2 DEF TransferTells, WriterPlaces
<1>9. ASSUME NEW l \in Listers PROVE ListerTells(l)
  <2>1. agent[l] = x BY <1>3 DEF Agents
  <2> QED BY <1>1, <2>1 DEF ListerTells, ListerPlaces
<1> QED BY <1>6, <1>7, <1>8, <1>9 DEF SecretsInv

LEMMA SecretsStep == ASSUME SecretsInv, [SecretsNext]_secretVars PROVE SecretsInv'
<1>1. CASE UNCHANGED secretVars BY <1>1, Untouched DEF secretVars
<1>2. ASSUME NEW t \in Transfers,
             \/ Create(t) \/ Reauth(t) \/ CloseTemporary(t) \/ PrepareTransfer(t)
             \/ RecheckPrepared(t) \/ Publish(t) \/ AdoptTransfer(t) \/ Resolve(t) \/ Get(t)
      PROVE  SecretsInv'
  BY <1>2, AdmitKeeps, CloseTemporaryKeeps, PrepareKeeps, RecheckKeeps, PublishKeeps, AdoptKeeps,
     ResolveKeeps, GetKeeps
<1>3. ASSUME NEW a \in Agents, BeginDiscard(a) \/ Unlink(a) \/ FinishDiscard(a) PROVE SecretsInv'
  BY <1>3, BeginDiscardKeeps, UnlinkKeeps, FinishDiscardKeeps
<1>4. ASSUME NEW l \in Listers, BeginList(l) \/ LookAt(l) \/ Decide(l) PROVE SecretsInv'
  BY <1>4, BeginListKeeps, LookAtKeeps, DecideKeeps
<1>5. ASSUME NEW c \in Connections, Delete(c) \/ \E t \in Transfers : Borrow(c, t)
      PROVE  SecretsInv'
  BY <1>5, DeleteKeeps, BorrowKeeps
<1>6. CASE WriteBorrowed \/ StopManager BY <1>6, WriteBorrowedKeeps, StopManagerKeeps
<1>7. CASE SecretsNext BY <1>2, <1>3, <1>4, <1>5, <1>6, <1>7 DEF SecretsNext
<1> QED BY <1>1, <1>7

LEMMA SecretsTold == ASSUME SecretsInv PROVE SecretsTypeOK /\ SecretsAreAccounted
<1>1. SecretsTypeOK BY DEF SecretsInv, SecretsType, SecretsTypeOK, RowStates, News
<1>2. ASSUME NEW c \in Connections, profile[c] # NoProfile
      PROVE  /\ profile[c].ref \in secret
             /\ profile[c].by # NoTransfer =>
                  transfer[profile[c].by] = "adopted" /\ profile[c].by = profile[c].ref
  <2>1. PICK y \in Profiles : y = profile[c] BY <1>2 DEF SecretsInv, SecretsType
  <2>2. y.ref \in Transfers BY DEF Profiles
  <2>3. transfer[y.ref] = "adopted" /\ (y.by # NoTransfer => y.by = y.ref)
    BY <1>2, <2>1 DEF SecretsInv, ProfilesTell, ProfileTells
  <2>4. y.ref \in secret BY <2>2, <2>3, WriterAt DEF FileTells
  <2> QED BY <2>1, <2>3, <2>4
<1>3. ProfileHasItsSecret BY <1>2 DEF ProfileHasItsSecret
<1>4. secret \subseteq Transfers BY DEF SecretsInv, SecretsType
<1>5. FileHasItsRow BY <1>4, WriterAt DEF FileHasItsRow, FileTells
<1>6. OutcomeIsHonest BY WriterAt DEF OutcomeIsHonest, FileTells
<1> QED BY <1>1, <1>3, <1>5, <1>6 DEF SecretsAreAccounted

\* The connection manager, for every set of transfers, connections and listers
\* and any number of failed or cancelled calls and crashes: every profile names
\* a secret file that is there, every file has a row that is not discarded, and
\* what create() and reauth() reported stays true (ConnectionManager's
\* _write_secret_transfer, _discard_owned_transfer and list()).
THEOREM SecretsStayAccounted == SecretsSpec => [](SecretsTypeOK /\ SecretsAreAccounted)
<1>1. SecretsInit => SecretsInv BY SecretsStart
<1>2. SecretsInv /\ [SecretsNext]_secretVars => SecretsInv' BY SecretsStep
<1>3. SecretsInv => SecretsTypeOK /\ SecretsAreAccounted BY SecretsTold
<1> QED BY <1>1, <1>2, <1>3, PTL DEF SecretsSpec

-----------------------------------------------------------------------------
(* Managed adapters.  The invariant says for every place of an operation     *)
(* which object is published, whose transport may be open beside it, and     *)
(* how far row and runtime are apart there.                                  *)

Rows == [saved : BOOLEAN, enabled : BOOLEAN, conf : {"old", "new"}]
Operations == {"none", "activate", "replace", "reconfigure", "disable", "delete"}
Builders == {"activate", "replace", "reconfigure"}
WorkPlaces == {"rest", "clean", "connect", "swap", "enable", "refresh", "detach", "drop",
               "disenable", "restore", "erase"}
Works == [op : Operations, at : WorkPlaces, on : Objects \cup {NoObject}, back : {"old", "new"}]

AdaptersType ==
    /\ entry \in Rows /\ built \in [Objects -> {"none", "old", "new"}]
    /\ link \in [Objects -> {"open", "closed"}] /\ work \in Works
    /\ child \in Objects \cup {NoObject} /\ pump \in Objects \cup {NoObject}
    /\ online \in BOOLEAN /\ listening \in BOOLEAN /\ crossed \in BOOLEAN /\ halfway \in BOOLEAN

\* The places of an operation, and the object it builds.
WorkTells ==
    /\ work.op = "none" <=> work.at = "rest"
    /\ work.op # "none" => entry.saved
    /\ work.op \in Builders => work.on \in Objects /\ built[work.on] = entry.conf
    /\ work.at \in {"clean", "connect"} =>
         /\ work.op \in Builders /\ work.on # child /\ work.on # pump
         /\ link[work.on] = "closed"
    /\ work.op \in {"disable", "delete"} => work.at \in {"detach", "drop", "refresh", "erase"}
    /\ work.at = "swap" => work.op \in {"replace", "reconfigure"} /\ work.on # child
    /\ work.at \in {"swap", "drop"} => child # NoObject
    /\ work.at = "connect" => work.op = "activate" \/ child # NoObject
    /\ work.at \in {"enable", "disenable"} => work.op = "activate"
    /\ work.at \in {"detach", "drop"} => work.op \in {"activate", "disable", "delete"}
    /\ work.at = "erase" => work.op = "delete"
    /\ work.at = "restore" => work.op = "reconfigure"

\* The published object.
ChildTells ==
    /\ work.op = "activate" /\ work.at \in {"clean", "connect", "disenable"} => child = NoObject
    /\ work.op \in Builders /\ work.at \in {"enable", "refresh"} => child = work.on
    /\ work.op = "activate" /\ work.at = "detach" => child # NoObject
    /\ work.op \in {"disable", "delete"} /\ work.at \in {"refresh", "erase"} => child = NoObject
    /\ \A o \in {child, pump} \ {NoObject} : built[o] # "none"
    /\ \A o \in Objects : built[o] = "none" => link[o] = "closed"

\* Transports and pumps.
LinksTell ==
    /\ pump # NoObject => listening
    /\ ~crossed =>
         /\ pump \in {NoObject, child}
         /\ \A o \in Objects : link[o] = "open" =>
               o = child \/ o \in unclean \/ o \in left \/ (work.at = "swap" /\ o = work.on)
         /\ work.at \in {"swap", "drop"} => pump = NoObject
         /\ work.at \notin {"swap", "drop"} => (listening /\ online => pump = child \/ muted = child)
         /\ online => child # NoObject

\* The row and the runtime, where configuration c is what the child was built from.
Agree(c) == (entry.enabled <=> child # NoObject) /\ (child # NoObject => built[child] = c)

RowTells ==
    ~halfway =>
        /\ work.op = "none" => Agree(entry.conf) /\ (child # NoObject => entry.saved)
        /\ work.op = "activate" /\ work.at \in {"clean", "connect", "refresh"} => Agree(entry.conf)
        /\ work.op = "replace" => Agree(entry.conf)
        /\ work.op = "reconfigure" /\ work.at \in {"clean", "connect", "swap", "restore"} =>
              Agree(work.back)
        /\ work.op = "reconfigure" /\ work.at = "refresh" => Agree(entry.conf)
        /\ work.op \in {"disable", "delete"} => ~entry.enabled

AdaptersInv == AdaptersType /\ WorkTells /\ ChildTells /\ LinksTell /\ RowTells

-----------------------------------------------------------------------------
(* Records *)

LEMMA WorkFields ==
    ASSUME NEW w \in Works
    PROVE  /\ w.op \in Operations /\ w.at \in WorkPlaces /\ w.on \in Objects \cup {NoObject}
           /\ w.back \in {"old", "new"}
BY DEF Works

LEMMA EntryFields ==
    ASSUME NEW e \in Rows
    PROVE  e.saved \in BOOLEAN /\ e.enabled \in BOOLEAN /\ e.conf \in {"old", "new"}
BY DEF Rows

LEMMA AdaptersNow ==
    ASSUME AdaptersInv
    PROVE  /\ entry \in Rows /\ built \in [Objects -> {"none", "old", "new"}]
           /\ link \in [Objects -> {"open", "closed"}] /\ work \in Works
           /\ child \in Objects \cup {NoObject} /\ pump \in Objects \cup {NoObject}
           /\ online \in BOOLEAN /\ listening \in BOOLEAN /\ crossed \in BOOLEAN /\ halfway \in BOOLEAN
           /\ WorkTells /\ ChildTells /\ LinksTell /\ RowTells
BY DEF AdaptersInv, AdaptersType

LEMMA OntoIs ==
    ASSUME AdaptersInv, NEW at \in WorkPlaces, Onto(at)
    PROVE  /\ work' \in Works /\ work'.op = work.op /\ work'.at = at /\ work'.on = work.on
           /\ work'.back = work.back
<1>1. PICK w \in Works : w = work BY AdaptersNow
<1>2. PICK x : x = [w EXCEPT !.at = at] OBVIOUS
<1>3. x \in Works /\ x.op = w.op /\ x.at = at /\ x.on = w.on /\ x.back = w.back
  BY <1>2 DEF Works
<1> QED BY <1>1, <1>2, <1>3 DEF Onto

LEMMA RestIs ==
    Rest \in Works /\ Rest.op = "none" /\ Rest.at = "rest" /\ Rest.on = NoObject
BY DEF Rest, Works, Operations, WorkPlaces

LEMMA RowIs ==
    ASSUME AdaptersInv
    PROVE  /\ \A b \in BOOLEAN : LET r == [entry EXCEPT !.enabled = b] IN
                 r \in Rows /\ r.enabled = b /\ r.saved = entry.saved /\ r.conf = entry.conf
           /\ \A c \in {"old", "new"} : LET r == [entry EXCEPT !.conf = c] IN
                 r \in Rows /\ r.enabled = entry.enabled /\ r.saved = entry.saved /\ r.conf = c
           /\ LET r == [entry EXCEPT !.saved = FALSE] IN
                 r \in Rows /\ r.enabled = entry.enabled /\ r.saved = FALSE /\ r.conf = entry.conf
<1>1. PICK e \in Rows : e = entry BY AdaptersNow
<1>2. ASSUME NEW b \in BOOLEAN PROVE LET r == [e EXCEPT !.enabled = b] IN
                 r \in Rows /\ r.enabled = b /\ r.saved = e.saved /\ r.conf = e.conf
  BY DEF Rows
<1>3. ASSUME NEW c \in {"old", "new"} PROVE LET r == [e EXCEPT !.conf = c] IN
                 r \in Rows /\ r.enabled = e.enabled /\ r.saved = e.saved /\ r.conf = c
  BY DEF Rows
<1>4. LET r == [e EXCEPT !.saved = FALSE] IN
                 r \in Rows /\ r.enabled = e.enabled /\ r.saved = FALSE /\ r.conf = e.conf
  BY DEF Rows
<1> QED BY <1>1, <1>2, <1>3, <1>4

-----------------------------------------------------------------------------
(* The subscriber and the pump leave row, child and operation alone *)

\* Their steps open and close the transport of the child or of the pump.
LEMMA SideSteps ==
    ASSUME AdaptersInv, entry' = entry, built' = built, child' = child, work' = work,
           unclean' = unclean, left' = left, halfway' = halfway,
           pump' \in {NoObject, child, pump},
           link' \in [Objects -> {"open", "closed"}],
           \A o \in Objects : link'[o] # link[o] => o # NoObject /\ o \in {child, pump},
           crossed => crossed', crossed' \in BOOLEAN, online' \in BOOLEAN, listening' \in BOOLEAN,
           pump' = child /\ pump # child => work.at \notin {"swap", "drop"} \/ crossed',
           pump' # NoObject => listening',
           ~crossed' /\ work.at \notin {"swap", "drop"} =>
               (listening' /\ online' => pump' = child \/ muted' = child),
           ~crossed' => (online' => child # NoObject)
    PROVE  AdaptersInv'
<1>1. AdaptersType' BY AdaptersNow DEF AdaptersType
<1>2. WorkTells'
  <2>1. work.at \in {"clean", "connect"} => work.on # NoObject /\ link'[work.on] = "closed" /\ pump' # work.on
    BY AdaptersNow, AdaptersAssumption DEF WorkTells
  <2> QED BY <2>1, AdaptersNow DEF WorkTells
<1>3. ChildTells' BY AdaptersNow, AdaptersAssumption DEF ChildTells
<1>4. LinksTell'
  <2>1. ~crossed' => pump' \in {NoObject, child} BY AdaptersNow DEF LinksTell
  <2>2. ASSUME ~crossed', NEW o \in Objects, link'[o] = "open"
        PROVE  o = child \/ o \in unclean \/ o \in left \/ (work.at = "swap" /\ o = work.on)
    <3>1. CASE link'[o] # link[o] BY <2>2, <3>1, AdaptersNow DEF LinksTell
    <3>2. CASE link'[o] = link[o] BY <2>2, <3>2, AdaptersNow DEF LinksTell
    <3> QED BY <3>1, <3>2
  <2>3. ~crossed' /\ work.at \in {"swap", "drop"} => pump' = NoObject
    BY AdaptersNow DEF LinksTell
  <2> QED BY <2>1, <2>2, <2>3 DEF LinksTell
<1>5. RowTells' BY AdaptersNow DEF RowTells, Agree
<1> QED BY <1>1, <1>2, <1>3, <1>4, <1>5 DEF AdaptersInv

LEMMA SubscribeKeeps == ASSUME AdaptersInv, Subscribe PROVE AdaptersInv'
<1>1. /\ entry' = entry /\ built' = built /\ child' = child /\ work' = work /\ link' = link
      /\ unclean' = unclean /\ left' = left /\ halfway' = halfway /\ online' = online
      /\ ~listening /\ listening' = TRUE
      /\ pump' = (IF child # NoObject /\ online THEN child ELSE pump)
      /\ crossed' = (crossed \/ (work.at \in {"swap", "drop"} /\ online))
  BY DEF Subscribe
<1>2. pump = NoObject BY <1>1, AdaptersNow DEF LinksTell
<1>3. pump' \in {NoObject, child, pump} /\ (pump' = child /\ pump # child => online) BY <1>1, <1>2
<1>4. crossed' \in BOOLEAN /\ (crossed => crossed') BY <1>1, AdaptersNow
<1>5. ~crossed' => (online => child # NoObject) BY <1>4, AdaptersNow DEF LinksTell
<1>6. ~crossed' => (online => pump' = child) BY <1>1, <1>5
<1>7. pump' = child /\ pump # child => work.at \notin {"swap", "drop"} \/ crossed' BY <1>1, <1>3
<1> QED BY <1>1, <1>3, <1>4, <1>5, <1>6, <1>7, AdaptersNow, SideSteps

LEMMA UnsubscribeKeeps == ASSUME AdaptersInv, Unsubscribe PROVE AdaptersInv'
<1>1. /\ entry' = entry /\ built' = built /\ child' = child /\ work' = work /\ link' = link
      /\ unclean' = unclean /\ left' = left /\ halfway' = halfway /\ online' = online
      /\ listening' = FALSE /\ pump' = NoObject /\ muted' = muted /\ crossed' = crossed
  BY DEF Unsubscribe
<1>2. ~crossed' => (online => child # NoObject) BY <1>1, AdaptersNow DEF LinksTell
<1>3. ~crossed /\ pump # child => pump = NoObject BY AdaptersNow DEF LinksTell
<1>4. pump' = child /\ pump # child => work.at \notin {"swap", "drop"} \/ crossed'
  BY <1>1, AdaptersNow DEF WorkTells
<1> QED BY <1>1, <1>2, <1>4, AdaptersNow, SideSteps

LEMMA ReconnectSetKeeps == ASSUME AdaptersInv, ReconnectSet PROVE AdaptersInv'
<1>1. /\ entry' = entry /\ built' = built /\ child' = child /\ work' = work /\ pump' = pump
      /\ unclean' = unclean /\ left' = left /\ halfway' = halfway /\ muted' = muted /\ crossed' = crossed
      /\ ~listening /\ listening' = listening /\ child # NoObject /\ online' \in BOOLEAN
  BY DEF ReconnectSet
<1>2. PICK s \in {"open", "closed"} : link' = link \/ link' = [link EXCEPT ![child] = s]
  BY DEF ReconnectSet
<1>3. /\ link' \in [Objects -> {"open", "closed"}]
      /\ \A o \in Objects : link'[o] # link[o] => o # NoObject /\ o \in {child, pump}
  BY <1>1, <1>2, AdaptersNow, AdaptersAssumption
<1>4. pump' # NoObject => listening' BY <1>1, AdaptersNow DEF LinksTell
<1> QED BY <1>1, <1>3, <1>4, AdaptersNow, SideSteps

LEMMA HealthFailsKeeps == ASSUME AdaptersInv, HealthFails PROVE AdaptersInv'
<1>1. /\ entry' = entry /\ built' = built /\ child' = child /\ work' = work /\ link' = link
      /\ unclean' = unclean /\ left' = left /\ halfway' = halfway /\ online' = FALSE
      /\ listening' = listening /\ pump' = pump /\ muted' = muted /\ crossed' = crossed
  BY DEF HealthFails
<1>2. pump' # NoObject => listening' BY <1>1, AdaptersNow DEF LinksTell
<1> QED BY <1>1, <1>2, AdaptersNow, SideSteps

LEMMA StreamFailsKeeps == ASSUME AdaptersInv, StreamFails PROVE AdaptersInv'
<1>1. /\ entry' = entry /\ built' = built /\ child' = child /\ work' = work /\ pump' = pump
      /\ unclean' = unclean /\ left' = left /\ halfway' = halfway /\ muted' = muted /\ crossed' = crossed
      /\ listening' = listening /\ pump # NoObject /\ online' \in {online, FALSE}
      /\ link' \in {link, [link EXCEPT ![pump] = "closed"]}
  BY DEF StreamFails
<1>2. /\ link' \in [Objects -> {"open", "closed"}]
      /\ \A o \in Objects : link'[o] # link[o] => o # NoObject /\ o \in {child, pump}
  BY <1>1, AdaptersNow, AdaptersAssumption
<1>3. /\ pump' # NoObject => listening'
      /\ ~crossed' /\ work.at \notin {"swap", "drop"} =>
           (listening' /\ online' => pump' = child \/ muted' = child)
      /\ ~crossed' => (online' => child # NoObject)
      /\ online' \in BOOLEAN
  BY <1>1, AdaptersNow DEF LinksTell
<1> QED BY <1>1, <1>2, <1>3, AdaptersNow, SideSteps

LEMMA PumpReconnectsKeeps == ASSUME AdaptersInv, PumpReconnects PROVE AdaptersInv'
<1>1. /\ entry' = entry /\ built' = built /\ child' = child /\ work' = work /\ pump' = pump
      /\ unclean' = unclean /\ left' = left /\ halfway' = halfway /\ muted' = muted /\ crossed' = crossed
      /\ listening' = listening /\ pump # NoObject /\ online' = TRUE
      /\ link' = [link EXCEPT ![pump] = "open"]
  BY DEF PumpReconnects
<1>2. /\ link' \in [Objects -> {"open", "closed"}]
      /\ \A o \in Objects : link'[o] # link[o] => o # NoObject /\ o \in {child, pump}
  BY <1>1, AdaptersNow, AdaptersAssumption
<1>3. /\ pump' # NoObject => listening'
      /\ ~crossed' => pump' = child /\ child # NoObject
  BY <1>1, AdaptersNow DEF LinksTell
<1> QED BY <1>1, <1>2, <1>3, AdaptersNow, SideSteps

-----------------------------------------------------------------------------
(* Steps of an operation that touch the row and the operation only *)

LEMMA RowSteps ==
    ASSUME AdaptersInv, link' = link, child' = child, online' = online,
           pump' = pump, listening' = listening, unclean' = unclean, left' = left, muted' = muted,
           crossed' = crossed, entry' \in Rows, work' \in Works, halfway' \in BOOLEAN,
           built' \in [Objects -> {"none", "old", "new"}],
           work.at \notin {"swap", "drop"}, work'.at \notin {"swap", "drop"}
    PROVE  AdaptersType' /\ LinksTell'
<1>1. AdaptersType' BY AdaptersNow DEF AdaptersType
<1>2. LinksTell' BY AdaptersNow DEF LinksTell
<1> QED BY <1>1, <1>2

LEMMA EnableKeeps == ASSUME AdaptersInv, Enable PROVE AdaptersInv'
<1>1. /\ work.at = "enable" /\ built' = built /\ link' = link /\ child' = child
      /\ online' = online /\ pump' = pump /\ listening' = listening /\ unclean' = unclean
      /\ left' = left /\ muted' = muted /\ crossed' = crossed
  BY DEF Enable
<1>2. PICK row : row = [entry EXCEPT !.enabled = TRUE] OBVIOUS
<1>3. row \in Rows /\ row.enabled = TRUE /\ row.saved = entry.saved /\ row.conf = entry.conf
  BY <1>2, RowIs
<1>4. /\ work.op = "activate" /\ entry.saved /\ work.on \in Objects /\ child = work.on
      /\ built[child] = entry.conf /\ child # NoObject
  BY <1>1, AdaptersNow, AdaptersAssumption DEF WorkTells, ChildTells, Builders
<1>5. CASE Wrote(row) /\ Onto("refresh") /\ halfway' = halfway
  <2>1. entry' = row BY <1>5 DEF Wrote
  <2>2. PICK at \in WorkPlaces : at = "refresh" BY DEF WorkPlaces
  <2>3. work' \in Works /\ work'.op = "activate" /\ work'.at = "refresh" /\ work'.on = child
    BY <1>5, <2>2, <1>4, OntoIs
  <2>4. AdaptersType' /\ LinksTell' BY <1>1, <1>3, <2>1, <2>3, <1>5, AdaptersNow, RowSteps
  <2>5. WorkTells' BY <1>1, <1>3, <1>4, <2>1, <2>3, AdaptersNow DEF WorkTells, Builders
  <2>6. ChildTells' BY <1>1, <2>3, AdaptersNow DEF ChildTells
  <2>7. RowTells' BY <1>1, <1>3, <1>4, <2>1, <2>3 DEF RowTells, Agree
  <2> QED BY <2>4, <2>5, <2>6, <2>7 DEF AdaptersInv
<1>6. CASE Unwritten(row) /\ Onto("detach") /\ halfway' = halfway
  <2>1. entry' = row \/ entry' = entry BY <1>6 DEF Unwritten
  <2>0. entry' \in Rows /\ entry'.saved = entry.saved /\ entry'.conf = entry.conf
    BY <2>1, <1>3, AdaptersNow
  <2>2. PICK at \in WorkPlaces : at = "detach" BY DEF WorkPlaces
  <2>3. work' \in Works /\ work'.op = "activate" /\ work'.at = "detach" /\ work'.on = child
    BY <1>6, <2>2, <1>4, OntoIs
  <2>4. AdaptersType' /\ LinksTell' BY <1>1, <2>0, <2>3, <1>6, AdaptersNow, RowSteps
  <2>5. WorkTells' BY <1>1, <1>4, <2>0, <2>3, AdaptersNow DEF WorkTells, Builders
  <2>6. ChildTells' BY <1>1, <1>4, <2>3, AdaptersNow, AdaptersAssumption DEF ChildTells
  <2>7. RowTells' BY <2>3 DEF RowTells
  <2> QED BY <2>4, <2>5, <2>6, <2>7 DEF AdaptersInv
<1>7. CASE Unwritten(row) /\ Break(TRUE)
  <2>1. entry' = row \/ entry' = entry BY <1>7 DEF Unwritten
  <2>0. entry' \in Rows BY <2>1, <1>3, AdaptersNow
  <2>3. work' \in Works /\ work'.op = "none" /\ work'.at = "rest" /\ work'.on = NoObject /\ halfway' = TRUE
    BY <1>7, RestIs, AdaptersNow DEF Break, Finish
  <2>4. AdaptersType' /\ LinksTell' BY <1>1, <2>0, <2>3, AdaptersNow, RowSteps
  <2>5. WorkTells' BY <2>3 DEF WorkTells, Builders
  <2>6. ChildTells' BY <1>1, <2>3, AdaptersNow DEF ChildTells, Builders
  <2>7. RowTells' BY <2>3 DEF RowTells
  <2> QED BY <2>4, <2>5, <2>6, <2>7 DEF AdaptersInv
<1> QED BY <1>2, <1>5, <1>6, <1>7 DEF Enable

\* An operation that ends where row and runtime agree, or that is cut off.
LEMMA RestKeeps ==
    ASSUME AdaptersInv, built' = built, link' = link, child' = child, online' = online,
           pump' = pump, listening' = listening, unclean' = unclean, left' = left, muted' = muted,
           crossed' = crossed, entry' \in Rows, Finish, halfway' \in BOOLEAN,
           work.at \notin {"swap", "drop"},
           halfway' \/ (/\ entry'.enabled <=> child # NoObject
                        /\ child # NoObject => entry'.saved /\ built[child] = entry'.conf)
    PROVE  AdaptersInv'
<1>1. work' \in Works /\ work'.op = "none" /\ work'.at = "rest" /\ work'.on = NoObject
  BY RestIs DEF Finish
<1>2. AdaptersType' /\ LinksTell' BY <1>1, AdaptersNow, RowSteps
<1>3. WorkTells' BY <1>1 DEF WorkTells, Builders
<1>4. ChildTells' BY <1>1, AdaptersNow DEF ChildTells, Builders
<1>5. RowTells' BY <1>1 DEF RowTells, Agree
<1> QED BY <1>2, <1>3, <1>4, <1>5 DEF AdaptersInv

LEMMA SettledKeeps ==
    ASSUME AdaptersInv, NEW row \in Rows, Settled(row), work.at \notin {"swap", "drop"},
           halfway \/ (/\ row.enabled <=> child # NoObject
                       /\ child # NoObject => row.saved /\ built[child] = row.conf)
    PROVE  AdaptersInv'
<1>1. /\ built' = built /\ link' = link /\ child' = child /\ online' = online
      /\ pump' = pump /\ listening' = listening /\ unclean' = unclean /\ left' = left
      /\ muted' = muted /\ crossed' = crossed
  BY DEF Settled
<1>2. CASE Wrote(row) /\ Finish /\ halfway' = halfway
  BY <1>1, <1>2, AdaptersNow, RestKeeps DEF Wrote
<1>3. CASE Unwritten(row) /\ Break(TRUE)
  <2>1. entry' \in Rows /\ Finish /\ halfway' = TRUE BY <1>3, AdaptersNow DEF Unwritten, Break
  <2> QED BY <1>1, <2>1, RestKeeps
<1> QED BY <1>2, <1>3 DEF Settled

LEMMA DisenableKeeps == ASSUME AdaptersInv, Disenable PROVE AdaptersInv'
<1>1. PICK row : row = [entry EXCEPT !.enabled = FALSE] OBVIOUS
<1>2. row \in Rows /\ row.enabled = FALSE BY <1>1, RowIs
<1>3. work.at = "disenable" /\ Settled(row) BY <1>1 DEF Disenable
<1>4. child = NoObject BY <1>3, AdaptersNow DEF WorkTells, ChildTells
<1> QED BY <1>2, <1>3, <1>4, SettledKeeps

LEMMA RestoreKeeps == ASSUME AdaptersInv, Restore PROVE AdaptersInv'
<1>1. PICK row : row = [entry EXCEPT !.conf = work.back] OBVIOUS
<1>2. row \in Rows /\ row.conf = work.back /\ row.enabled = entry.enabled /\ row.saved = entry.saved
  BY <1>1, RowIs, WorkFields, AdaptersNow
<1>3. work.at = "restore" /\ Settled(row) BY <1>1 DEF Restore
<1>4. work.op = "reconfigure" /\ entry.saved BY <1>3, AdaptersNow DEF WorkTells
<1>5. ~halfway => Agree(work.back) BY <1>3, <1>4, AdaptersNow DEF RowTells
<1> QED BY <1>2, <1>3, <1>4, <1>5, SettledKeeps DEF Agree

LEMMA EraseKeeps == ASSUME AdaptersInv, Erase PROVE AdaptersInv'
<1>1. PICK row : row = [entry EXCEPT !.saved = FALSE] OBVIOUS
<1>2. row \in Rows /\ row.enabled = entry.enabled BY <1>1, RowIs
<1>3. work.at = "erase" /\ Settled(row) BY <1>1 DEF Erase
<1>4. work.op = "delete" /\ child = NoObject BY <1>3, AdaptersNow DEF WorkTells, ChildTells
<1>5. halfway \/ ~entry.enabled BY <1>4, AdaptersNow DEF RowTells
<1> QED BY <1>2, <1>3, <1>4, <1>5, SettledKeeps

LEMMA RefreshKeeps == ASSUME AdaptersInv, Refresh PROVE AdaptersInv'
<1>1. /\ work.at = "refresh" /\ built' = built /\ link' = link /\ child' = child
      /\ online' = online /\ pump' = pump /\ listening' = listening /\ unclean' = unclean
      /\ left' = left /\ muted' = muted /\ crossed' = crossed /\ entry' = entry
  BY DEF Refresh
<1>2. /\ work.op # "none" /\ entry.saved
      /\ work.op \in Builders => child = work.on /\ work.on \in Objects /\ built[work.on] = entry.conf
      /\ work.op \in {"disable", "delete"} => child = NoObject
      /\ work.op \in Operations
  BY <1>1, AdaptersNow, WorkFields DEF WorkTells, ChildTells, Builders
<1>3. halfway \/ (/\ entry.enabled <=> child # NoObject
                  /\ child # NoObject => entry.saved /\ built[child] = entry.conf)
  BY <1>1, <1>2, AdaptersNow DEF RowTells, Agree, Builders, Operations
<1>4. CASE Finish /\ halfway' = halfway BY <1>1, <1>3, <1>4, AdaptersNow, RestKeeps
<1>5. CASE Break(FALSE)
  <2>1. Finish /\ halfway' = halfway BY <1>5, AdaptersNow DEF Break
  <2> QED BY <1>4, <2>1
<1>6. CASE work.op = "delete" /\ Onto("erase") /\ halfway' = halfway
  <2>1. PICK at \in WorkPlaces : at = "erase" BY DEF WorkPlaces
  <2>2. work' \in Works /\ work'.op = "delete" /\ work'.at = "erase" BY <1>6, <2>1, OntoIs
  <2>4. AdaptersType' /\ LinksTell' BY <1>1, <2>2, <1>6, AdaptersNow, RowSteps
  <2>5. WorkTells' BY <1>1, <1>2, <2>2 DEF WorkTells, Builders
  <2>6. ChildTells' BY <1>1, <1>2, <1>6, <2>2, AdaptersNow DEF ChildTells, Builders
  <2>7. RowTells' BY <1>1, <1>6, <2>2, AdaptersNow DEF RowTells
  <2> QED BY <2>4, <2>5, <2>6, <2>7 DEF AdaptersInv
<1>7. CASE work.op = "activate" /\ Onto("detach") /\ halfway' = halfway
  <2>1. PICK at \in WorkPlaces : at = "detach" BY DEF WorkPlaces
  <2>2. work' \in Works /\ work'.op = "activate" /\ work'.at = "detach" /\ work'.on = work.on
    BY <1>7, <2>1, OntoIs
  <2>4. AdaptersType' /\ LinksTell' BY <1>1, <2>2, <1>7, AdaptersNow, RowSteps
  <2>5. WorkTells' BY <1>1, <1>2, <1>7, <2>2 DEF WorkTells, Builders
  <2>6. ChildTells' BY <1>1, <1>2, <1>7, <2>2, AdaptersNow, AdaptersAssumption DEF ChildTells, Builders
  <2>7. RowTells' BY <2>2 DEF RowTells
  <2> QED BY <2>4, <2>5, <2>6, <2>7 DEF AdaptersInv
<1>8. CASE Reconfiguring /\ Onto("restore") /\ halfway' = TRUE
  <2>1. PICK at \in WorkPlaces : at = "restore" BY DEF WorkPlaces
  <2>2. work' \in Works /\ work'.op = "reconfigure" /\ work'.at = "restore" /\ work'.on = work.on
    BY <1>8, <2>1, OntoIs DEF Reconfiguring
  <2>3. work.op = "reconfigure" BY <1>8 DEF Reconfiguring
  <2>4. AdaptersType' /\ LinksTell' BY <1>1, <2>2, <1>8, AdaptersNow, RowSteps
  <2>5. WorkTells' BY <1>1, <1>2, <2>2, <2>3 DEF WorkTells, Builders
  <2>6. ChildTells' BY <1>1, <2>2, AdaptersNow DEF ChildTells, Builders
  <2>7. RowTells' BY <1>8 DEF RowTells
  <2> QED BY <2>4, <2>5, <2>6, <2>7 DEF AdaptersInv
<1> QED BY <1>4, <1>5, <1>6, <1>7, <1>8 DEF Refresh

-----------------------------------------------------------------------------
(* How an operation begins *)

LEMMA RemovalIs ==
    ASSUME NEW op \in Operations, NEW at \in WorkPlaces
    PROVE  LET w == [Rest EXCEPT !.op = op, !.at = at] IN
             w \in Works /\ w.op = op /\ w.at = at
<1>1. PICK r \in Works : r = Rest BY RestIs
<1>2. LET w == [r EXCEPT !.op = op, !.at = at] IN w \in Works /\ w.op = op /\ w.at = at BY DEF Works
<1> QED BY <1>1, <1>2

LEMMA RestingNow ==
    ASSUME AdaptersInv, AtRest
    PROVE  /\ work.op = "none" /\ work.at = "rest" /\ entry.saved
           /\ ~halfway => Agree(entry.conf)
BY AdaptersNow DEF AtRest, WorkTells, RowTells

LEMMA DisableKeeps ==
    ASSUME AdaptersInv, NEW op \in {"disable", "delete"}, Disable(op)
    PROVE  AdaptersInv'
<1>1. /\ AtRest /\ built' = built /\ link' = link /\ child' = child
      /\ online' = online /\ pump' = pump /\ listening' = listening /\ unclean' = unclean
      /\ left' = left /\ muted' = muted /\ crossed' = crossed
  BY DEF Disable
<1>2. PICK row : row = [entry EXCEPT !.enabled = FALSE] OBVIOUS
<1>3. row \in Rows /\ row.enabled = FALSE /\ row.saved = entry.saved /\ row.conf = entry.conf
  BY <1>2, RowIs
<1>4. PICK detach \in WorkPlaces : detach = "detach" BY DEF WorkPlaces
<1>5. PICK erase \in WorkPlaces : erase = "erase" BY DEF WorkPlaces
<1>6. op \in Operations BY DEF Operations
<1>7. ASSUME NEW at \in {"detach", "erase"}, work' = [Rest EXCEPT !.op = op, !.at = at],
             entry' \in Rows, entry'.saved, halfway' = halfway, halfway \/ ~entry'.enabled,
             at = "erase" => op = "delete" /\ child = NoObject
      PROVE  AdaptersInv'
  <2>0. at \in WorkPlaces BY DEF WorkPlaces
  <2>1. work' \in Works /\ work'.op = op /\ work'.at = at BY <1>6, <1>7, <2>0, RemovalIs
  <2>2. work.at = "rest" BY <1>1, RestingNow
  <2>4. AdaptersType' /\ LinksTell' BY <1>1, <1>7, <2>1, <2>2, AdaptersNow, RowSteps
  <2>5. WorkTells' BY <1>1, <1>7, <2>1 DEF WorkTells, Builders
  <2>6. ChildTells' BY <1>1, <1>7, <2>1, AdaptersNow DEF ChildTells, Builders
  <2>7. RowTells' BY <1>7, <2>1, AdaptersNow DEF RowTells
  <2> QED BY <2>4, <2>5, <2>6, <2>7 DEF AdaptersInv
<1>8. CASE Wrote(row) /\ work' = [Rest EXCEPT !.op = op, !.at = "detach"] /\ halfway' = halfway
  <2>1. entry' = row BY <1>8 DEF Wrote
  <2> QED BY <1>1, <1>3, <1>7, <1>8, <2>1, RestingNow
<1>9. CASE Unwritten(row) /\ halfway' = TRUE /\ work' = work
  <2>1. entry' \in Rows BY <1>3, <1>9, AdaptersNow DEF Unwritten
  <2>2. work.op = "none" /\ work.at = "rest" BY <1>1, RestingNow
  <2>4. AdaptersType' /\ LinksTell' BY <1>1, <1>9, <2>1, <2>2, AdaptersNow, RowSteps
  <2>5. WorkTells' BY <1>9, <2>2 DEF WorkTells, Builders
  <2>6. ChildTells' BY <1>1, <1>9, AdaptersNow DEF ChildTells, Builders
  <2>7. RowTells' BY <1>9 DEF RowTells
  <2> QED BY <2>4, <2>5, <2>6, <2>7 DEF AdaptersInv
<1>10. CASE /\ ~entry.enabled /\ entry' = entry /\ halfway' = halfway
            /\ \/ child # NoObject /\ work' = [Rest EXCEPT !.op = op, !.at = "detach"]
               \/ child = NoObject /\ op = "delete" /\ work' = [Rest EXCEPT !.op = op, !.at = "erase"]
  BY <1>1, <1>7, <1>10, AdaptersNow, RestingNow
<1> QED BY <1>2, <1>8, <1>9, <1>10 DEF Disable

\* A fresh object has no place yet and its transport is closed.
LEMMA BuildKeeps ==
    ASSUME AdaptersInv, AtRest, NEW op \in Builders, NEW conf \in {"old", "new"},
           NEW back \in {"old", "new"}, Build(op, conf, back),
           link' = link, child' = child, online' = online, pump' = pump,
           listening' = listening, unclean' = unclean, left' = left, muted' = muted,
           crossed' = crossed,
           entry' \in Rows, entry'.saved, entry'.conf = conf, entry'.enabled = entry.enabled,
           back = entry.conf, halfway' = halfway, op # "reconfigure" => conf = entry.conf,
           op = "activate" => child = NoObject
    PROVE  AdaptersInv'
<1>1. PICK o \in Unbuilt : /\ built' = [built EXCEPT ![o] = conf]
                           /\ work' = [op |-> op, at |-> "clean", on |-> o, back |-> back]
  BY DEF Build
<1>2. o \in Objects /\ built[o] = "none" BY DEF Unbuilt
<1>3. /\ work' \in Works /\ work'.op = op /\ work'.at = "clean" /\ work'.on = o /\ work'.back = back
  BY <1>1, <1>2 DEF Works, Operations, WorkPlaces, Builders
<1>4. work.op = "none" /\ work.at = "rest" /\ (~halfway => Agree(entry.conf)) BY RestingNow
<1>5. /\ built' \in [Objects -> {"none", "old", "new"}] /\ built'[o] = conf
      /\ \A x \in Objects : x # o => built'[x] = built[x]
  BY <1>1, <1>2, AdaptersNow
<1>6. /\ o # NoObject /\ o # child /\ o # pump /\ link[o] = "closed"
  BY <1>2, AdaptersNow, AdaptersAssumption DEF ChildTells
<1>7. AdaptersType' /\ LinksTell' BY <1>3, <1>4, <1>5, AdaptersNow, RowSteps
<1>8. WorkTells' BY <1>2, <1>3, <1>5, <1>6, AdaptersNow DEF WorkTells, Builders
<1>9. ChildTells'
  <2>1. \A x \in {child, pump} \ {NoObject} : built'[x] # "none"
    BY <1>5, <1>6, AdaptersNow DEF ChildTells
  <2>2. \A x \in Objects : built'[x] = "none" => link[x] = "closed"
    BY <1>5, <1>6, AdaptersNow DEF ChildTells
  <2> QED BY <1>3, <2>1, <2>2 DEF ChildTells, Builders
<1>10. RowTells'
  <2>1. child # NoObject => built'[child] = built[child] BY <1>5, <1>6, AdaptersNow
  <2>2. ~halfway => Agree(entry.conf)' \/ op = "reconfigure"
    <3>1. SUFFICES ASSUME ~halfway, op # "reconfigure" PROVE Agree(entry.conf)' OBVIOUS
    <3> QED BY <3>1, <1>4, <2>1 DEF Agree
  <2>3. ~halfway => Agree(work.back)' BY <1>3, <1>4, <2>1 DEF Agree
  <2> QED BY <1>3, <2>2, <2>3 DEF RowTells, Builders
<1> QED BY <1>7, <1>8, <1>9, <1>10 DEF AdaptersInv

LEMMA ReplaceKeeps == ASSUME AdaptersInv, Replace PROVE AdaptersInv'
<1>1. PICK op \in Builders : op = "replace" BY DEF Builders
<1>2. PICK conf \in {"old", "new"} : conf = entry.conf BY EntryFields, AdaptersNow
<1>3. /\ AtRest /\ Build(op, conf, conf) /\ entry' = entry /\ link' = link /\ child' = child
      /\ online' = online /\ pump' = pump /\ listening' = listening /\ unclean' = unclean
      /\ left' = left /\ muted' = muted /\ crossed' = crossed /\ halfway' = halfway
  BY <1>1, <1>2 DEF Replace
<1> QED BY <1>1, <1>2, <1>3, AdaptersNow, RestingNow, BuildKeeps

\* A row is written while nothing is under way.
LEMMA RowWritten ==
    ASSUME AdaptersInv, AtRest, built' = built, work' = work,
           link' = link, child' = child, online' = online, pump' = pump,
           listening' = listening, unclean' = unclean, left' = left, muted' = muted,
           crossed' = crossed,
           entry' \in Rows, halfway' \in BOOLEAN,
           ~halfway' => (/\ entry'.enabled <=> child # NoObject
                         /\ child # NoObject => entry'.saved /\ built[child] = entry'.conf)
    PROVE  AdaptersInv'
<1>1. work.op = "none" /\ work.at = "rest" BY RestingNow
<1>2. AdaptersType' /\ LinksTell' BY <1>1, AdaptersNow, RowSteps
<1>3. WorkTells' BY <1>1 DEF WorkTells, Builders
<1>4. ChildTells' BY <1>1, AdaptersNow DEF ChildTells, Builders
<1>5. RowTells' BY <1>1 DEF RowTells, Agree
<1> QED BY <1>2, <1>3, <1>4, <1>5 DEF AdaptersInv

LEMMA ActivateKeeps == ASSUME AdaptersInv, Activate PROVE AdaptersInv'
<1>1. PICK op \in Builders : op = "activate" BY DEF Builders
<1>2. PICK conf \in {"old", "new"} : conf = entry.conf BY EntryFields, AdaptersNow
<1>3. /\ AtRest /\ link' = link /\ child' = child
      /\ online' = online /\ pump' = pump /\ listening' = listening /\ unclean' = unclean
      /\ left' = left /\ muted' = muted /\ crossed' = crossed
  BY DEF Activate
<1>4. CASE child = NoObject /\ Build(op, conf, conf) /\ entry' = entry /\ halfway' = halfway
  BY <1>1, <1>2, <1>3, <1>4, AdaptersNow, RestingNow, BuildKeeps
<1>5. PICK row : row = [entry EXCEPT !.enabled = TRUE] OBVIOUS
<1>6. row \in Rows /\ row.enabled = TRUE /\ row.saved = entry.saved /\ row.conf = entry.conf
  BY <1>5, RowIs
<1>7. CASE child # NoObject /\ built' = built /\ work' = work /\ Wrote(row) /\ halfway' = halfway
  <2>1. entry' = row BY <1>7 DEF Wrote
  <2>2. ~halfway => built[child] = entry.conf BY <1>3, <1>7, RestingNow DEF Agree
  <2>3. entry.saved BY <1>3, RestingNow
  <2> QED BY <1>3, <1>6, <1>7, <2>1, <2>2, <2>3, AdaptersNow, RowWritten
<1>8. CASE built' = built /\ work' = work /\ Unwritten(row) /\ halfway' = TRUE
  <2>1. entry' \in Rows BY <1>6, <1>8, AdaptersNow DEF Unwritten
  <2> QED BY <1>3, <1>8, <2>1, AdaptersNow, RowWritten
<1> QED BY <1>1, <1>2, <1>4, <1>5, <1>7, <1>8 DEF Activate

LEMMA ReconfigureKeeps ==
    ASSUME AdaptersInv, NEW conf \in {"old", "new"}, Reconfigure(conf) PROVE AdaptersInv'
<1>1. PICK op \in Builders : op = "reconfigure" BY DEF Builders
<1>2. PICK back \in {"old", "new"} : back = entry.conf BY EntryFields, AdaptersNow
<1>3. /\ AtRest /\ link' = link /\ child' = child
      /\ online' = online /\ pump' = pump /\ listening' = listening /\ unclean' = unclean
      /\ left' = left /\ muted' = muted /\ crossed' = crossed
  BY DEF Reconfigure
<1>5. PICK row : row = [entry EXCEPT !.conf = conf] OBVIOUS
<1>6. row \in Rows /\ row.enabled = entry.enabled /\ row.saved = entry.saved /\ row.conf = conf
  BY <1>5, RowIs
<1>7. CASE Wrote(row) /\ entry.enabled /\ Build(op, conf, back) /\ halfway' = halfway
  <2>1. entry' = row /\ entry.saved BY <1>3, <1>7, RestingNow DEF Wrote
  <2> QED BY <1>1, <1>2, <1>3, <1>6, <1>7, <2>1, BuildKeeps
<1>8. CASE Wrote(row) /\ ~entry.enabled /\ built' = built /\ work' = work /\ halfway' = halfway
  <2>1. entry' = row BY <1>8 DEF Wrote
  <2>2. ~halfway => child = NoObject BY <1>3, <1>8, RestingNow DEF Agree
  <2> QED BY <1>3, <1>6, <1>8, <2>1, <2>2, AdaptersNow, RowWritten
<1>9. CASE built' = built /\ work' = work /\ Unwritten(row) /\ halfway' = TRUE
  <2>1. entry' \in Rows BY <1>6, <1>9, AdaptersNow DEF Unwritten
  <2> QED BY <1>3, <1>9, <2>1, AdaptersNow, RowWritten
<1> QED BY <1>1, <1>2, <1>5, <1>7, <1>8, <1>9 DEF Reconfigure

-----------------------------------------------------------------------------
(* attach and replace *)

LEMMA RefusedIs ==
    ASSUME AdaptersInv, Refused, work.op \in Builders
    PROVE  /\ work' \in Works
           /\ \/ /\ work.op = "activate" /\ work'.op = "activate" /\ work'.at = "disenable"
                 /\ work'.on = work.on
              \/ /\ work.op = "reconfigure" /\ work'.op = "reconfigure" /\ work'.at = "restore"
                 /\ work'.on = work.on /\ work'.back = work.back
              \/ work.op = "replace" /\ work' = Rest
<1>1. PICK d \in WorkPlaces : d = "disenable" BY DEF WorkPlaces
<1>2. PICK r \in WorkPlaces : r = "restore" BY DEF WorkPlaces
<1>3. CASE work.op = "activate"
  <2>1. Onto(d) BY <1>1, <1>3 DEF Refused, Onto
  <2> QED BY <1>1, <1>3, <2>1, OntoIs
<1>4. CASE work.op = "reconfigure"
  <2>1. Onto(r) BY <1>2, <1>4 DEF Refused, Onto
  <2> QED BY <1>2, <1>4, <2>1, OntoIs
<1>5. CASE work.op = "replace" BY <1>5, RestIs DEF Refused
<1> QED BY <1>3, <1>4, <1>5 DEF Builders

\* An operation that ends, or turns back, before it has published its object.
LEMMA TurnedBack ==
    ASSUME AdaptersInv, work.at \in {"clean", "connect"},
           entry' = entry, built' = built, child' = child, pump' = pump, listening' = listening,
           left' = left, muted' = muted, crossed' = crossed, online' \in {online, FALSE},
           link' \in [Objects -> {"open", "closed"}],
           \A o \in Objects : link'[o] = "open" =>
                o \in unclean' \/ (link[o] = "open" /\ o \notin unclean),
           \A o \in Objects : built[o] = "none" => link'[o] = "closed",
           (Refused /\ halfway' = halfway) \/ Break(Reconfiguring)
    PROVE  AdaptersInv'
<1>1. /\ work.op \in Builders /\ entry.saved /\ work.on \in Objects
      /\ built[work.on] = entry.conf
      /\ work.op = "activate" => child = NoObject
  BY AdaptersNow DEF WorkTells, ChildTells, Builders
<1>2. /\ ~halfway /\ work.op # "reconfigure" => Agree(entry.conf)
      /\ ~halfway /\ work.op = "reconfigure" => Agree(work.back)
  BY <1>1, AdaptersNow DEF RowTells, Builders
<1>3. ASSUME work' \in Works, halfway' \in BOOLEAN, work'.at \notin {"swap", "drop"}
      PROVE  AdaptersType' /\ LinksTell'
  <2>1. AdaptersType' BY <1>3, AdaptersNow DEF AdaptersType
  <2>2. LinksTell'
    <3>1. ASSUME ~crossed, NEW o \in Objects, link'[o] = "open"
          PROVE  o = child \/ o \in unclean' \/ o \in left
      BY <3>1, AdaptersNow DEF LinksTell
    <3>2. /\ pump # NoObject => listening
          /\ ~crossed => /\ pump \in {NoObject, child} /\ (listening /\ online => pump = child \/ muted = child)
                         /\ online => child # NoObject
      BY AdaptersNow DEF LinksTell
    <3>3. online' => online OBVIOUS
    <3> QED BY <1>3, <3>1, <3>2, <3>3 DEF LinksTell
  <2> QED BY <2>1, <2>2
<1>4. \A o \in {child, pump} \ {NoObject} : built[o] # "none" BY AdaptersNow DEF ChildTells
<1>5. CASE work' = Rest /\ halfway' \in BOOLEAN /\ (halfway' \/ (~halfway /\ work.op # "reconfigure"))
  <2>1. work' \in Works /\ work'.op = "none" /\ work'.at = "rest" BY <1>5, RestIs
  <2>2. WorkTells' BY <2>1 DEF WorkTells, Builders
  <2>3. ChildTells' BY <1>4, <2>1 DEF ChildTells, Builders
  <2>4. RowTells' BY <1>1, <1>2, <1>5, <2>1 DEF RowTells, Agree
  <2> QED BY <1>3, <1>5, <2>1, <2>2, <2>3, <2>4 DEF AdaptersInv
<1>6. CASE Refused /\ halfway' = halfway
  <2>1. CASE work.op = "replace" /\ work' = Rest
    BY <1>5, <2>1, <1>6, AdaptersNow
  <2>2. CASE /\ work' \in Works /\ work.op = "activate" /\ work'.op = "activate" /\ work'.at = "disenable"
             /\ work'.on = work.on
    <3>2. WorkTells' BY <1>1, <2>2 DEF WorkTells, Builders
    <3>3. ChildTells' BY <1>1, <1>4, <2>2 DEF ChildTells, Builders
    <3>4. RowTells' BY <2>2 DEF RowTells
    <3> QED BY <1>3, <1>6, <2>2, <3>2, <3>3, <3>4, AdaptersNow DEF AdaptersInv
  <2>3. CASE /\ work' \in Works /\ work.op = "reconfigure" /\ work'.op = "reconfigure"
             /\ work'.at = "restore" /\ work'.on = work.on /\ work'.back = work.back
    <3>2. WorkTells' BY <1>1, <2>3 DEF WorkTells, Builders
    <3>3. ChildTells' BY <1>1, <1>4, <2>3 DEF ChildTells, Builders
    <3>4. RowTells' BY <1>2, <1>6, <2>3 DEF RowTells, Agree
    <3> QED BY <1>3, <1>6, <2>3, <3>2, <3>3, <3>4, AdaptersNow DEF AdaptersInv
  <2> QED BY <1>1, <1>6, <2>1, <2>2, <2>3, RefusedIs
<1>7. CASE Break(Reconfiguring)
  <2>1. work' = Rest /\ halfway' = (halfway \/ work.op = "reconfigure")
    BY <1>7 DEF Break, Finish, Reconfiguring
  <2> QED BY <1>5, <2>1, AdaptersNow
<1> QED BY <1>6, <1>7

LEMMA CleanKeeps == ASSUME AdaptersInv, Clean PROVE AdaptersInv'
<1>1. /\ work.at = "clean" /\ entry' = entry /\ built' = built /\ child' = child
      /\ online' = online /\ pump' = pump /\ listening' = listening /\ left' = left
      /\ muted' = muted /\ crossed' = crossed
  BY DEF Clean
<1>2. PICK still \in SUBSET unclean :
        /\ unclean' = still
        /\ link' = [o \in Objects |-> IF o \in unclean \ still THEN "closed" ELSE link[o]]
        /\ \/ /\ still = {}
              /\ IF work.op = "activate" \/ child # NoObject THEN Onto("connect") ELSE Refused
              /\ halfway' = halfway
           \/ Refused /\ halfway' = halfway
           \/ Break(Reconfiguring)
  BY DEF Clean
<1>3. /\ link' \in [Objects -> {"open", "closed"}]
      /\ \A o \in Objects : link'[o] = "open" =>
             link[o] = "open" /\ (o \in unclean' \/ o \notin unclean)
      /\ \A o \in Objects : link[o] = "closed" => link'[o] = "closed"
  BY <1>2, AdaptersNow
<1>4. \A o \in Objects : built[o] = "none" => link'[o] = "closed"
  BY <1>3, AdaptersNow DEF ChildTells
<1>5. CASE (Refused /\ halfway' = halfway) \/ Break(Reconfiguring)
  BY <1>1, <1>3, <1>4, <1>5, AdaptersNow, TurnedBack
<1>6. CASE Onto("connect") /\ halfway' = halfway /\ (work.op = "activate" \/ child # NoObject)
  <2>1. PICK at \in WorkPlaces : at = "connect" BY DEF WorkPlaces
  <2>2. work' \in Works /\ work'.op = work.op /\ work'.at = "connect" /\ work'.on = work.on
        /\ work'.back = work.back
    BY <1>6, <2>1, OntoIs
  <2>3. AdaptersType' BY <1>1, <1>3, <1>6, <2>2, AdaptersNow DEF AdaptersType
  <2>4. WorkTells' BY <1>1, <1>3, <1>6, <2>2, AdaptersNow DEF WorkTells, Builders
  <2>5. ChildTells' BY <1>1, <1>4, <2>2, AdaptersNow DEF ChildTells, Builders
  <2>6. LinksTell'
    <3>1. ASSUME ~crossed, NEW o \in Objects, link'[o] = "open"
          PROVE  o = child \/ o \in unclean' \/ o \in left
      BY <1>1, <1>3, <3>1, AdaptersNow DEF LinksTell
    <3>2. /\ pump # NoObject => listening
          /\ ~crossed => /\ pump \in {NoObject, child} /\ (listening /\ online => pump = child \/ muted = child)
                         /\ online => child # NoObject
      BY <1>1, AdaptersNow DEF LinksTell
    <3> QED BY <1>1, <2>2, <3>1, <3>2 DEF LinksTell
  <2>7. RowTells' BY <1>1, <1>6, <2>2, AdaptersNow DEF RowTells, Agree, WorkTells, Builders
  <2> QED BY <2>3, <2>4, <2>5, <2>6, <2>7 DEF AdaptersInv
<1> QED BY <1>2, <1>5, <1>6

\* A discarded object is closed, or it is on the cleanup list.
LEMMA DiscardIs ==
    ASSUME AdaptersInv, NEW o \in Objects, DiscardUnpublished(o)
    PROVE  /\ link' \in [Objects -> {"open", "closed"}]
           /\ \A x \in Objects : x # o => link'[x] = link[x] /\ (x \in unclean' <=> x \in unclean)
           /\ link'[o] = "closed" \/ o \in unclean'
<1>1. PICK clean \in BOOLEAN, s \in {"open", "closed"} :
        /\ unclean' = UncleanAfter(o, clean) /\ link' = [link EXCEPT ![o] = s]
        /\ clean => s = "closed"
  BY DEF DiscardUnpublished
<1> QED BY <1>1, AdaptersNow DEF UncleanAfter

LEMMA ConnectFailsKeeps == ASSUME AdaptersInv, ConnectFails PROVE AdaptersInv'
<1>1. /\ work.at = "connect" /\ entry' = entry /\ built' = built /\ child' = child
      /\ online' = FALSE /\ pump' = pump /\ listening' = listening /\ left' = left
      /\ muted' = muted /\ crossed' = crossed /\ halfway' = halfway /\ Refused /\ DiscardUnpublished(work.on)
  BY DEF ConnectFails
<1>2. work.on \in Objects /\ built[work.on] = entry.conf /\ entry.conf # "none"
  BY <1>1, AdaptersNow, EntryFields DEF WorkTells
<1>3. /\ link' \in [Objects -> {"open", "closed"}]
      /\ \A x \in Objects : x # work.on => link'[x] = link[x] /\ (x \in unclean' <=> x \in unclean)
      /\ link'[work.on] = "closed" \/ work.on \in unclean'
  BY <1>1, <1>2, DiscardIs
<1>4. \A o \in Objects : link'[o] = "open" =>
                o \in unclean' \/ (link[o] = "open" /\ o \notin unclean)
  BY <1>3
<1>5. \A o \in Objects : built[o] = "none" => link'[o] = "closed"
  BY <1>2, <1>3, AdaptersNow DEF ChildTells
<1> QED BY <1>1, <1>3, <1>4, <1>5, TurnedBack

LEMMA ConnectCancelledKeeps == ASSUME AdaptersInv, ConnectCancelled PROVE AdaptersInv'
<1>1. /\ work.at = "connect" /\ entry' = entry /\ built' = built /\ child' = child
      /\ online' = online /\ pump' = pump /\ listening' = listening /\ left' = left
      /\ muted' = muted /\ crossed' = crossed /\ Break(Reconfiguring) /\ DiscardUnpublished(work.on)
  BY DEF ConnectCancelled
<1>2. work.on \in Objects /\ built[work.on] = entry.conf /\ entry.conf # "none"
  BY <1>1, AdaptersNow, EntryFields DEF WorkTells
<1>3. /\ link' \in [Objects -> {"open", "closed"}]
      /\ \A x \in Objects : x # work.on => link'[x] = link[x] /\ (x \in unclean' <=> x \in unclean)
      /\ link'[work.on] = "closed" \/ work.on \in unclean'
  BY <1>1, <1>2, DiscardIs
<1>4. \A o \in Objects : link'[o] = "open" =>
                o \in unclean' \/ (link[o] = "open" /\ o \notin unclean)
  BY <1>3
<1>5. \A o \in Objects : built[o] = "none" => link'[o] = "closed"
  BY <1>2, <1>3, AdaptersNow DEF ChildTells
<1> QED BY <1>1, <1>3, <1>4, <1>5, AdaptersNow, TurnedBack

LEMMA ConnectKeeps == ASSUME AdaptersInv, Connect PROVE AdaptersInv'
<1>1. /\ work.at = "connect" /\ entry' = entry /\ built' = built /\ listening' = listening
      /\ unclean' = unclean /\ left' = left /\ muted' = muted /\ crossed' = crossed /\ halfway' = halfway
      /\ link' = [link EXCEPT ![work.on] = "open"]
  BY DEF Connect
<1>2. /\ work.on \in Objects /\ built[work.on] = entry.conf /\ entry.conf # "none"
      /\ work.op \in Builders /\ entry.saved /\ work.on # child /\ work.on # NoObject
      /\ work.op # "activate" => child # NoObject
      /\ work.op = "activate" => child = NoObject
  BY <1>1, AdaptersNow, EntryFields, AdaptersAssumption DEF WorkTells, ChildTells, Builders
<1>3. /\ link' \in [Objects -> {"open", "closed"}]
      /\ \A x \in Objects : x # work.on => link'[x] = link[x]
  BY <1>1, <1>2, AdaptersNow
<1>4. \A o \in Objects : built[o] = "none" => link'[o] = "closed"
  BY <1>2, <1>3, AdaptersNow DEF ChildTells
<1>5. \A o \in Objects : ~crossed /\ link'[o] = "open" =>
         o = work.on \/ o = child \/ o \in unclean \/ o \in left
  BY <1>1, <1>3, AdaptersNow DEF LinksTell
<1>6. CASE work.op = "activate" /\ PublishChild(work.on) /\ Onto("enable")
  <2>1. PICK at \in WorkPlaces : at = "enable" BY DEF WorkPlaces
  <2>2. work' \in Works /\ work'.op = "activate" /\ work'.at = "enable" /\ work'.on = work.on
    BY <1>6, <2>1, OntoIs
  <2>3. /\ child' = work.on /\ online' = TRUE
        /\ pump' = (IF listening /\ pump = NoObject THEN work.on ELSE pump)
    BY <1>6 DEF PublishChild, PumpAfter
  <2>4. ~crossed => pump = NoObject BY <1>2, <1>6, AdaptersNow DEF LinksTell
  <2>5. AdaptersType' BY <1>1, <1>2, <1>3, <2>2, <2>3, AdaptersNow DEF AdaptersType
  <2>6. WorkTells' BY <1>1, <1>2, <2>2 DEF WorkTells, Builders
  <2>7. ChildTells'
    <3>1. \A o \in {child', pump'} \ {NoObject} : built[o] # "none"
      BY <1>2, <2>3, AdaptersNow DEF ChildTells
    <3> QED BY <1>1, <1>4, <2>2, <2>3, <3>1 DEF ChildTells, Builders
  <2>8. LinksTell'
    <3>1. pump' # NoObject => listening BY <2>3, AdaptersNow DEF LinksTell
    <3>2. ~crossed => pump' \in {NoObject, child'} /\ (listening => pump' = child')
      BY <2>3, <2>4
    <3>3. \A o \in Objects : ~crossed /\ link'[o] = "open" =>
             o = child' \/ o \in unclean \/ o \in left
      BY <1>2, <1>5, <1>6, <2>3, AdaptersAssumption
    <3> QED BY <1>1, <1>2, <2>2, <2>3, <3>1, <3>2, <3>3 DEF LinksTell
  <2>9. RowTells' BY <2>2 DEF RowTells
  <2> QED BY <2>5, <2>6, <2>7, <2>8, <2>9 DEF AdaptersInv
<1>7. CASE work.op # "activate" /\ pump' = NoObject /\ Onto("swap") /\ child' = child /\ online' = online
  <2>1. PICK at \in WorkPlaces : at = "swap" BY DEF WorkPlaces
  <2>2. /\ work' \in Works /\ work'.op = work.op /\ work'.at = "swap" /\ work'.on = work.on
        /\ work'.back = work.back
    BY <1>7, <2>1, OntoIs
  <2>5. AdaptersType' BY <1>1, <1>3, <1>7, <2>2, AdaptersNow DEF AdaptersType
  <2>6. WorkTells' BY <1>1, <1>2, <1>7, <2>2 DEF WorkTells, Builders
  <2>7. ChildTells' BY <1>1, <1>2, <1>4, <1>7, <2>2, AdaptersNow DEF ChildTells, Builders
  <2>8. LinksTell' BY <1>1, <1>2, <1>5, <1>7, <2>2 DEF LinksTell
  <2>9. RowTells'
    <3>1. /\ ~halfway /\ work.op = "replace" => Agree(entry.conf)
          /\ ~halfway /\ work.op = "reconfigure" => Agree(work.back)
      BY <1>1, AdaptersNow DEF RowTells
    <3> QED BY <1>1, <1>2, <1>7, <2>2, <3>1 DEF RowTells, Agree, Builders
  <2> QED BY <2>5, <2>6, <2>7, <2>8, <2>9 DEF AdaptersInv
<1> QED BY <1>6, <1>7 DEF Connect

LEMMA SwapNow ==
    ASSUME AdaptersInv, work.at = "swap"
    PROVE  /\ work.on \in Objects /\ built[work.on] = entry.conf /\ entry.conf # "none"
           /\ work.op \in {"replace", "reconfigure"} /\ entry.saved /\ work.on # child
           /\ work.on # NoObject /\ child # NoObject /\ child \in Objects
           /\ ~crossed => pump = NoObject
           /\ ~halfway => entry.enabled
           /\ ~halfway => IF work.op = "replace" THEN Agree(entry.conf) ELSE Agree(work.back)
<1>1. /\ work.op \in {"replace", "reconfigure"} /\ child # NoObject /\ work.on # child
      /\ work.on \in Objects /\ built[work.on] = entry.conf /\ entry.saved
  BY AdaptersNow DEF WorkTells, Builders
<1>2. entry.conf # "none" /\ child \in Objects /\ work.on # NoObject
  BY <1>1, AdaptersNow, EntryFields, AdaptersAssumption
<1>3. ~crossed => pump = NoObject BY AdaptersNow DEF LinksTell
<1>4. ~halfway => IF work.op = "replace" THEN Agree(entry.conf) ELSE Agree(work.back)
  BY <1>1, AdaptersNow DEF RowTells
<1>5. ~halfway => entry.enabled BY <1>1, <1>4 DEF Agree
<1> QED BY <1>1, <1>2, <1>3, <1>4, <1>5

LEMMA SwapKeeps == ASSUME AdaptersInv, Swap PROVE AdaptersInv'
<1>1. /\ work.at = "swap" /\ entry' = entry /\ built' = built /\ listening' = listening
      /\ unclean' = unclean /\ muted' = muted /\ crossed' = crossed
      /\ child' = work.on /\ online' = TRUE
      /\ pump' = (IF listening /\ pump = NoObject THEN work.on ELSE pump)
  BY DEF Swap, PublishChild, PumpAfter
<1>2. /\ work.on \in Objects /\ built[work.on] = entry.conf /\ entry.conf # "none"
      /\ work.op \in {"replace", "reconfigure"} /\ entry.saved /\ work.on # child
      /\ work.on # NoObject /\ child # NoObject /\ child \in Objects
      /\ ~crossed => pump = NoObject
      /\ ~halfway => entry.enabled
  BY <1>1, SwapNow
<1>3. /\ pump' # NoObject => listening
      /\ ~crossed => pump' \in {NoObject, work.on} /\ (listening => pump' = work.on)
  BY <1>1, <1>2, AdaptersNow DEF LinksTell
<1>4. \A o \in {work.on, pump'} \ {NoObject} : built[o] # "none"
  BY <1>1, <1>2, AdaptersNow DEF ChildTells
<1>5. ASSUME work' \in Works, halfway' \in BOOLEAN, link' \in [Objects -> {"open", "closed"}],
             \A o \in Objects : link'[o] = "open" => link[o] = "open" /\ (o # child \/ o \in left'),
             left \subseteq left', work'.at \notin {"swap", "drop"}
      PROVE  AdaptersType' /\ LinksTell' /\ (\A o \in Objects : built[o] = "none" => link'[o] = "closed")
  <2>1. AdaptersType' BY <1>1, <1>2, <1>5, AdaptersNow DEF AdaptersType
  <2>2. \A o \in Objects : ~crossed /\ link'[o] = "open" =>
             o = work.on \/ o \in unclean \/ o \in left'
    BY <1>1, <1>5, AdaptersNow DEF LinksTell
  <2>3. LinksTell' BY <1>1, <1>2, <1>3, <1>5, <2>2 DEF LinksTell
  <2>4. \A o \in Objects : built[o] = "none" => link'[o] = "closed"
    BY <1>5, AdaptersNow DEF ChildTells
  <2> QED BY <2>1, <2>3, <2>4
<1>6. CASE Closes(child) /\ Onto("refresh") /\ left' = left /\ halfway' = halfway
  <2>1. PICK at \in WorkPlaces : at = "refresh" BY DEF WorkPlaces
  <2>2. /\ work' \in Works /\ work'.op = work.op /\ work'.at = "refresh" /\ work'.on = work.on
        /\ work'.back = work.back
    BY <1>6, <2>1, OntoIs
  <2>3. /\ link' \in [Objects -> {"open", "closed"}]
        /\ \A o \in Objects : link'[o] = "open" => link[o] = "open" /\ (o # child \/ o \in left')
    BY <1>2, <1>6, AdaptersNow DEF Closes
  <2>4. AdaptersType' /\ LinksTell' /\ (\A o \in Objects : built[o] = "none" => link'[o] = "closed")
    BY <1>5, <1>6, <2>2, <2>3, AdaptersNow
  <2>6. WorkTells' BY <1>1, <1>2, <2>2 DEF WorkTells, Builders
  <2>7. ChildTells' BY <1>1, <1>2, <1>4, <2>2, <2>4 DEF ChildTells, Builders
  <2>9. RowTells' BY <1>1, <1>2, <1>6, <2>2 DEF RowTells, Agree
  <2> QED BY <2>4, <2>6, <2>7, <2>9 DEF AdaptersInv
<1>7. CASE /\ MayClose(child) /\ left' = left \cup {child} /\ halfway' = (halfway \/ Reconfiguring)
           /\ IF Reconfiguring THEN Onto("restore") ELSE Finish
  <2>3. /\ link' \in [Objects -> {"open", "closed"}]
        /\ \A o \in Objects : link'[o] = "open" => link[o] = "open" /\ (o # child \/ o \in left')
        /\ halfway' \in BOOLEAN /\ left \subseteq left'
    BY <1>2, <1>7, AdaptersNow DEF MayClose
  <2>4. CASE work.op = "reconfigure" /\ Onto("restore") /\ halfway' = TRUE
    <3>1. PICK at \in WorkPlaces : at = "restore" BY DEF WorkPlaces
    <3>2. /\ work' \in Works /\ work'.op = work.op /\ work'.at = "restore" /\ work'.on = work.on
      BY <2>4, <3>1, OntoIs
    <3>4. AdaptersType' /\ LinksTell' /\ (\A o \in Objects : built[o] = "none" => link'[o] = "closed")
      BY <1>5, <2>3, <3>2
    <3>6. WorkTells' BY <1>1, <1>2, <2>4, <3>2 DEF WorkTells, Builders
    <3>7. ChildTells' BY <1>1, <1>2, <1>4, <3>2, <3>4 DEF ChildTells, Builders
    <3>9. RowTells' BY <2>4 DEF RowTells
    <3> QED BY <3>4, <3>6, <3>7, <3>9 DEF AdaptersInv
  <2>5. CASE work' = Rest /\ halfway' = halfway
    <3>2. work' \in Works /\ work'.op = "none" /\ work'.at = "rest" BY <2>5, RestIs
    <3>4. AdaptersType' /\ LinksTell' /\ (\A o \in Objects : built[o] = "none" => link'[o] = "closed")
      BY <1>5, <2>3, <3>2
    <3>6. WorkTells' BY <3>2 DEF WorkTells, Builders
    <3>7. ChildTells' BY <1>1, <1>2, <1>4, <3>2, <3>4 DEF ChildTells, Builders
    <3>9. RowTells' BY <1>1, <1>2, <2>5, <3>2 DEF RowTells, Agree
    <3> QED BY <3>4, <3>6, <3>7, <3>9 DEF AdaptersInv
  <2> QED BY <1>7, <2>4, <2>5, AdaptersNow DEF Reconfiguring, Finish
<1> QED BY <1>6, <1>7 DEF Swap

LEMMA SwapCancelledKeeps == ASSUME AdaptersInv, SwapCancelled PROVE AdaptersInv'
<1>1. /\ work.at = "swap" /\ entry' = entry /\ built' = built /\ listening' = listening
      /\ left' = left /\ muted' = muted /\ crossed' = crossed /\ child' = child /\ online' = FALSE /\ pump' = pump
      /\ Break(Reconfiguring)
  BY DEF SwapCancelled
<1>2. PICK s \in {"open", "closed"}, clean \in BOOLEAN :
          /\ unclean' = UncleanAfter(work.on, clean)
          /\ link' = [o \in Objects |-> IF (o = child /\ s = "closed") \/ (o = work.on /\ clean)
                                       THEN "closed" ELSE link[o]]
  BY DEF SwapCancelled
<1>3. /\ link' \in [Objects -> {"open", "closed"}]
      /\ \A o \in Objects : link[o] = "closed" => link'[o] = "closed"
      /\ \A o \in Objects : o # work.on => (o \in unclean' <=> o \in unclean)
      /\ work.on \in Objects => link'[work.on] = "closed" \/ work.on \in unclean'
  BY <1>2, AdaptersNow DEF UncleanAfter
<1>4. /\ work' \in Works /\ work'.op = "none" /\ work'.at = "rest" /\ halfway' \in BOOLEAN
      /\ halfway' = (halfway \/ work.op = "reconfigure")
  BY <1>1, RestIs, AdaptersNow DEF Break, Finish, Reconfiguring
<1>5. AdaptersType' BY <1>1, <1>3, <1>4, AdaptersNow DEF AdaptersType
<1>6. WorkTells' BY <1>4 DEF WorkTells, Builders
<1>7. ChildTells' BY <1>1, <1>3, <1>4, AdaptersNow DEF ChildTells, Builders
<1>8. LinksTell'
  <2>1. \A o \in Objects : ~crossed /\ link'[o] = "open" => o = child \/ o \in unclean' \/ o \in left
    BY <1>1, <1>3, SwapNow, AdaptersNow DEF LinksTell
  <2>2. (pump # NoObject => listening) /\ (~crossed => pump \in {NoObject, child})
    BY AdaptersNow DEF LinksTell
  <2> QED BY <1>1, <1>4, <2>1, <2>2 DEF LinksTell
<1>9. RowTells'
  <2>1. ~halfway' => Agree(entry.conf) /\ entry.saved BY <1>1, <1>4, SwapNow, AdaptersNow
  <2> QED BY <1>1, <1>4, <2>1 DEF RowTells, Agree
<1> QED BY <1>5, <1>6, <1>7, <1>8, <1>9 DEF AdaptersInv

-----------------------------------------------------------------------------
(* detach *)

LEMMA RemovingNow ==
    ASSUME AdaptersInv, work.at \in {"detach", "drop"}
    PROVE  /\ work.op \in {"activate", "disable", "delete"} /\ entry.saved
           /\ work.op = "activate" => work.on \in Objects /\ built[work.on] = entry.conf
           /\ ~halfway /\ work.op # "activate" => ~entry.enabled
<1>1. work.op \in {"activate", "disable", "delete"} /\ entry.saved
  BY AdaptersNow DEF WorkTells
<1>2. work.op = "activate" => work.on \in Objects /\ built[work.on] = entry.conf
  BY AdaptersNow DEF WorkTells, Builders
<1>3. ~halfway /\ work.op # "activate" => ~entry.enabled
  BY <1>1, AdaptersNow DEF RowTells
<1> QED BY <1>1, <1>2, <1>3

LEMMA DetachKeeps == ASSUME AdaptersInv, Detach PROVE AdaptersInv'
<1>1. /\ work.at = "detach" /\ entry' = entry /\ built' = built /\ link' = link /\ child' = child
      /\ online' = online /\ listening' = listening /\ unclean' = unclean /\ left' = left
      /\ muted' = muted /\ crossed' = crossed /\ halfway' = halfway
  BY DEF Detach
<1>2. /\ work.op \in {"activate", "disable", "delete"} /\ entry.saved
      /\ work.op = "activate" => work.on \in Objects /\ built[work.on] = entry.conf
      /\ ~halfway /\ work.op # "activate" => ~entry.enabled
  BY <1>1, RemovingNow
<1>3. CASE child = NoObject /\ Onto(AfterDetach) /\ pump' = pump
  <2>1. PICK at \in WorkPlaces : at = AfterDetach BY DEF WorkPlaces, AfterDetach
  <2>2. /\ work' \in Works /\ work'.op = work.op /\ work'.at = AfterDetach /\ work'.on = work.on
    BY <1>3, <2>1, OntoIs
  <2>3. /\ work.op = "activate" => work'.at = "disenable"
        /\ work.op # "activate" => work'.at = "refresh"
    BY <2>2 DEF AfterDetach
  <2>4. AdaptersType' /\ LinksTell' BY <1>1, <1>3, <2>2, <2>3, AdaptersNow, RowSteps
  <2>5. WorkTells' BY <1>1, <1>2, <2>2, <2>3 DEF WorkTells, Builders
  <2>6. ChildTells' BY <1>1, <1>2, <1>3, <2>2, <2>3, AdaptersNow DEF ChildTells, Builders
  <2>7. RowTells' BY <1>1, <1>2, <2>2, <2>3 DEF RowTells
  <2> QED BY <2>4, <2>5, <2>6, <2>7 DEF AdaptersInv
<1>4. CASE child # NoObject /\ pump' = NoObject /\ Onto("drop")
  <2>1. PICK at \in WorkPlaces : at = "drop" BY DEF WorkPlaces
  <2>2. /\ work' \in Works /\ work'.op = work.op /\ work'.at = "drop" /\ work'.on = work.on
    BY <1>4, <2>1, OntoIs
  <2>3. AdaptersType' BY <1>1, <1>4, <2>2, AdaptersNow DEF AdaptersType
  <2>4. LinksTell' BY <1>1, <1>4, <2>2, AdaptersNow DEF LinksTell
  <2>5. WorkTells' BY <1>1, <1>2, <1>4, <2>2 DEF WorkTells, Builders
  <2>6. ChildTells' BY <1>1, <1>2, <1>4, <2>2, AdaptersNow DEF ChildTells, Builders
  <2>7. RowTells' BY <1>1, <1>2, <2>2 DEF RowTells
  <2> QED BY <2>3, <2>4, <2>5, <2>6, <2>7 DEF AdaptersInv
<1> QED BY <1>3, <1>4 DEF Detach

LEMMA DetachCancelledKeeps == ASSUME AdaptersInv, DetachCancelled PROVE AdaptersInv'
<1>1. /\ work.at = "detach" /\ entry' = entry /\ built' = built /\ link' = link /\ child' = child
      /\ online' = online /\ listening' = listening /\ unclean' = unclean /\ left' = left
      /\ crossed' = crossed
  BY DEF DetachCancelled
<1>2. /\ pump' \in {NoObject, pump}
      /\ (pump' = pump /\ muted' = muted) \/ muted' = child
  BY DEF DetachCancelled
<1>3. /\ work' \in Works /\ work'.op = "none" /\ work'.at = "rest" /\ halfway' \in BOOLEAN
      /\ halfway' = (halfway \/ child # NoObject)
  BY RestIs, AdaptersNow DEF DetachCancelled, Break, Finish
<1>4. /\ work.op \in {"activate", "disable", "delete"} /\ entry.saved
      /\ ~halfway /\ work.op # "activate" => ~entry.enabled
  BY <1>1, RemovingNow
<1>5. work.op = "activate" => child # NoObject
  BY <1>1, AdaptersNow DEF ChildTells
<1>6. AdaptersType' BY <1>1, <1>2, <1>3, AdaptersNow DEF AdaptersType
<1>7. WorkTells' BY <1>3 DEF WorkTells, Builders
<1>8. ChildTells' BY <1>1, <1>2, <1>3, AdaptersNow DEF ChildTells, Builders
<1>9. LinksTell' BY <1>1, <1>2, <1>3, AdaptersNow DEF LinksTell
<1>10. RowTells' BY <1>1, <1>3, <1>4, <1>5 DEF RowTells, Agree
<1> QED BY <1>6, <1>7, <1>8, <1>9, <1>10 DEF AdaptersInv

LEMMA DropKeeps == ASSUME AdaptersInv, Drop PROVE AdaptersInv'
<1>1. /\ work.at = "drop" /\ entry' = entry /\ built' = built /\ pump' = pump
      /\ child' = NoObject /\ online' = FALSE /\ listening' = listening /\ unclean' = unclean
      /\ muted' = muted /\ crossed' = crossed
  BY DEF Drop
<1>2. /\ work.op \in {"activate", "disable", "delete"} /\ entry.saved
      /\ work.op = "activate" => work.on \in Objects /\ built[work.on] = entry.conf
      /\ ~halfway /\ work.op # "activate" => ~entry.enabled
  BY <1>1, RemovingNow
<1>3. /\ child \in Objects /\ (~crossed => pump = NoObject)
      /\ pump # NoObject => listening
  BY <1>1, AdaptersNow DEF WorkTells, LinksTell
<1>4. \A o \in {NoObject, pump} \ {NoObject} : built[o] # "none"
  BY AdaptersNow DEF ChildTells
<1>5. ASSUME work' \in Works, halfway' \in BOOLEAN, link' \in [Objects -> {"open", "closed"}],
             \A o \in Objects : link'[o] = "open" => link[o] = "open" /\ (o # child \/ o \in left'),
             left \subseteq left', work'.at \notin {"swap", "drop"}
      PROVE  AdaptersType' /\ LinksTell' /\ (\A o \in Objects : built[o] = "none" => link'[o] = "closed")
  <2>1. AdaptersType' BY <1>1, <1>5, AdaptersNow DEF AdaptersType
  <2>2. \A o \in Objects : ~crossed /\ link'[o] = "open" => o \in unclean \/ o \in left'
    BY <1>1, <1>5, AdaptersNow DEF LinksTell
  <2>3. LinksTell' BY <1>1, <1>3, <1>5, <2>2 DEF LinksTell
  <2>4. \A o \in Objects : built[o] = "none" => link'[o] = "closed"
    BY <1>5, AdaptersNow DEF ChildTells
  <2> QED BY <2>1, <2>3, <2>4
<1>6. CASE Closes(child) /\ Onto(AfterDetach) /\ left' = left /\ halfway' = halfway
  <2>1. PICK at \in WorkPlaces : at = AfterDetach BY DEF WorkPlaces, AfterDetach
  <2>2. /\ work' \in Works /\ work'.op = work.op /\ work'.at = AfterDetach /\ work'.on = work.on
    BY <1>6, <2>1, OntoIs
  <2>3. /\ work.op = "activate" => work'.at = "disenable"
        /\ work.op # "activate" => work'.at = "refresh"
    BY <2>2 DEF AfterDetach
  <2>4. /\ link' \in [Objects -> {"open", "closed"}]
        /\ \A o \in Objects : link'[o] = "open" => link[o] = "open" /\ (o # child \/ o \in left')
    BY <1>3, <1>6, AdaptersNow DEF Closes
  <2>5. AdaptersType' /\ LinksTell' /\ (\A o \in Objects : built[o] = "none" => link'[o] = "closed")
    BY <1>5, <1>6, <2>2, <2>3, <2>4, AdaptersNow
  <2>6. WorkTells' BY <1>1, <1>2, <2>2, <2>3 DEF WorkTells, Builders
  <2>7. ChildTells' BY <1>1, <1>2, <1>4, <2>2, <2>3, <2>5 DEF ChildTells, Builders
  <2>8. RowTells' BY <1>1, <1>2, <1>6, <2>2, <2>3 DEF RowTells
  <2> QED BY <2>5, <2>6, <2>7, <2>8 DEF AdaptersInv
<1>7. CASE MayClose(child) /\ left' = left \cup {child} /\ Break(work.op = "activate")
  <2>2. /\ work' \in Works /\ work'.op = "none" /\ work'.at = "rest"
        /\ halfway' \in BOOLEAN /\ (~halfway' => ~halfway /\ work.op # "activate")
    BY <1>7, RestIs, AdaptersNow DEF Break, Finish
  <2>4. /\ link' \in [Objects -> {"open", "closed"}] /\ left \subseteq left'
        /\ \A o \in Objects : link'[o] = "open" => link[o] = "open" /\ (o # child \/ o \in left')
    BY <1>3, <1>7, AdaptersNow DEF MayClose
  <2>5. AdaptersType' /\ LinksTell' /\ (\A o \in Objects : built[o] = "none" => link'[o] = "closed")
    BY <1>5, <2>2, <2>4
  <2>6. WorkTells' BY <2>2 DEF WorkTells, Builders
  <2>7. ChildTells' BY <1>1, <1>4, <2>2, <2>5 DEF ChildTells, Builders
  <2>8. RowTells' BY <1>1, <1>2, <2>2 DEF RowTells, Agree
  <2> QED BY <2>5, <2>6, <2>7, <2>8 DEF AdaptersInv
<1> QED BY <1>6, <1>7 DEF Drop

-----------------------------------------------------------------------------
LEMMA AdaptersStart == ASSUME AdaptersInit PROVE AdaptersInv
<1>1. PICK row : row = entry /\ row = [saved |-> TRUE, enabled |-> FALSE, conf |-> "old"]
  BY DEF AdaptersInit
<1>0. row \in Rows /\ row.saved /\ ~row.enabled /\ row.conf = "old" BY <1>1 DEF Rows
<1>2. work \in Works /\ work.op = "none" /\ work.at = "rest" BY RestIs DEF AdaptersInit
<1>3. AdaptersType BY <1>0, <1>1, <1>2 DEF AdaptersInit, AdaptersType
<1>4. WorkTells BY <1>2 DEF WorkTells, Builders
<1>5. ChildTells BY <1>2 DEF ChildTells, AdaptersInit, Builders
<1>6. LinksTell BY <1>2 DEF LinksTell, AdaptersInit
<1>7. RowTells BY <1>0, <1>1, <1>2 DEF RowTells, AdaptersInit, Agree
<1> QED BY <1>3, <1>4, <1>5, <1>6, <1>7 DEF AdaptersInv

LEMMA AdaptersStutter == ASSUME AdaptersInv, UNCHANGED adapterVars PROVE AdaptersInv'
<1>1. /\ entry' = entry /\ built' = built /\ link' = link /\ child' = child /\ online' = online
      /\ pump' = pump /\ listening' = listening /\ unclean' = unclean /\ work' = work
      /\ left' = left /\ muted' = muted /\ crossed' = crossed /\ halfway' = halfway
  BY DEF adapterVars
<1>3. AdaptersType' BY <1>1, AdaptersNow DEF AdaptersType
<1>4. WorkTells' BY <1>1, AdaptersNow DEF WorkTells
<1>5. ChildTells' BY <1>1, AdaptersNow DEF ChildTells
<1>6. LinksTell' BY <1>1, AdaptersNow DEF LinksTell
<1>7. RowTells' BY <1>1, AdaptersNow DEF RowTells, Agree
<1> QED BY <1>3, <1>4, <1>5, <1>6, <1>7 DEF AdaptersInv

LEMMA AdaptersStep == ASSUME AdaptersInv, [AdaptersNext]_adapterVars PROVE AdaptersInv'
<1>1. CASE Activate \/ Replace \/ (\E c \in {"old", "new"} : Reconfigure(c))
           \/ (\E op \in {"disable", "delete"} : Disable(op))
  BY <1>1, ActivateKeeps, ReplaceKeeps, ReconfigureKeeps, DisableKeeps
<1>2. CASE Clean \/ Connect \/ ConnectFails \/ ConnectCancelled \/ Swap \/ SwapCancelled
  BY <1>2, CleanKeeps, ConnectKeeps, ConnectFailsKeeps, ConnectCancelledKeeps, SwapKeeps,
     SwapCancelledKeeps
<1>3. CASE Enable \/ Refresh \/ Detach \/ DetachCancelled \/ Drop \/ Disenable \/ Restore \/ Erase
  BY <1>3, EnableKeeps, RefreshKeeps, DetachKeeps, DetachCancelledKeeps, DropKeeps, DisenableKeeps,
     RestoreKeeps, EraseKeeps
<1>4. CASE Subscribe \/ Unsubscribe \/ ReconnectSet \/ HealthFails \/ StreamFails \/ PumpReconnects
  BY <1>4, SubscribeKeeps, UnsubscribeKeeps, ReconnectSetKeeps, HealthFailsKeeps, StreamFailsKeeps,
     PumpReconnectsKeeps
<1>5. CASE UNCHANGED adapterVars BY <1>5, AdaptersStutter
<1> QED BY <1>1, <1>2, <1>3, <1>4, <1>5 DEF AdaptersNext

LEMMA AdaptersPromise == ASSUME AdaptersInv PROVE ConnectionsAreSound
<1>1. TransportsAreHeld
  <2>1. \A o \in Objects : ~crossed /\ link[o] = "open" => o \in {child, work.on} \cup unclean \cup left
    BY AdaptersNow DEF LinksTell
  <2>2. ~crossed => /\ pump \in {NoObject, child}
                    /\ listening /\ online /\ ~Mutating => pump = child \/ muted = child
    BY AdaptersNow DEF LinksTell, Mutating
  <2> QED BY <2>1, <2>2 DEF TransportsAreHeld
<1>2. RuntimeFollowsRow BY AdaptersNow DEF RowTells, Agree, RuntimeFollowsRow
<1> QED BY <1>1, <1>2 DEF ConnectionsAreSound

\* No transport is lost sight of and the runtime is what the row says
\* (application/connection_manager.py, runtime/managed_adapter_set.py), for any
\* number of adapter objects and any number of calls that fail or are cancelled:
\* an open transport belongs to the published child, to the operation under way,
\* to the cleanup list or to the objects whose own disconnect failed, the only
\* pump is the child's unless a stream was opened during a swap, the child has it unless
\* a detach was cut off, and between operations that were not cut off the child is there exactly when the row is
\* enabled, built from the row's configuration.
THEOREM ConnectionsStaySound == AdaptersSpec => []ConnectionsAreSound
<1>1. AdaptersInit => AdaptersInv BY AdaptersStart
<1>2. AdaptersInv /\ [AdaptersNext]_adapterVars => AdaptersInv' BY AdaptersStep
<1>3. AdaptersInv => ConnectionsAreSound BY AdaptersPromise
<1> QED BY <1>1, <1>2, <1>3, PTL DEF AdaptersSpec

-----------------------------------------------------------------------------
(* The consent ledger.  The invariant ties the four books together: who      *)
(* spent a grant, its status, its reservation and its permit; the head       *)
(* bounds the revisions at which grants were revoked, which makes them       *)
(* differ, and the revoked grants are finitely many, however many there are. *)

GrantRows == [status : {"none", "pending", "consumed"}, until : Nat]
HoldRows == [by : Records \cup {NoRecord}, status : {"none", "reserved", "committed", "released"}]
RevocationRows == [by : Requests \cup {NoRequest}, at : Nat, permits : SUBSET Callers]
ReceiptRows == [kind : {"none", "approval", "revocation"}, of : Grants \cup {NoGrant}, expected : Nat]
CreatedRows == [status : {"none", "active", "cancelled"}, grant : Grants \cup {NoGrant}]
CallStates == [pc : CallPcs, grant : Grants \cup {NoGrant}, version : Nat]
RevokerStates == [pc : {"idle", "read", "done", "refused"}, grant : Grants \cup {NoGrant}, version : Nat]
UseRecords == [via : Kinds \cup {"hold"}, by : Callers \cup Records]

\* What the books say of one grant.
BooksTell(g) ==
    /\ spent[g] = {} \/ \E u \in UseRecords : spent[g] = {u}
    /\ grant[g].status = "consumed" <=> spent[g] # {}
    /\ permit[g] # NoRequest => grant[g].status = "consumed"
    /\ hold[g].status = "reserved" => grant[g].status = "pending"
    /\ hold[g].status = "committed" <=> \E u \in spent[g] : u.via = "hold"
    /\ \A u \in spent[g] : u.via = "hold" => u.by = hold[g].by

CallsTell ==
    \A c \in Callers :
        /\ call[c].pc \in {"approved", "read", "prepared", "held", "recorded", "failing", "undoing"} =>
             call[c].grant \in Grants
        /\ call[c].pc \in {"held", "recorded", "failing", "undoing"} => KindOf[c] \in Holding
        /\ call[c].pc \in {"read", "prepared"} => KindOf[c] = "deliver"

RevokersTell == \A v \in Revokers : revoking[v].pc = "read" => revoking[v].grant \in Grants

RevokedGrants == {g \in Grants : IsRevoked(g)}

RevocationsTell ==
    /\ IsFiniteSet(RevokedGrants) /\ revision = Cardinality(RevokedGrants)
    /\ \A g \in Grants : IsRevoked(g) =>
         revoked[g].permits = {permit[g]} \ {NoRequest} /\ revoked[g].at <= revision
    /\ \A g, h \in Grants : IsRevoked(g) /\ IsRevoked(h) /\ g # h => revoked[g].at # revoked[h].at

ApprovalInv ==
    /\ ApprovalTypeOK /\ (\A g \in Grants : BooksTell(g)) /\ CallsTell /\ RevokersTell
    /\ OneOutcomePerRequest /\ PermitPerCommand /\ RevocationsTell /\ RecordsAreAnswered

\* The step behind NothingAfterRevocation.
Quiet ==
    \A g \in Grants : IsRevoked(g) =>
         /\ spent'[g] = spent[g] /\ permit'[g] = permit[g]
         /\ g \in acted' => g \in acted

-----------------------------------------------------------------------------
(* Types *)

LEMMA ApprovalTypes ==
    ApprovalTypeOK <=>
       /\ now \in 0 .. MaxTime /\ revision \in Nat
       /\ issuing \in [Grants -> {"idle", "checked", "saved", "refused"}]
       /\ grant \in [Grants -> GrantRows] /\ hold \in [Grants -> HoldRows]
       /\ revoked \in [Grants -> RevocationRows] /\ receipt \in [Requests -> ReceiptRows]
       /\ permit \in [Grants -> Callers \cup {NoRequest}]
       /\ record \in [RecordRows -> CreatedRows] /\ call \in [Callers -> CallStates]
       /\ revoking \in [Revokers -> RevokerStates] /\ spent \in [Grants -> SUBSET UseRecords]
       /\ acted \subseteq Grants
BY DEF ApprovalTypeOK, GrantRows, HoldRows, RevocationRows, ReceiptRows, CreatedRows, CallStates,
       RevokerStates, UseRecords

LEMMA ApprovalNow ==
    ASSUME ApprovalInv
    PROVE  /\ now \in 0 .. MaxTime /\ revision \in Nat /\ now \in Nat
           /\ issuing \in [Grants -> {"idle", "checked", "saved", "refused"}]
           /\ grant \in [Grants -> GrantRows] /\ hold \in [Grants -> HoldRows]
           /\ revoked \in [Grants -> RevocationRows] /\ receipt \in [Requests -> ReceiptRows]
           /\ permit \in [Grants -> Callers \cup {NoRequest}]
           /\ record \in [RecordRows -> CreatedRows] /\ call \in [Callers -> CallStates]
           /\ revoking \in [Revokers -> RevokerStates] /\ spent \in [Grants -> SUBSET UseRecords]
           /\ acted \subseteq Grants
           /\ \A g \in Grants : BooksTell(g)
           /\ CallsTell /\ RevokersTell
           /\ OneOutcomePerRequest /\ PermitPerCommand /\ RevocationsTell /\ RecordsAreAnswered
<1>1. ApprovalTypeOK BY DEF ApprovalInv
<1>2. now \in 0 .. MaxTime BY <1>1, ApprovalTypes
<1>3. now \in Nat BY <1>2, ApprovalAssumption
<1> QED BY <1>1, <1>3, ApprovalTypes DEF ApprovalInv

LEMMA ApprovalTypesNext ==
    ASSUME now' \in 0 .. MaxTime, revision' \in Nat,
           issuing' \in [Grants -> {"idle", "checked", "saved", "refused"}],
           grant' \in [Grants -> GrantRows], hold' \in [Grants -> HoldRows],
           revoked' \in [Grants -> RevocationRows], receipt' \in [Requests -> ReceiptRows],
           permit' \in [Grants -> Callers \cup {NoRequest}],
           record' \in [RecordRows -> CreatedRows], call' \in [Callers -> CallStates],
           revoking' \in [Revokers -> RevokerStates], spent' \in [Grants -> SUBSET UseRecords],
           acted' \subseteq Grants
    PROVE  ApprovalTypeOK'
BY DEF ApprovalTypeOK, GrantRows, HoldRows, RevocationRows, ReceiptRows, CreatedRows, CallStates,
       RevokerStates, UseRecords

LEMMA CallFields ==
    ASSUME NEW x \in CallStates
    PROVE  x.pc \in CallPcs /\ x.grant \in Grants \cup {NoGrant} /\ x.version \in Nat
BY DEF CallStates

LEMMA ProceedIs ==
    ASSUME ApprovalInv, NEW c \in Callers, NEW pc \in CallPcs, Proceed(c, pc)
    PROVE  \E x \in CallStates :
             /\ call' = [call EXCEPT ![c] = x]
             /\ x.pc = pc /\ x.grant = call[c].grant /\ x.version = call[c].version
<1>1. PICK y \in CallStates : y = call[c] BY ApprovalNow
<1>2. PICK x : x = [y EXCEPT !.pc = pc] OBVIOUS
<1>3. x \in CallStates /\ x.pc = pc /\ x.grant = y.grant /\ x.version = y.version
  BY <1>2 DEF CallStates
<1>4. call' = [call EXCEPT ![c] = x] BY <1>1, <1>2 DEF Proceed
<1> QED BY <1>1, <1>3, <1>4

\* A grant that is spent keeps its lifetime.
LEMMA SpentRow ==
    ASSUME ApprovalInv, NEW g \in Grants, grant' = [grant EXCEPT ![g].status = "consumed"]
    PROVE  /\ grant' \in [Grants -> GrantRows] /\ grant'[g].status = "consumed"
           /\ \A h \in Grants : h # g => grant'[h] = grant[h]
<1>1. PICK y \in GrantRows : y = grant[g] BY ApprovalNow
<1>2. PICK x : x = [y EXCEPT !.status = "consumed"] OBVIOUS
<1>3. x \in GrantRows /\ x.status = "consumed" BY <1>2 DEF GrantRows
<1>4. grant' = [grant EXCEPT ![g] = x] BY <1>1, <1>2
<1> QED BY <1>3, <1>4, ApprovalNow

LEMMA UseIs ==
    ASSUME NEW c \in Callers
    PROVE  /\ Use(c) \in UseRecords
           /\ RecordOf[c] # NoRecord => Use(c) = [via |-> "hold", by |-> RecordOf[c]]
                                        /\ Use(c).via = "hold" /\ Use(c).by = RecordOf[c]
           /\ RecordOf[c] = NoRecord => Use(c).via # "hold"
           /\ RecordOf[c] # NoRecord => RecordOf[c] \in Records
           /\ KindOf[c] \in Holding => RecordOf[c] # NoRecord
           /\ KindOf[c] = "execute" => RecordOf[c] = NoRecord
<1>1. KindOf[c] \in Kinds BY ApprovalAssumption
<1>2. RecordOf[c] # NoRecord => RecordOf[c] \in Records BY DEF Records
<1>3. /\ KindOf[c] \in Holding => RecordOf[c] # NoRecord
      /\ KindOf[c] = "execute" => RecordOf[c] = NoRecord
  BY ApprovalAssumption
<1>4. CASE RecordOf[c] # NoRecord
  <2>1. Use(c) = [via |-> "hold", by |-> RecordOf[c]] BY <1>4 DEF Use
  <2> QED BY <1>2, <1>3, <1>4, <2>1 DEF UseRecords
<1>5. CASE RecordOf[c] = NoRecord
  <2>1. Use(c) = [via |-> KindOf[c], by |-> c] BY <1>5 DEF Use
  <2> QED BY <1>1, <1>3, <1>5, <2>1 DEF UseRecords, Kinds
<1> QED BY <1>4, <1>5

-----------------------------------------------------------------------------
(* What a step leaves alone *)

LEMMA BooksFrame ==
    ASSUME NEW g \in Grants, BooksTell(g), grant'[g] = grant[g], hold'[g] = hold[g],
           spent'[g] = spent[g], permit'[g] = permit[g]
    PROVE  BooksTell(g)'
BY DEF BooksTell

LEMMA OutcomeFrame ==
    ASSUME OneOutcomePerRequest, receipt' = receipt, revoked' = revoked,
           \A g \in Grants : grant'[g].status = "none" <=> grant[g].status = "none"
    PROVE  OneOutcomePerRequest'
BY DEF OneOutcomePerRequest, Saved

LEMMA PermitFrame == ASSUME PermitPerCommand, permit' = permit PROVE PermitPerCommand'
BY DEF PermitPerCommand

LEMMA RevocationFrame ==
    ASSUME RevocationsTell, revoked' = revoked, revision' = revision,
           \A g \in Grants : IsRevoked(g) => permit'[g] = permit[g]
    PROVE  RevocationsTell'
<1>1. \A g \in Grants : IsRevoked(g)' <=> IsRevoked(g) BY DEF IsRevoked
<1>2. RevokedGrants' = RevokedGrants BY <1>1 DEF RevokedGrants
<1>3. IsFiniteSet(RevokedGrants') /\ revision' = Cardinality(RevokedGrants')
  BY <1>2 DEF RevocationsTell
<1> QED BY <1>1, <1>3 DEF RevocationsTell

\* Who answers for a record, read off a call's kind and place.
Answering(kind, pc) == \/ pc \in {"recorded", "failing", "done", "stuck"}
                       \/ kind = "recurring" /\ pc = "undoing"

LEMMA AnswersIs == \A d : Answers(d) <=> Answering(KindOf[d], call[d].pc)
BY DEF Answers, Answering

\* A call moves and at most its own row is written: either the row stays and the
\* call goes on answering for it, or what the row then says is the call's to answer.
LEMMA AnswersStep ==
    ASSUME ApprovalInv, NEW c \in Callers, NEW x \in CallStates, call' = [call EXCEPT ![c] = x],
           \A j \in RecordRows : j # RowOf(c) => record'[j] = record[j],
           \/ /\ record'[RowOf(c)] = record[RowOf(c)]
              /\ Answers(c) => Answering(KindOf[c], x.pc) /\ x.grant = call[c].grant
           \/ KindOf[c] \in {"schedule", "recurring"} /\ record'[RowOf(c)].status = "active" =>
                 Answering(KindOf[c], x.pc) /\ x.grant = record'[RowOf(c)].grant
    PROVE  RecordsAreAnswered'
<1>1. /\ call'[c] = x /\ \A d \in Callers : d # c => call'[d] = call[d]
  BY ApprovalNow
<1>2. SUFFICES ASSUME NEW d \in Callers, KindOf[d] \in {"schedule", "recurring"},
                      record'[RowOf(d)].status = "active"
               PROVE  \E e \in Callers : /\ RowOf(e) = RowOf(d) /\ Answering(KindOf[e], call'[e].pc)
                                        /\ call'[e].grant = record'[RowOf(d)].grant
  BY DEF RecordsAreAnswered, RowOf, Answers, Answering
<1>3. RowOf(d) \in RecordRows BY <1>2 DEF RecordRows, Holding
<1>4. CASE record'[RowOf(d)] = record[RowOf(d)]
           /\ (RowOf(d) = RowOf(c) =>
                 (Answers(c) => Answering(KindOf[c], x.pc) /\ x.grant = call[c].grant))
  <2>1. PICK e \in Callers : /\ RowOf(e) = RowOf(d) /\ Answers(e)
                             /\ call[e].grant = record[RowOf(d)].grant
    BY <1>2, <1>4, ApprovalNow DEF RecordsAreAnswered
  <2>2. CASE e = c BY <1>1, <1>4, <2>1, <2>2
  <2>3. CASE e # c BY <1>1, <1>4, <2>1, <2>3, AnswersIs
  <2> QED BY <2>2, <2>3
<1>5. CASE RowOf(d) # RowOf(c) BY <1>3, <1>4, <1>5
<1>6. CASE RowOf(d) = RowOf(c)
  <2>1. KindOf[c] = KindOf[d] BY <1>6 DEF RowOf
  <2>2. CASE /\ record'[RowOf(c)] = record[RowOf(c)]
             /\ Answers(c) => Answering(KindOf[c], x.pc) /\ x.grant = call[c].grant
    BY <1>4, <1>6, <2>2
  <2>3. CASE KindOf[c] \in {"schedule", "recurring"} /\ record'[RowOf(c)].status = "active" =>
                 Answering(KindOf[c], x.pc) /\ x.grant = record'[RowOf(c)].grant
    BY <1>1, <1>2, <1>6, <2>1, <2>3
  <2> QED BY <2>2, <2>3
<1> QED BY <1>5, <1>6

\* A call moves and no record is written; one that may answer for its record goes on.
LEMMA CallStep ==
    ASSUME ApprovalInv, NEW c \in Callers, NEW x \in CallStates,
           call' = [call EXCEPT ![c] = x], record' = record,
           call[c].pc \in {"recorded", "failing", "undoing", "done", "stuck"} =>
               x.pc \in {"recorded", "failing", "done", "stuck"} /\ x.grant = call[c].grant,
           x.pc \in {"approved", "read", "prepared", "held", "recorded", "failing", "undoing"} => x.grant \in Grants,
           x.pc \in {"held", "recorded", "failing", "undoing"} => KindOf[c] \in Holding,
           x.pc \in {"read", "prepared"} => KindOf[c] = "deliver"
    PROVE  call' \in [Callers -> CallStates] /\ CallsTell' /\ RecordsAreAnswered'
<1>1. /\ call' \in [Callers -> CallStates] /\ call'[c] = x
      /\ \A d \in Callers : d # c => call'[d] = call[d]
  BY ApprovalNow
<1>2. CallsTell' BY <1>1, ApprovalNow DEF CallsTell
<1>3. Answers(c) => Answering(KindOf[c], x.pc) /\ x.grant = call[c].grant
  BY DEF Answers, Answering
<1>4. RecordsAreAnswered' BY <1>3, AnswersStep
<1> QED BY <1>1, <1>2, <1>4

LEMMA RecordFrame ==
    ASSUME RecordsAreAnswered, call' = call, record' = record
    PROVE  RecordsAreAnswered'
BY DEF RecordsAreAnswered, RowOf, Answers

LEMMA BooksStay ==
    ASSUME ApprovalInv, UNCHANGED books, spent' = spent
    PROVE  /\ \A g \in Grants : BooksTell(g)'
           /\ OneOutcomePerRequest' /\ PermitPerCommand' /\ RevocationsTell'
           /\ grant' = grant /\ hold' = hold /\ revision' = revision /\ revoked' = revoked
           /\ receipt' = receipt /\ permit' = permit
<1>1. /\ grant' = grant /\ hold' = hold /\ revision' = revision /\ revoked' = revoked
      /\ receipt' = receipt /\ permit' = permit
  BY DEF books
<1>2. \A g \in Grants : BooksTell(g)' BY <1>1, BooksFrame, ApprovalNow
<1>3. OneOutcomePerRequest' BY <1>1, OutcomeFrame, ApprovalNow
<1>4. PermitPerCommand' BY <1>1, PermitFrame, ApprovalNow
<1>5. RevocationsTell' BY <1>1, RevocationFrame, ApprovalNow
<1> QED BY <1>1, <1>2, <1>3, <1>4, <1>5

\* A step of a call that only moves the call.
LEMMA OnlyTheCall ==
    ASSUME ApprovalInv, NEW c \in Callers, NEW x \in CallStates,
           call' = [call EXCEPT ![c] = x],
           UNCHANGED books, spent' = spent, record' = record, now' = now, issuing' = issuing,
           revoking' = revoking, acted' \subseteq Grants,
           \A g \in Grants : IsRevoked(g) => (g \in acted' => g \in acted),
           call[c].pc \in {"recorded", "failing", "undoing", "done", "stuck"} =>
               x.pc \in {"recorded", "failing", "done", "stuck"} /\ x.grant = call[c].grant,
           x.pc \in {"approved", "read", "prepared", "held", "recorded", "failing", "undoing"} => x.grant \in Grants,
           x.pc \in {"held", "recorded", "failing", "undoing"} => KindOf[c] \in Holding,
           x.pc \in {"read", "prepared"} => KindOf[c] = "deliver"
    PROVE  ApprovalInv' /\ Quiet
<1>1. call' \in [Callers -> CallStates] /\ CallsTell' /\ RecordsAreAnswered' BY CallStep
<1>2. /\ \A g \in Grants : BooksTell(g)'
      /\ OneOutcomePerRequest' /\ PermitPerCommand' /\ RevocationsTell'
      /\ grant' = grant /\ hold' = hold /\ revision' = revision /\ revoked' = revoked
      /\ receipt' = receipt /\ permit' = permit
  BY BooksStay
<1>3. ApprovalTypeOK' BY <1>1, <1>2, ApprovalNow, ApprovalTypesNext
<1>4. RevokersTell' BY ApprovalNow DEF RevokersTell
<1>5. Quiet BY <1>2 DEF Quiet
<1> QED BY <1>1, <1>2, <1>3, <1>4, <1>5 DEF ApprovalInv

\* A step that leaves books, calls and records alone.
LEMMA OnlyOthers ==
    ASSUME ApprovalInv, UNCHANGED books, spent' = spent, record' = record, call' = call,
           acted' = acted, now' \in 0 .. MaxTime, RevokersTell',
           issuing' \in [Grants -> {"idle", "checked", "saved", "refused"}],
           revoking' \in [Revokers -> RevokerStates]
    PROVE  ApprovalInv' /\ Quiet
<1>2. /\ \A g \in Grants : BooksTell(g)'
      /\ OneOutcomePerRequest' /\ PermitPerCommand' /\ RevocationsTell'
      /\ grant' = grant /\ hold' = hold /\ revision' = revision /\ revoked' = revoked
      /\ receipt' = receipt /\ permit' = permit
  BY BooksStay
<1>3. ApprovalTypeOK' BY <1>2, ApprovalNow, ApprovalTypesNext
<1>4. RecordsAreAnswered' BY RecordFrame, ApprovalNow
<1>5. CallsTell' BY ApprovalNow DEF CallsTell
<1>6. Quiet BY <1>2 DEF Quiet
<1> QED BY <1>2, <1>3, <1>4, <1>5, <1>6 DEF ApprovalInv

-----------------------------------------------------------------------------
(* Issuing *)

LEMMA IssueCheckKeeps ==
    ASSUME ApprovalInv, NEW g \in Grants, IssueCheck(g) PROVE ApprovalInv' /\ Quiet
<1>1. /\ UNCHANGED books /\ spent' = spent /\ record' = record /\ call' = call
      /\ acted' = acted /\ now' = now /\ revoking' = revoking
  BY DEF IssueCheck
<1>2. PICK s \in {"checked", "refused"} : issuing' = [issuing EXCEPT ![g] = s] BY DEF IssueCheck
<1>3. issuing' \in [Grants -> {"idle", "checked", "saved", "refused"}] BY <1>2, ApprovalNow
<1>4. RevokersTell' BY <1>1, ApprovalNow DEF RevokersTell
<1> QED BY <1>1, <1>3, <1>4, ApprovalNow, OnlyOthers

LEMMA IssueSaveKeeps ==
    ASSUME ApprovalInv, NEW g \in Grants, IssueSave(g) PROVE ApprovalInv' /\ Quiet
<1>1. /\ now' = now /\ hold' = hold /\ revision' = revision /\ revoked' = revoked
      /\ permit' = permit /\ record' = record /\ call' = call /\ revoking' = revoking
      /\ spent' = spent /\ acted' = acted
  BY DEF IssueSave
<1>2. RevokersTell' BY <1>1, ApprovalNow DEF RevokersTell
<1>3. CASE Duplicate(g)
  <2>1. issuing' = [issuing EXCEPT ![g] = "refused"] /\ grant' = grant /\ receipt' = receipt
    BY <1>3 DEF IssueSave
  <2>2. UNCHANGED books BY <1>1, <2>1 DEF books
  <2>3. issuing' \in [Grants -> {"idle", "checked", "saved", "refused"}] BY <2>1, ApprovalNow
  <2> QED BY <1>1, <1>2, <2>2, <2>3, ApprovalNow, OnlyOthers
<1>4. CASE ~Duplicate(g)
  <2>1. PICK until \in (now + 1) .. (now + TTL) :
          grant' = [grant EXCEPT ![g] = [status |-> "pending", until |-> until]]
    BY <1>4 DEF IssueSave
  <2>2. /\ issuing' = [issuing EXCEPT ![g] = "saved"]
        /\ receipt' = [r \in Requests |->
                 IF r = RequestOf[g] THEN [kind |-> "approval", of |-> g, expected |-> 0]
                 ELSE receipt[r]]
    BY <1>4 DEF IssueSave
  <2>3. until \in Nat BY ApprovalNow, ApprovalAssumption
  <2>40. PICK x : x = [status |-> "pending", until |-> until] OBVIOUS
  <2>4. x = [status |-> "pending", until |-> until] /\ x \in GrantRows /\ x.status = "pending"
    BY <2>3, <2>40 DEF GrantRows
  <2>5. /\ grant' \in [Grants -> GrantRows] /\ grant'[g].status = "pending"
        /\ \A h \in Grants : h # g => grant'[h] = grant[h]
    BY <2>1, <2>4, ApprovalNow
  <2>60. PICK y : y = [kind |-> "approval", of |-> g, expected |-> 0] OBVIOUS
  <2>6. /\ y = [kind |-> "approval", of |-> g, expected |-> 0] /\ y \in ReceiptRows
        /\ y.kind = "approval" /\ y.of = g
    BY <2>60 DEF ReceiptRows
  <2>7. /\ receipt' \in [Requests -> ReceiptRows]
        /\ \A r \in Requests : receipt'[r] = IF r = RequestOf[g] THEN y ELSE receipt[r]
    BY <2>2, <2>6, ApprovalNow
  <2>8. /\ \A h \in Grants : Saved(h) => NonceOf[h] # NonceOf[g]
        /\ RequestOf[g] # NoRequest => receipt[RequestOf[g]] = NoReceipt
    BY <1>4 DEF Duplicate, NonceUsed, RequestTaken
  <2>9. grant[g].status = "none" BY <2>8 DEF Saved
  <2>10. issuing' \in [Grants -> {"idle", "checked", "saved", "refused"}] BY <2>2, ApprovalNow
  <2>11. ApprovalTypeOK' BY <1>1, <2>5, <2>7, <2>10, ApprovalNow, ApprovalTypesNext
  <2>12. ASSUME NEW h \in Grants PROVE BooksTell(h)'
    <3>1. CASE h # g BY <1>1, <2>5, <3>1, BooksFrame, ApprovalNow
    <3>2. CASE h = g
      <4>1. BooksTell(g) BY ApprovalNow
      <4>2. /\ spent[g] = {} /\ permit[g] = NoRequest /\ hold[g].status # "reserved"
            /\ hold[g].status # "committed"
        BY <2>9, <4>1 DEF BooksTell
      <4>3. BooksTell(g)' BY <1>1, <2>5, <4>2 DEF BooksTell
      <4> QED BY <3>2, <4>3
    <3> QED BY <3>1, <3>2
  <2>13. OneOutcomePerRequest'
    <3>1. \A h \in Grants : Saved(h)' <=> (Saved(h) \/ h = g) BY <2>5, <2>9 DEF Saved
    <3>2. ASSUME NEW h \in Grants, NEW k \in Grants, Saved(h)', Saved(k)', NonceOf[h] = NonceOf[k]
          PROVE  h = k
      BY <2>8, <3>1, <3>2, ApprovalNow DEF OneOutcomePerRequest
    <3>3. ASSUME NEW h \in Grants, RequestOf[h] # NoRequest, Saved(h)'
          PROVE  receipt'[RequestOf[h]].kind = "approval" /\ receipt'[RequestOf[h]].of = h
      <4>0. RequestOf[h] \in Requests BY <3>3 DEF Requests
      <4>1. CASE h = g BY <2>6, <2>7, <4>0, <4>1
      <4>2. CASE h # g
        <5>1. Saved(h) BY <3>1, <3>3, <4>2
        <5>2. receipt[RequestOf[h]].kind = "approval" /\ receipt[RequestOf[h]].of = h
          BY <3>3, <5>1, ApprovalNow DEF OneOutcomePerRequest
        <5>3. RequestOf[h] # RequestOf[g]
          <6>1. NoReceipt.kind = "none" BY DEF NoReceipt
          <6> QED BY <2>8, <3>3, <5>2, <6>1
        <5> QED BY <2>7, <4>0, <5>2, <5>3
      <4> QED BY <4>1, <4>2
    <3>4. ASSUME NEW r \in Requests, receipt'[r].kind = "revocation"
          PROVE  revoked'[receipt'[r].of] = [by |-> r, at |-> receipt'[r].expected + 1,
                                      permits |-> revoked'[receipt'[r].of].permits]
      <4>1. receipt'[r] = receipt[r] BY <2>6, <2>7, <3>4
      <4> QED BY <1>1, <3>4, <4>1, ApprovalNow DEF OneOutcomePerRequest
    <3> QED BY <3>2, <3>3, <3>4 DEF OneOutcomePerRequest
  <2>14. PermitPerCommand' BY <1>1, PermitFrame, ApprovalNow
  <2>15. RevocationsTell' BY <1>1, RevocationFrame, ApprovalNow
  <2>16. RecordsAreAnswered' BY <1>1, RecordFrame, ApprovalNow
  <2>17. CallsTell' BY <1>1, ApprovalNow DEF CallsTell
  <2>18. Quiet BY <1>1 DEF Quiet
  <2> QED BY <1>2, <2>11, <2>12, <2>13, <2>14, <2>15, <2>16, <2>17, <2>18 DEF ApprovalInv
<1> QED BY <1>3, <1>4

-----------------------------------------------------------------------------
(* execute_plan and prepare_delivery *)

\* A grant that is spent outside a reservation.
LEMMA SpendKeeps ==
    ASSUME ApprovalInv, NEW c \in Callers, NEW g \in Grants, NEW x \in CallStates,
           grant' = [grant EXCEPT ![g].status = "consumed"],
           spent' = [spent EXCEPT ![g] = @ \cup {Use(c)}],
           hold' = hold, receipt' = receipt, revoked' = revoked, revision' = revision,
           record' = record, now' = now, issuing' = issuing, revoking' = revoking, acted' = acted,
           RecordOf[c] = NoRecord, Active(g), Free(g), Live(g),
           permit' \in [Grants -> Callers \cup {NoRequest}],
           \A h \in Grants : h # g => permit'[h] = permit[h], PermitPerCommand',
           call' = [call EXCEPT ![c] = x], x.pc \notin {"held", "recorded", "failing", "undoing"},
           call[c].pc \notin {"recorded", "failing", "undoing", "done", "stuck"}, x.grant \in Grants,
           x.pc \in {"read", "prepared"} => KindOf[c] = "deliver"
    PROVE  ApprovalInv' /\ Quiet
<1>1. /\ grant' \in [Grants -> GrantRows] /\ grant'[g].status = "consumed"
      /\ \A h \in Grants : h # g => grant'[h] = grant[h]
  BY SpentRow
<1>2. PICK u \in UseRecords : u = Use(c) /\ u.via # "hold" BY UseIs
<1>3. /\ spent' \in [Grants -> SUBSET UseRecords] /\ spent'[g] = spent[g] \cup {u}
      /\ \A h \in Grants : h # g => spent'[h] = spent[h]
  BY <1>2, ApprovalNow
<1>4. grant[g].status = "pending" /\ hold[g].status \in {"none", "released"} /\ ~IsRevoked(g)
  BY DEF Live, Free, Active
<1>5. spent[g] = {} BY <1>4, ApprovalNow DEF BooksTell
<1>6. ASSUME NEW h \in Grants PROVE BooksTell(h)'
  <2>1. CASE h # g BY <1>1, <1>3, <2>1, BooksFrame, ApprovalNow
  <2>2. CASE h = g
    <3>1. spent'[g] = {u} BY <1>3, <1>5
    <3>2. BooksTell(g)' BY <1>1, <1>2, <1>4, <3>1 DEF BooksTell
    <3> QED BY <2>2, <3>2
  <2> QED BY <2>1, <2>2
<1>7. call' \in [Callers -> CallStates] /\ CallsTell' /\ RecordsAreAnswered' BY CallStep
<1>8. ApprovalTypeOK' BY <1>1, <1>3, <1>7, ApprovalNow, ApprovalTypesNext
<1>9. OneOutcomePerRequest'
  <2>1. \A h \in Grants : grant'[h].status = "none" <=> grant[h].status = "none" BY <1>1, <1>4
  <2> QED BY <2>1, OutcomeFrame, ApprovalNow
<1>10. \A h \in Grants : IsRevoked(h) => h # g BY <1>4
<1>11. RevocationsTell' BY <1>10, RevocationFrame, ApprovalNow
<1>12. RevokersTell' BY ApprovalNow DEF RevokersTell
<1>13. Quiet BY <1>3, <1>10 DEF Quiet
<1> QED BY <1>6, <1>7, <1>8, <1>9, <1>11, <1>12, <1>13 DEF ApprovalInv

LEMMA ConsumeGrantKeeps ==
    ASSUME ApprovalInv, NEW c \in Callers, NEW g \in Grants, ConsumeGrant(c, g)
    PROVE  ApprovalInv' /\ Quiet
<1>1. /\ KindOf[c] = "execute" /\ call[c].pc = "idle"
      /\ now' = now /\ issuing' = issuing /\ hold' = hold /\ revision' = revision
      /\ revoked' = revoked /\ receipt' = receipt /\ permit' = permit /\ record' = record
      /\ revoking' = revoking /\ acted' = acted
  BY DEF ConsumeGrant
<1>2. RecordOf[c] = NoRecord BY <1>1, UseIs
<1>30. PICK x : x = [pc |-> IF Consumable(g) THEN "approved" ELSE "refused",
                    grant |-> g, version |-> 0]
  OBVIOUS
<1>3. /\ x = [pc |-> IF Consumable(g) THEN "approved" ELSE "refused", grant |-> g, version |-> 0]
      /\ x.pc = (IF Consumable(g) THEN "approved" ELSE "refused")
      /\ x.grant = g /\ x \in CallStates
  BY <1>30 DEF CallStates, CallPcs
<1>4. call' = [call EXCEPT ![c] = x] BY <1>3 DEF ConsumeGrant
<1>5. CASE Consumable(g)
  <2>1. /\ grant' = [grant EXCEPT ![g].status = "consumed"]
        /\ spent' = [spent EXCEPT ![g] = @ \cup {Use(c)}]
    BY <1>5 DEF ConsumeGrant
  <2>2. Active(g) /\ Free(g) /\ Live(g) BY <1>5 DEF Consumable
  <2>3. PermitPerCommand' BY <1>1, PermitFrame, ApprovalNow
  <2>4. permit' \in [Grants -> Callers \cup {NoRequest}] BY <1>1, ApprovalNow
  <2>5. x.pc = "approved" BY <1>3, <1>5
  <2>6. \A h \in Grants : h # g => permit'[h] = permit[h] BY <1>1
  <2> QED BY <1>1, <1>2, <1>3, <1>4, <2>1, <2>2, <2>3, <2>4, <2>5, <2>6, SpendKeeps
<1>6. CASE ~Consumable(g)
  <2>1. grant' = grant /\ spent' = spent BY <1>6 DEF ConsumeGrant
  <2>2. UNCHANGED books BY <1>1, <2>1 DEF books
  <2>3. x.pc = "refused" BY <1>3, <1>6
  <2> QED BY <1>1, <1>3, <1>4, <2>1, <2>2, <2>3, ApprovalNow, OnlyTheCall
<1> QED BY <1>5, <1>6

LEMMA AdmitApprovedKeeps ==
    ASSUME ApprovalInv, NEW c \in Callers, AdmitApproved(c) PROVE ApprovalInv' /\ Quiet
<1>1. /\ call[c].pc = "approved" /\ UNCHANGED books /\ now' = now /\ issuing' = issuing
      /\ record' = record /\ revoking' = revoking /\ spent' = spent
  BY DEF AdmitApproved
<1>2. PICK g \in Grants : g = call[c].grant BY <1>1, ApprovalNow DEF CallsTell
<1>3. PICK pc \in CallPcs : /\ pc \in {"done", "refused"} /\ Proceed(c, pc)
                            /\ acted' = acted \/ (VerifyConsumed(g) /\ acted' = acted \cup {g})
  BY <1>2 DEF AdmitApproved, CallPcs
<1>4. PICK x \in CallStates : call' = [call EXCEPT ![c] = x] /\ x.pc = pc BY <1>3, ProceedIs
<1>5. acted' \subseteq Grants BY <1>3, ApprovalNow
<1>6. \A h \in Grants : IsRevoked(h) => (h \in acted' => h \in acted)
  BY <1>3 DEF VerifyConsumed, Active
<1> QED BY <1>1, <1>3, <1>4, <1>5, <1>6, OnlyTheCall

LEMMA ReadControlKeeps ==
    ASSUME ApprovalInv, NEW c \in Callers, NEW g \in Grants, ReadControl(c, g)
    PROVE  ApprovalInv' /\ Quiet
<1>1. /\ KindOf[c] = "deliver" /\ call[c].pc = "idle" /\ UNCHANGED books /\ now' = now /\ issuing' = issuing
      /\ record' = record /\ revoking' = revoking /\ spent' = spent /\ acted' = acted
  BY DEF ReadControl
<1>20. PICK x : x = [pc |-> "read", grant |-> g, version |-> revision] OBVIOUS
<1>2. /\ x = [pc |-> "read", grant |-> g, version |-> revision]
      /\ x.pc = "read" /\ x.grant = g /\ x \in CallStates
  BY <1>20, ApprovalNow DEF CallStates, CallPcs
<1>3. call' = [call EXCEPT ![c] = x] BY <1>2 DEF ReadControl
<1> QED BY <1>1, <1>2, <1>3, ApprovalNow, OnlyTheCall

LEMMA RetryDeliveryKeeps ==
    ASSUME ApprovalInv, NEW c \in Callers, RetryDelivery(c) PROVE ApprovalInv' /\ Quiet
<1>1. /\ call[c].pc = "prepared" /\ UNCHANGED books /\ now' = now /\ issuing' = issuing
      /\ record' = record /\ revoking' = revoking /\ spent' = spent /\ acted' = acted
  BY DEF RetryDelivery
<1>0. PICK g \in Grants : g = call[c].grant /\ KindOf[c] = "deliver" BY <1>1, ApprovalNow DEF CallsTell
<1>20. PICK x : x = [pc |-> "read", grant |-> g, version |-> revision] OBVIOUS
<1>2. /\ x = [pc |-> "read", grant |-> g, version |-> revision]
      /\ x.pc = "read" /\ x.grant = g /\ x \in CallStates
  BY <1>20, ApprovalNow DEF CallStates, CallPcs
<1>3. call' = [call EXCEPT ![c] = x] BY <1>0, <1>2 DEF RetryDelivery
<1> QED BY <1>0, <1>1, <1>2, <1>3, ApprovalNow, OnlyTheCall

\* A grant that is spent under the reservation that holds it.
LEMMA SpendHeldKeeps ==
    ASSUME ApprovalInv, NEW c \in Callers, NEW g \in Grants, NEW x \in CallStates,
           grant' = [grant EXCEPT ![g].status = "consumed"],
           hold' = [hold EXCEPT ![g].status = "committed"],
           spent' = [spent EXCEPT ![g] = @ \cup {Use(c)}],
           receipt' = receipt, revoked' = revoked, revision' = revision,
           record' = record, now' = now, issuing' = issuing, revoking' = revoking, acted' = acted,
           RecordOf[c] # NoRecord, Active(g), Live(g),
           hold[g] = [by |-> RecordOf[c], status |-> "reserved"],
           permit' \in [Grants -> Callers \cup {NoRequest}],
           \A h \in Grants : h # g => permit'[h] = permit[h], PermitPerCommand',
           call' = [call EXCEPT ![c] = x], x.pc \notin {"held", "recorded", "failing", "undoing"},
           call[c].pc \notin {"recorded", "failing", "undoing", "done", "stuck"}, x.grant \in Grants,
           x.pc \in {"read", "prepared"} => KindOf[c] = "deliver"
    PROVE  ApprovalInv' /\ Quiet
<1>1. /\ grant' \in [Grants -> GrantRows] /\ grant'[g].status = "consumed"
      /\ \A h \in Grants : h # g => grant'[h] = grant[h]
  BY SpentRow
<1>2. PICK u \in UseRecords : u = Use(c) /\ u.via = "hold" /\ u.by = RecordOf[c] BY UseIs
<1>3. /\ spent' \in [Grants -> SUBSET UseRecords] /\ spent'[g] = spent[g] \cup {u}
      /\ \A h \in Grants : h # g => spent'[h] = spent[h]
  BY <1>2, ApprovalNow
<1>4. grant[g].status = "pending" /\ hold[g].by = RecordOf[c] /\ ~IsRevoked(g)
  BY DEF Live, Active
<1>5. spent[g] = {} BY <1>4, ApprovalNow DEF BooksTell
<1>6. /\ hold' \in [Grants -> HoldRows] /\ hold'[g].status = "committed"
      /\ hold'[g].by = RecordOf[c] /\ \A h \in Grants : h # g => hold'[h] = hold[h]
  <2>1. PICK y \in HoldRows : y = hold[g] BY ApprovalNow
  <2>2. PICK z : z = [y EXCEPT !.status = "committed"] OBVIOUS
  <2>3. z \in HoldRows /\ z.status = "committed" /\ z.by = y.by BY <2>2 DEF HoldRows
  <2>4. hold' = [hold EXCEPT ![g] = z] BY <2>1, <2>2
  <2> QED BY <1>4, <2>1, <2>3, <2>4, ApprovalNow
<1>7. ASSUME NEW h \in Grants PROVE BooksTell(h)'
  <2>1. CASE h # g BY <1>1, <1>3, <1>6, <2>1, BooksFrame, ApprovalNow
  <2>2. CASE h = g
    <3>1. spent'[g] = {u} BY <1>3, <1>5
    <3>2. BooksTell(g)' BY <1>1, <1>2, <1>6, <3>1 DEF BooksTell
    <3> QED BY <2>2, <3>2
  <2> QED BY <2>1, <2>2
<1>8. call' \in [Callers -> CallStates] /\ CallsTell' /\ RecordsAreAnswered' BY CallStep
<1>9. ApprovalTypeOK' BY <1>1, <1>3, <1>6, <1>8, ApprovalNow, ApprovalTypesNext
<1>10. OneOutcomePerRequest'
  <2>1. \A h \in Grants : grant'[h].status = "none" <=> grant[h].status = "none" BY <1>1, <1>4
  <2> QED BY <2>1, OutcomeFrame, ApprovalNow
<1>11. \A h \in Grants : IsRevoked(h) => h # g BY <1>4
<1>12. RevocationsTell' BY <1>11, RevocationFrame, ApprovalNow
<1>13. RevokersTell' BY ApprovalNow DEF RevokersTell
<1>14. Quiet BY <1>3, <1>11 DEF Quiet
<1> QED BY <1>7, <1>8, <1>9, <1>10, <1>12, <1>13, <1>14 DEF ApprovalInv

LEMMA PrepareDeliveryKeeps ==
    ASSUME ApprovalInv, NEW c \in Callers, PrepareDelivery(c) PROVE ApprovalInv' /\ Quiet
<1>1. /\ call[c].pc = "read" /\ now' = now /\ issuing' = issuing
      /\ revision' = revision /\ revoked' = revoked /\ receipt' = receipt /\ record' = record
      /\ revoking' = revoking /\ acted' = acted
  BY DEF PrepareDelivery
<1>2. PICK g \in Grants : g = call[c].grant /\ KindOf[c] = "deliver"
  BY <1>1, ApprovalNow DEF CallsTell
<1>4. CASE Active(g) /\ permit[g] # c /\ Preparable(c, g)
  <2>1. /\ grant' = [grant EXCEPT ![g].status = "consumed"]
        /\ hold' = IF RecordOf[c] = NoRecord THEN hold ELSE [hold EXCEPT ![g].status = "committed"]
        /\ permit' = [permit EXCEPT ![g] = c]
        /\ spent' = [spent EXCEPT ![g] = @ \cup {Use(c)}]
        /\ Proceed(c, "prepared")
    BY <1>2, <1>4 DEF PrepareDelivery
  <2>2. PICK pc \in CallPcs : pc = "prepared" BY DEF CallPcs
  <2>3. PICK x \in CallStates : call' = [call EXCEPT ![c] = x] /\ x.pc = "prepared" /\ x.grant = g
    BY <1>2, <2>1, <2>2, ProceedIs
  <2>4. Active(g) /\ Unhindered(c, g) /\ Live(g) /\ ~IntentClaimed(PlanOf[g])
    BY <1>4 DEF Preparable
  <2>5. /\ permit' \in [Grants -> Callers \cup {NoRequest}]
        /\ \A h \in Grants : h # g => permit'[h] = permit[h]
    BY <2>1, ApprovalNow
  <2>6. PermitPerCommand' BY <2>4, <2>5, ApprovalNow DEF PermitPerCommand, IntentClaimed
  <2>7. /\ grant' = [grant EXCEPT ![g].status = "consumed"]
        /\ spent' = [spent EXCEPT ![g] = @ \cup {Use(c)}]
    BY <2>1
  <2>8. /\ x.pc \notin {"held", "recorded", "failing", "undoing"} /\ x.grant \in Grants
        /\ x.pc \in {"read", "prepared"} => KindOf[c] = "deliver"
        /\ call' = [call EXCEPT ![c] = x]
    BY <1>2, <2>3
  <2>9. call[c].pc \notin {"recorded", "failing", "undoing", "done", "stuck"} BY <1>1
  <2>10. CASE RecordOf[c] = NoRecord
    <3>1. Active(g) /\ Free(g) /\ Live(g) BY <2>4, <2>10 DEF Unhindered
    <3>2. hold' = hold BY <2>1, <2>10
    <3> QED BY <1>1, <2>5, <2>6, <2>7, <2>8, <2>9, <2>10, <3>1, <3>2, SpendKeeps
  <2>11. CASE RecordOf[c] # NoRecord
    <3>1. hold[g] = [by |-> RecordOf[c], status |-> "reserved"] BY <2>4, <2>11 DEF Unhindered
    <3>2. hold' = [hold EXCEPT ![g].status = "committed"] BY <2>1, <2>11
    <3>3. Active(g) /\ Live(g) BY <2>4
    <3> QED BY <1>1, <2>5, <2>6, <2>7, <2>8, <2>9, <2>11, <3>1, <3>2, <3>3, SpendHeldKeeps
  <2> QED BY <2>10, <2>11
<1>5. CASE ~(Active(g) /\ permit[g] # c /\ Preparable(c, g))
  <2>1. PICK pc \in CallPcs : pc \in {"prepared", "idle"} /\ Proceed(c, pc)
    BY <1>2, <1>5 DEF PrepareDelivery, CallPcs
  <2>2. grant' = grant /\ hold' = hold /\ permit' = permit /\ spent' = spent
    BY <1>2, <1>5 DEF PrepareDelivery
  <2>3. PICK x \in CallStates : call' = [call EXCEPT ![c] = x] /\ x.pc = pc /\ x.grant = g
    BY <1>2, <2>1, ProceedIs
  <2>4. UNCHANGED books BY <1>1, <2>2 DEF books
  <2> QED BY <1>1, <1>2, <2>1, <2>2, <2>3, <2>4, ApprovalNow, OnlyTheCall
<1> QED BY <1>4, <1>5

-----------------------------------------------------------------------------
(* Reservations *)

LEMMA ReserveGrantKeeps ==
    ASSUME ApprovalInv, NEW c \in Callers, NEW g \in Grants, ReserveGrant(c, g)
    PROVE  ApprovalInv' /\ Quiet
<1>1. /\ KindOf[c] \in Holding /\ call[c].pc = "idle"
      /\ now' = now /\ issuing' = issuing /\ grant' = grant /\ revision' = revision
      /\ revoked' = revoked /\ receipt' = receipt /\ permit' = permit /\ record' = record
      /\ revoking' = revoking /\ spent' = spent /\ acted' = acted
  BY DEF ReserveGrant
<1>2. CASE Reservable(g, RecordOf[c])
  <2>1. PICK y : y = [by |-> RecordOf[c], status |-> "reserved"] OBVIOUS
  <2>2. y \in HoldRows /\ y.status = "reserved" BY <1>1, <2>1, UseIs DEF HoldRows
  <2>3. PICK x : x = [pc |-> "held", grant |-> g, version |-> 0] OBVIOUS
  <2>4. x \in CallStates /\ x.pc = "held" /\ x.grant = g BY <2>3 DEF CallStates, CallPcs
  <2>5. hold' = [hold EXCEPT ![g] = y] /\ call' = [call EXCEPT ![c] = x]
    BY <1>2, <2>1, <2>3 DEF ReserveGrant
  <2>6. /\ hold' \in [Grants -> HoldRows] /\ hold'[g].status = "reserved"
        /\ \A h \in Grants : h # g => hold'[h] = hold[h]
    BY <2>2, <2>5, ApprovalNow
  <2>7. grant[g].status = "pending" BY <1>2 DEF Reservable, Live
  <2>8. ASSUME NEW h \in Grants PROVE BooksTell(h)'
    <3>1. CASE h # g BY <1>1, <2>6, <3>1, BooksFrame, ApprovalNow
    <3>2. CASE h = g
      <4>1. BooksTell(g) BY ApprovalNow
      <4>2. spent[g] = {} /\ permit[g] = NoRequest BY <2>7, <4>1 DEF BooksTell
      <4>3. BooksTell(g)' BY <1>1, <2>6, <2>7, <4>2 DEF BooksTell
      <4> QED BY <3>2, <4>3
    <3> QED BY <3>1, <3>2
  <2>9. call' \in [Callers -> CallStates] /\ CallsTell' /\ RecordsAreAnswered'
    BY <1>1, <2>4, <2>5, CallStep
  <2>10. ApprovalTypeOK' BY <1>1, <2>6, <2>9, ApprovalNow, ApprovalTypesNext
  <2>11. OneOutcomePerRequest' BY <1>1, OutcomeFrame, ApprovalNow
  <2>12. PermitPerCommand' BY <1>1, PermitFrame, ApprovalNow
  <2>13. RevocationsTell' BY <1>1, RevocationFrame, ApprovalNow
  <2>14. RevokersTell' BY <1>1, ApprovalNow DEF RevokersTell
  <2>15. Quiet BY <1>1 DEF Quiet
  <2> QED BY <2>8, <2>9, <2>10, <2>11, <2>12, <2>13, <2>14, <2>15 DEF ApprovalInv
<1>3. CASE ~Reservable(g, RecordOf[c])
  <2>1. PICK x : x = [pc |-> "refused", grant |-> g, version |-> 0] OBVIOUS
  <2>2. x \in CallStates /\ x.pc = "refused" BY <2>1 DEF CallStates, CallPcs
  <2>3. hold' = hold /\ call' = [call EXCEPT ![c] = x] BY <1>3, <2>1 DEF ReserveGrant
  <2>4. UNCHANGED books BY <1>1, <2>3 DEF books
  <2> QED BY <1>1, <2>2, <2>3, <2>4, ApprovalNow, OnlyTheCall
<1> QED BY <1>2, <1>3

\* A step of a call that moves the call and writes its own row.
LEMMA OnlyTheRow ==
    ASSUME ApprovalInv, NEW c \in Callers, NEW x \in CallStates, NEW y \in CreatedRows,
           KindOf[c] \in Holding, call' = [call EXCEPT ![c] = x],
           record' = [record EXCEPT ![RowOf(c)] = y],
           UNCHANGED books, spent' = spent, now' = now, issuing' = issuing,
           revoking' = revoking, acted' = acted, x.grant \in Grants,
           x.pc \notin {"approved", "read", "prepared"},
           y.status = "active" => Answering(KindOf[c], x.pc) /\ x.grant = y.grant
    PROVE  ApprovalInv' /\ Quiet
<1>1. PICK k \in RecordRows : k = RowOf(c) BY DEF RecordRows
<1>2. /\ record' \in [RecordRows -> CreatedRows] /\ record'[k] = y
      /\ \A j \in RecordRows : j # k => record'[j] = record[j]
  BY <1>1, ApprovalNow
<1>3. /\ call' \in [Callers -> CallStates] /\ call'[c] = x
      /\ \A d \in Callers : d # c => call'[d] = call[d]
  BY ApprovalNow
<1>4. CallsTell' BY <1>3, ApprovalNow DEF CallsTell
<1>5. RecordsAreAnswered' BY <1>1, <1>2, AnswersStep
<1>6. /\ \A h \in Grants : BooksTell(h)'
      /\ OneOutcomePerRequest' /\ PermitPerCommand' /\ RevocationsTell'
      /\ grant' = grant /\ hold' = hold /\ revision' = revision /\ revoked' = revoked
      /\ receipt' = receipt /\ permit' = permit
  BY BooksStay
<1>7. ApprovalTypeOK' BY <1>2, <1>3, <1>6, ApprovalNow, ApprovalTypesNext
<1>8. RevokersTell' BY ApprovalNow DEF RevokersTell
<1>9. Quiet BY <1>6 DEF Quiet
<1> QED BY <1>4, <1>5, <1>6, <1>7, <1>8, <1>9 DEF ApprovalInv

LEMMA CreateRecordKeeps ==
    ASSUME ApprovalInv, NEW c \in Callers, CreateRecord(c) PROVE ApprovalInv' /\ Quiet
<1>1. /\ call[c].pc = "held" /\ UNCHANGED books /\ now' = now /\ issuing' = issuing
      /\ revoking' = revoking /\ spent' = spent /\ acted' = acted
  BY DEF CreateRecord
<1>2. PICK g \in Grants : g = call[c].grant /\ KindOf[c] \in Holding
  BY <1>1, ApprovalNow DEF CallsTell
<1>3. PICK y : y = [status |-> "active", grant |-> g] OBVIOUS
<1>4. y \in CreatedRows /\ y.grant = g BY <1>3 DEF CreatedRows
<1>5. PICK pc \in CallPcs : /\ pc \in {"recorded", "failing"} /\ Proceed(c, pc)
                            /\ \/ record' = [record EXCEPT ![RowOf(c)] = y]
                               \/ pc = "failing" /\ record' = record
  <2>1. "recorded" \in CallPcs /\ "failing" \in CallPcs BY DEF CallPcs
  <2> QED BY <1>2, <1>3, <2>1 DEF CreateRecord
<1>6. PICK x \in CallStates : call' = [call EXCEPT ![c] = x] /\ x.pc = pc /\ x.grant = g
  BY <1>2, <1>5, ProceedIs
<1>7. CASE record' = [record EXCEPT ![RowOf(c)] = y]
  <2>1. Answering(KindOf[c], x.pc) BY <1>5, <1>6 DEF Answering
  <2> QED BY <1>1, <1>2, <1>4, <1>5, <1>6, <1>7, <2>1, OnlyTheRow
<1>8. CASE pc = "failing" /\ record' = record
  BY <1>1, <1>2, <1>6, <1>8, ApprovalNow, OnlyTheCall
<1> QED BY <1>5, <1>7, <1>8

\* The rows that commit_reservation_batch writes.
LEMMA CommitRows ==
    ASSUME ApprovalInv, NEW ids \in SUBSET Grants,
           grant' = [g \in Grants |-> IF g \in ids THEN [grant[g] EXCEPT !.status = "consumed"] ELSE grant[g]],
           hold' = [g \in Grants |-> IF g \in ids THEN [hold[g] EXCEPT !.status = "committed"] ELSE hold[g]]
    PROVE  /\ grant' \in [Grants -> GrantRows] /\ hold' \in [Grants -> HoldRows]
           /\ \A g \in ids : /\ grant'[g].status = "consumed" /\ hold'[g].status = "committed"
                             /\ hold'[g].by = hold[g].by
           /\ \A g \in Grants \ ids : grant'[g] = grant[g] /\ hold'[g] = hold[g]
<1>1. ASSUME NEW y \in GrantRows PROVE LET x == [y EXCEPT !.status = "consumed"] IN
        x \in GrantRows /\ x.status = "consumed"
  BY DEF GrantRows
<1>2. ASSUME NEW y \in HoldRows PROVE LET x == [y EXCEPT !.status = "committed"] IN
        x \in HoldRows /\ x.status = "committed" /\ x.by = y.by
  BY DEF HoldRows
<1>3. ASSUME NEW g \in Grants
      PROVE  /\ grant'[g] \in GrantRows /\ hold'[g] \in HoldRows
             /\ g \in ids => /\ grant'[g].status = "consumed" /\ hold'[g].status = "committed"
                             /\ hold'[g].by = hold[g].by
             /\ g \notin ids => grant'[g] = grant[g] /\ hold'[g] = hold[g]
  <2>1. grant[g] \in GrantRows /\ hold[g] \in HoldRows BY ApprovalNow
  <2>2. CASE g \in ids
    <3>1. grant'[g] = [grant[g] EXCEPT !.status = "consumed"] /\ hold'[g] = [hold[g] EXCEPT !.status = "committed"]
      BY <2>2
    <3> QED BY <1>1, <1>2, <2>1, <2>2, <3>1
  <2>3. CASE g \notin ids BY <2>1, <2>3
  <2> QED BY <2>2, <2>3
<1> QED BY <1>3

LEMMA CommitHoldKeeps ==
    ASSUME ApprovalInv, NEW c \in Callers, CommitHold(c) PROVE ApprovalInv' /\ Quiet
<1>1. /\ call[c].pc = "recorded" /\ now' = now /\ issuing' = issuing /\ revision' = revision
      /\ revoked' = revoked /\ receipt' = receipt /\ permit' = permit /\ record' = record
      /\ revoking' = revoking /\ acted' = acted
  BY DEF CommitHold
<1>2. PICK g \in Grants : g = call[c].grant /\ KindOf[c] \in Holding
  BY <1>1, ApprovalNow DEF CallsTell
<1>3. PICK ids \in SUBSET Grants : ids = HeldUnder(RecordOf[c]) BY DEF HeldUnder
<1>4. CASE \A h \in ids : Committable(h)
  <2>1. /\ grant' = [h \in Grants |-> IF h \in ids THEN [grant[h] EXCEPT !.status = "consumed"] ELSE grant[h]]
        /\ hold' = [h \in Grants |-> IF h \in ids THEN [hold[h] EXCEPT !.status = "committed"] ELSE hold[h]]
        /\ spent' = [h \in Grants |-> IF h \in ids THEN spent[h] \cup {Use(c)} ELSE spent[h]]
        /\ Proceed(c, "done")
    BY <1>3, <1>4 DEF CommitHold
  <2>2. /\ grant' \in [Grants -> GrantRows] /\ hold' \in [Grants -> HoldRows]
        /\ \A h \in ids : /\ grant'[h].status = "consumed" /\ hold'[h].status = "committed"
                          /\ hold'[h].by = hold[h].by
        /\ \A h \in Grants \ ids : grant'[h] = grant[h] /\ hold'[h] = hold[h]
    BY <2>1, CommitRows
  <2>3. PICK u \in UseRecords : /\ u = Use(c) /\ u = [via |-> "hold", by |-> RecordOf[c]]
                                /\ u.via = "hold" /\ u.by = RecordOf[c]
    BY <1>2, UseIs
  <2>4. /\ spent' \in [Grants -> SUBSET UseRecords]
        /\ \A h \in ids : spent'[h] = spent[h] \cup {u}
        /\ \A h \in Grants \ ids : spent'[h] = spent[h]
    BY <2>1, <2>3, ApprovalNow
  <2>5. ASSUME NEW h \in ids PROVE spent'[h] = {u} /\ hold[h].by = RecordOf[c] /\ grant[h].status # "none"
                                   /\ ~IsRevoked(h)
    <3>0. h \in Grants /\ BooksTell(h) BY ApprovalNow
    <3>1. hold[h].by = RecordOf[c] BY <1>3 DEF HeldUnder
    <3>2. Committable(h) BY <1>4
    <3>3. CASE hold[h].status = "reserved"
      <4>1. grant[h].status = "pending" BY <3>0, <3>3 DEF BooksTell
      <4>2. spent[h] = {} BY <3>0, <4>1 DEF BooksTell
      <4> QED BY <2>4, <3>1, <3>2, <4>1, <4>2 DEF Committable, Active
    <3>4. CASE hold[h].status = "committed" /\ grant[h].status = "consumed"
      <4>1. PICK w \in UseRecords : spent[h] = {w} BY <3>0, <3>4 DEF BooksTell
      <4>2. w.via = "hold" /\ w.by = hold[h].by BY <3>0, <3>4, <4>1 DEF BooksTell
      <4>3. w = u BY <2>3, <3>1, <4>2 DEF UseRecords
      <4> QED BY <2>4, <3>1, <3>2, <3>4, <4>1, <4>3 DEF Committable, Active
    <3> QED BY <3>2, <3>3, <3>4 DEF Committable
  <2>6. ASSUME NEW h \in Grants PROVE BooksTell(h)'
    <3>1. CASE h \notin ids BY <1>1, <2>2, <2>4, <3>1, BooksFrame, ApprovalNow
    <3>2. CASE h \in ids
      <4>1. /\ spent'[h] = {u} /\ grant'[h].status = "consumed" /\ hold'[h].status = "committed"
            /\ hold'[h].by = RecordOf[c]
        BY <2>2, <2>5, <3>2
      <4> QED BY <2>3, <4>1 DEF BooksTell
    <3> QED BY <3>1, <3>2
  <2>7. PICK pc \in CallPcs : pc = "done" BY DEF CallPcs
  <2>8. PICK x \in CallStates : call' = [call EXCEPT ![c] = x] /\ x.pc = "done" /\ x.grant = g
    BY <1>2, <2>1, <2>7, ProceedIs
  <2>9. call' \in [Callers -> CallStates] /\ CallsTell' /\ RecordsAreAnswered'
    BY <1>1, <1>2, <2>8, CallStep
  <2>10. ApprovalTypeOK' BY <1>1, <2>2, <2>4, <2>9, ApprovalNow, ApprovalTypesNext
  <2>11. OneOutcomePerRequest'
    <3>1. \A h \in Grants : grant'[h].status = "none" <=> grant[h].status = "none" BY <2>2, <2>5
    <3> QED BY <1>1, <3>1, OutcomeFrame, ApprovalNow
  <2>12. PermitPerCommand' BY <1>1, PermitFrame, ApprovalNow
  <2>13. RevocationsTell' BY <1>1, RevocationFrame, ApprovalNow
  <2>14. RevokersTell' BY <1>1, ApprovalNow DEF RevokersTell
  <2>15. Quiet
    <3>1. \A h \in Grants : IsRevoked(h) => spent'[h] = spent[h] BY <2>4, <2>5
    <3> QED BY <1>1, <3>1 DEF Quiet
  <2> QED BY <2>6, <2>9, <2>10, <2>11, <2>12, <2>13, <2>14, <2>15 DEF ApprovalInv
<1>5. CASE ~(\A h \in ids : Committable(h))
  <2>1. Proceed(c, "failing") /\ grant' = grant /\ hold' = hold /\ spent' = spent
    BY <1>3, <1>5 DEF CommitHold
  <2>2. PICK pc \in CallPcs : pc = "failing" BY DEF CallPcs
  <2>3. PICK x \in CallStates : call' = [call EXCEPT ![c] = x] /\ x.pc = "failing" /\ x.grant = g
    BY <1>2, <2>1, <2>2, ProceedIs
  <2>4. UNCHANGED books BY <1>1, <2>1 DEF books
  <2> QED BY <1>1, <1>2, <2>1, <2>3, <2>4, ApprovalNow, OnlyTheCall
<1> QED BY <1>4, <1>5

\* A failing call that undoes something still names its grant.
LEMMA UndoneIs ==
    ASSUME ApprovalInv, NEW c \in Callers, NEW g, Undone(c), KindOf[c] \in Holding,
           call[c].pc \in {"failing", "undoing"}, g = call[c].grant
    PROVE  \E x \in CallStates :
             /\ call' = [call EXCEPT ![c] = x] /\ x.grant = g
             /\ x.pc = IF call[c].pc = "failing" /\ KindOf[c] # "rule" THEN "undoing" ELSE "failed"
<1>1. PICK pc \in CallPcs :
        pc = IF call[c].pc = "failing" /\ KindOf[c] # "rule" THEN "undoing" ELSE "failed"
  BY DEF CallPcs
<1>2. Proceed(c, pc) BY <1>1 DEF Undone
<1> QED BY <1>1, <1>2, ProceedIs

LEMMA StuckIs ==
    ASSUME ApprovalInv, NEW c \in Callers, NEW g, Proceed(c, "stuck"), g = call[c].grant
    PROVE  \E x \in CallStates : call' = [call EXCEPT ![c] = x] /\ x.grant = g /\ x.pc = "stuck"
<1>1. PICK pc \in CallPcs : pc = "stuck" BY DEF CallPcs
<1>2. Proceed(c, pc) BY <1>1
<1> QED BY <1>1, <1>2, ProceedIs

LEMMA CancelRecordKeeps ==
    ASSUME ApprovalInv, NEW c \in Callers, CancelRecord(c) PROVE ApprovalInv' /\ Quiet
<1>1. /\ UNCHANGED books /\ now' = now /\ issuing' = issuing
      /\ revoking' = revoking /\ spent' = spent /\ acted' = acted
      /\ call[c].pc \in {"failing", "undoing"}
  BY DEF CancelRecord, CancelsNow
<1>2. PICK g \in Grants : g = call[c].grant /\ KindOf[c] \in Holding
  BY <1>1, ApprovalNow DEF CallsTell
<1>3. RowOf(c) \in RecordRows BY <1>2 DEF RecordRows
<1>4. PICK y \in CreatedRows : y = record[RowOf(c)] BY <1>3, ApprovalNow
<1>5. PICK z : z = [y EXCEPT !.status = IF y.status = "active" THEN "cancelled" ELSE y.status] OBVIOUS
<1>6. z \in CreatedRows /\ z.status # "active" BY <1>5 DEF CreatedRows
<1>7. Cancelled(RowOf(c)) = [record EXCEPT ![RowOf(c)] = z] BY <1>4, <1>5 DEF Cancelled
<1>8. CASE Undone(c) /\ record' = Cancelled(RowOf(c))
  <2>1. PICK x \in CallStates : /\ call' = [call EXCEPT ![c] = x] /\ x.grant = g
                                /\ x.pc \in {"undoing", "failed"}
    BY <1>1, <1>2, <1>8, UndoneIs
  <2> QED BY <1>1, <1>2, <1>6, <1>7, <1>8, <2>1, OnlyTheRow
<1>9. CASE Proceed(c, "stuck") /\ record' = Cancelled(RowOf(c))
  <2>1. PICK x \in CallStates : call' = [call EXCEPT ![c] = x] /\ x.grant = g /\ x.pc = "stuck"
    BY <1>2, <1>9, StuckIs
  <2> QED BY <1>1, <1>2, <1>6, <1>7, <1>9, <2>1, OnlyTheRow
<1>10. CASE Proceed(c, "stuck") /\ record' = record
  <2>1. PICK x \in CallStates : call' = [call EXCEPT ![c] = x] /\ x.grant = g /\ x.pc = "stuck"
    BY <1>2, <1>10, StuckIs
  <2> QED BY <1>1, <1>2, <1>10, <2>1, ApprovalNow, OnlyTheCall
<1> QED BY <1>8, <1>9, <1>10 DEF CancelRecord

\* The rows that release_reservation writes, all of them or some.
LEMMA ReleaseRows ==
    ASSUME ApprovalInv, NEW ids, hold' = Released(ids), grant' = grant, spent' = spent,
           permit' = permit
    PROVE  hold' \in [Grants -> HoldRows] /\ \A h \in Grants : BooksTell(h)'
<1>1. ASSUME NEW h \in Grants
      PROVE  /\ hold'[h] \in HoldRows
             /\ hold'[h] = hold[h] \/ (/\ hold[h].status = "reserved" /\ hold'[h].status = "released"
                                      /\ hold'[h].by = hold[h].by)
  <2>1. PICK y \in HoldRows : y = hold[h] BY ApprovalNow
  <2>2. PICK x : x = [y EXCEPT !.status = "released"] OBVIOUS
  <2>3. x \in HoldRows /\ x.status = "released" /\ x.by = y.by BY <2>2 DEF HoldRows
  <2>4. hold'[h] = IF h \in ids /\ y.status = "reserved" THEN x ELSE y
    BY <2>1, <2>2 DEF Released
  <2> QED BY <2>1, <2>3, <2>4
<1>2. hold' \in [Grants -> HoldRows] BY <1>1 DEF Released
<1>3. ASSUME NEW h \in Grants PROVE BooksTell(h)'
  <2>1. CASE hold'[h] = hold[h] BY <2>1, BooksFrame, ApprovalNow
  <2>2. CASE hold[h].status = "reserved" /\ hold'[h].status = "released" /\ hold'[h].by = hold[h].by
    <3>1. BooksTell(h) BY ApprovalNow
    <3> QED BY <2>2, <3>1 DEF BooksTell
  <2> QED BY <1>1, <2>1, <2>2
<1> QED BY <1>2, <1>3

LEMMA ReleaseHoldKeeps ==
    ASSUME ApprovalInv, NEW c \in Callers, ReleaseHold(c) PROVE ApprovalInv' /\ Quiet
<1>1. /\ now' = now /\ issuing' = issuing /\ revision' = revision /\ record' = record
      /\ revoked' = revoked /\ receipt' = receipt /\ permit' = permit /\ grant' = grant
      /\ revoking' = revoking /\ acted' = acted /\ spent' = spent
      /\ call[c].pc \in {"failing", "undoing"} /\ ReleasesNow(c)
  BY DEF ReleaseHold, ReleasesNow
<1>2. PICK g \in Grants : g = call[c].grant /\ KindOf[c] \in Holding
  BY <1>1, ApprovalNow DEF CallsTell
<1>3. PICK ids : hold' = Released(ids) /\ (Undone(c) \/ Proceed(c, "stuck")) BY DEF ReleaseHold
<1>4. hold' \in [Grants -> HoldRows] /\ \A h \in Grants : BooksTell(h)'
  BY <1>1, <1>3, ReleaseRows
<1>5. PICK x \in CallStates : /\ call' = [call EXCEPT ![c] = x] /\ x.grant = g
                              /\ x.pc \in {"undoing", "failed", "stuck"}
                              /\ \/ Answers(c) => Answering(KindOf[c], x.pc)
                                 \/ KindOf[c] = "rule"
  <2>1. CASE Undone(c)
    <3>1. PICK x \in CallStates :
             /\ call' = [call EXCEPT ![c] = x] /\ x.grant = g
             /\ x.pc = IF call[c].pc = "failing" /\ KindOf[c] # "rule" THEN "undoing" ELSE "failed"
      BY <1>1, <1>2, <2>1, UndoneIs
    <3>2. (Answers(c) => Answering(KindOf[c], x.pc)) \/ KindOf[c] = "rule"
      BY <1>1, <1>2, <3>1 DEF ReleasesNow, Answers, Answering, Holding
    <3> QED BY <3>1, <3>2
  <2>2. CASE Proceed(c, "stuck")
    <3>1. PICK x \in CallStates : call' = [call EXCEPT ![c] = x] /\ x.grant = g /\ x.pc = "stuck"
      BY <1>2, <2>2, StuckIs
    <3>2. Answering(KindOf[c], x.pc) BY <3>1 DEF Answering
    <3> QED BY <3>1, <3>2
  <2> QED BY <1>3, <2>1, <2>2
<1>6. /\ call' \in [Callers -> CallStates] /\ call'[c] = x
      /\ \A d \in Callers : d # c => call'[d] = call[d]
  BY <1>5, ApprovalNow
<1>7. CallsTell' BY <1>2, <1>5, <1>6, ApprovalNow DEF CallsTell
<1>8. RecordsAreAnswered'
  <2>1. CASE Answers(c) => Answering(KindOf[c], x.pc) BY <1>1, <1>2, <1>5, <2>1, AnswersStep
  <2>2. CASE KindOf[c] = "rule" BY <1>1, <1>5, <2>2, AnswersStep
  <2> QED BY <1>5, <2>1, <2>2
<1>13. ApprovalTypeOK' BY <1>1, <1>4, <1>6, ApprovalNow, ApprovalTypesNext
<1>14. OneOutcomePerRequest' BY <1>1, OutcomeFrame, ApprovalNow
<1>15. PermitPerCommand' BY <1>1, PermitFrame, ApprovalNow
<1>16. RevocationsTell' BY <1>1, RevocationFrame, ApprovalNow
<1>17. RevokersTell' BY <1>1, ApprovalNow DEF RevokersTell
<1>18. Quiet BY <1>1 DEF Quiet
<1> QED BY <1>4, <1>7, <1>8, <1>13, <1>14, <1>15, <1>16, <1>17, <1>18 DEF ApprovalInv

-----------------------------------------------------------------------------
(* Revocation *)

\* A revoker moves to a state that names its grant while it holds a version.
LEMMA RevokerStep ==
    ASSUME ApprovalInv, NEW v \in Revokers, NEW x \in RevokerStates,
           revoking' = [revoking EXCEPT ![v] = x], x.pc = "read" => x.grant \in Grants
    PROVE  revoking' \in [Revokers -> RevokerStates] /\ RevokersTell'
BY ApprovalNow DEF RevokersTell

LEMMA RevokeReadKeeps ==
    ASSUME ApprovalInv, NEW v \in Revokers, NEW g \in Grants, RevokeRead(v, g)
    PROVE  ApprovalInv' /\ Quiet
<1>1. /\ UNCHANGED books /\ spent' = spent /\ record' = record /\ call' = call
      /\ acted' = acted /\ now' = now /\ issuing' = issuing
  BY DEF RevokeRead
<1>2. PICK y \in ReceiptRows : y = receipt[RequestOf[v]] BY ApprovalNow, ApprovalAssumption DEF Requests
<1>3. y.expected \in Nat BY DEF ReceiptRows
<1>4. PICK n \in Nat : n = (IF y.kind = "revocation" THEN y.expected ELSE revision)
  BY <1>3, ApprovalNow
<1>5. PICK a : a = [Idle EXCEPT !.pc = "refused"] OBVIOUS
<1>6. PICK b : b = [pc |-> "read", grant |-> g, version |-> n] OBVIOUS
<1>7. a \in RevokerStates /\ a.pc = "refused" BY <1>5 DEF Idle, RevokerStates
<1>8. b \in RevokerStates /\ b.grant = g BY <1>6 DEF RevokerStates
<1>9. PICK x \in {a, b} : revoking' = [revoking EXCEPT ![v] = x]
  BY <1>2, <1>4, <1>5, <1>6 DEF RevokeRead
<1>10. x \in RevokerStates /\ (x.pc = "read" => x.grant \in Grants) BY <1>7, <1>8, <1>9
<1>11. revoking' \in [Revokers -> RevokerStates] /\ RevokersTell' BY <1>9, <1>10, RevokerStep
<1> QED BY <1>1, <1>11, ApprovalNow, OnlyOthers

LEMMA RevokeRetryKeeps ==
    ASSUME ApprovalInv, NEW v \in Revokers, RevokeRetry(v) PROVE ApprovalInv' /\ Quiet
<1>1. /\ UNCHANGED books /\ spent' = spent /\ record' = record /\ call' = call
      /\ acted' = acted /\ now' = now /\ issuing' = issuing
      /\ revoking' = [revoking EXCEPT ![v] = Idle]
  BY DEF RevokeRetry
<1>2. Idle \in RevokerStates /\ Idle.pc = "idle" BY DEF Idle, RevokerStates
<1>3. revoking' \in [Revokers -> RevokerStates] /\ RevokersTell' BY <1>1, <1>2, RevokerStep
<1> QED BY <1>1, <1>3, ApprovalNow, OnlyOthers

\* The row, the receipt and the next head of a revocation.
LEMMA RevokedKeeps ==
    ASSUME ApprovalInv, NEW v \in Revokers, NEW g \in Grants,
           revoking' \in [Revokers -> RevokerStates], RevokersTell',
           receipt[RequestOf[v]].kind = "none", ~IsRevoked(g), revision' = revision + 1,
           revoked' = [revoked EXCEPT ![g] = [by |-> RequestOf[v], at |-> revision + 1,
                                              permits |-> PermitsOf(g)]],
           receipt' = [receipt EXCEPT ![RequestOf[v]] =
                          [kind |-> "revocation", of |-> g, expected |-> revision]],
           now' = now, issuing' = issuing, grant' = grant, hold' = hold, permit' = permit,
           record' = record, call' = call, spent' = spent, acted' = acted
    PROVE  ApprovalInv' /\ Quiet
<1>1. PICK q \in Requests : q = RequestOf[v] /\ q # NoRequest BY ApprovalAssumption DEF Requests
<1>2. PICK y : y = [by |-> q, at |-> revision + 1, permits |-> PermitsOf(g)] OBVIOUS
<1>3. PermitsOf(g) \in SUBSET Callers BY ApprovalNow DEF PermitsOf
<1>4. y \in RevocationRows /\ y.by = q /\ y.at = revision + 1 /\ y.permits = PermitsOf(g)
  BY <1>2, <1>3, ApprovalNow DEF RevocationRows
<1>5. PICK z : z = [kind |-> "revocation", of |-> g, expected |-> revision] OBVIOUS
<1>6. z \in ReceiptRows /\ z.kind = "revocation" /\ z.of = g /\ z.expected = revision
  BY <1>5, ApprovalNow DEF ReceiptRows
<1>7. /\ revoked' \in [Grants -> RevocationRows] /\ revoked'[g] = y
      /\ \A h \in Grants : h # g => revoked'[h] = revoked[h]
  BY <1>1, <1>2, <1>4, ApprovalNow
<1>8. /\ receipt' \in [Requests -> ReceiptRows] /\ receipt'[q] = z
      /\ \A r \in Requests : r # q => receipt'[r] = receipt[r]
  BY <1>1, <1>5, <1>6, ApprovalNow
<1>9. revision' \in Nat BY ApprovalNow
<1>10. ApprovalTypeOK' BY <1>7, <1>8, <1>9, ApprovalNow, ApprovalTypesNext
<1>11. \A h \in Grants : IsRevoked(h)' <=> (IsRevoked(h) \/ h = g)
  BY <1>1, <1>4, <1>7 DEF IsRevoked
<1>12. RevocationsTell'
  <2>1. RevokedGrants' = RevokedGrants \cup {g} /\ g \notin RevokedGrants
    BY <1>11 DEF RevokedGrants
  <2>2. IsFiniteSet(RevokedGrants) /\ revision = Cardinality(RevokedGrants)
    BY ApprovalNow DEF RevocationsTell
  <2>3. PICK S : S = RevokedGrants OBVIOUS
  <2>4. IsFiniteSet(S \cup {g}) /\ Cardinality(S \cup {g}) = revision + 1
    BY <2>1, <2>2, <2>3, FS_AddElement
  <2>5. IsFiniteSet(RevokedGrants') /\ revision' = Cardinality(RevokedGrants') BY <2>1, <2>3, <2>4
  <2>6. \A h \in Grants : IsRevoked(h) => revoked[h].at \in Nat /\ revoked[h].at <= revision
    BY ApprovalNow DEF RevocationsTell, RevocationRows
  <2>7. ASSUME NEW h \in Grants, IsRevoked(h)'
        PROVE  revoked'[h].permits = {permit'[h]} \ {NoRequest} /\ revoked'[h].at <= revision'
    <3>1. CASE h = g BY <1>4, <1>7, <1>9, <3>1 DEF PermitsOf
    <3>2. CASE h # g
      <4>1. IsRevoked(h) BY <1>11, <2>7, <3>2
      <4>2. revoked[h].permits = {permit[h]} \ {NoRequest} BY <4>1, ApprovalNow DEF RevocationsTell
      <4>3. revoked[h].at <= revision + 1 BY <2>6, <4>1, ApprovalNow
      <4> QED BY <1>7, <3>2, <4>2, <4>3
    <3> QED BY <3>1, <3>2
  <2>8. ASSUME NEW h \in Grants, NEW k \in Grants, IsRevoked(h)', IsRevoked(k)', h # k
        PROVE  revoked'[h].at # revoked'[k].at
    <3>1. CASE h = g
      <4>1. IsRevoked(k) /\ revoked'[k] = revoked[k] BY <1>7, <1>11, <2>8, <3>1
      <4>2. revoked[k].at # revision + 1 BY <2>6, <4>1, ApprovalNow
      <4> QED BY <1>4, <1>7, <3>1, <4>1, <4>2
    <3>2. CASE k = g
      <4>1. IsRevoked(h) /\ revoked'[h] = revoked[h] BY <1>7, <1>11, <2>8, <3>2
      <4>2. revoked[h].at # revision + 1 BY <2>6, <4>1, ApprovalNow
      <4> QED BY <1>4, <1>7, <3>2, <4>1, <4>2
    <3>3. CASE h # g /\ k # g
      <4>1. IsRevoked(h) /\ IsRevoked(k) BY <1>11, <2>8, <3>3
      <4>2. revoked[h].at # revoked[k].at BY <2>8, <4>1, ApprovalNow DEF RevocationsTell
      <4> QED BY <1>7, <3>3, <4>2
    <3> QED BY <3>1, <3>2, <3>3
  <2> QED BY <2>5, <2>7, <2>8 DEF RevocationsTell
<1>13. OneOutcomePerRequest'
  <2>0. receipt[q].kind = "none" BY <1>1
  <2>1. \A h \in Grants : Saved(h)' <=> Saved(h) BY DEF Saved
  <2>2. ASSUME NEW h \in Grants, NEW k \in Grants, Saved(h)', Saved(k)', NonceOf[h] = NonceOf[k]
        PROVE  h = k
    BY <2>1, <2>2, ApprovalNow DEF OneOutcomePerRequest
  <2>3. ASSUME NEW h \in Grants, RequestOf[h] # NoRequest, Saved(h)'
        PROVE  receipt'[RequestOf[h]].kind = "approval" /\ receipt'[RequestOf[h]].of = h
    <3>1. RequestOf[h] \in Requests BY <2>3 DEF Requests
    <3>2. receipt[RequestOf[h]].kind = "approval" /\ receipt[RequestOf[h]].of = h
      BY <2>1, <2>3, ApprovalNow DEF OneOutcomePerRequest
    <3>3. RequestOf[h] # q BY <2>0, <3>2
    <3> QED BY <1>8, <3>1, <3>2, <3>3
  <2>4. ASSUME NEW r \in Requests, receipt'[r].kind = "revocation"
        PROVE  revoked'[receipt'[r].of] = [by |-> r, at |-> receipt'[r].expected + 1,
                                    permits |-> revoked'[receipt'[r].of].permits]
    <3>1. CASE r = q BY <1>2, <1>4, <1>6, <1>7, <1>8, <3>1
    <3>2. CASE r # q
      <4>1. receipt'[r] = receipt[r] BY <1>8, <3>2
      <4>2. PICK h : h = receipt[r].of OBVIOUS
      <4>3. revoked[h] = [by |-> r, at |-> receipt[r].expected + 1, permits |-> revoked[h].permits]
        BY <2>4, <4>1, <4>2, ApprovalNow DEF OneOutcomePerRequest
      <4>4. revoked[h].by = r BY <4>3
      <4>5. h # g BY <4>4, ApprovalAssumption DEF IsRevoked
      <4>6. revoked'[h] = revoked[h] BY <4>5, ApprovalNow
      <4> QED BY <4>1, <4>2, <4>3, <4>6
    <3> QED BY <3>1, <3>2
  <2> QED BY <2>2, <2>3, <2>4 DEF OneOutcomePerRequest
<1>14. \A h \in Grants : BooksTell(h)' BY BooksFrame, ApprovalNow
<1>15. PermitPerCommand' BY PermitFrame, ApprovalNow
<1>16. RecordsAreAnswered' BY RecordFrame, ApprovalNow
<1>17. CallsTell' BY ApprovalNow DEF CallsTell
<1>18. Quiet BY DEF Quiet
<1> QED BY <1>10, <1>12, <1>13, <1>14, <1>15, <1>16, <1>17, <1>18 DEF ApprovalInv

LEMMA RevokeApplyKeeps ==
    ASSUME ApprovalInv, NEW v \in Revokers, RevokeApply(v) PROVE ApprovalInv' /\ Quiet
<1>1. /\ revoking[v].pc = "read" /\ now' = now /\ issuing' = issuing /\ grant' = grant
      /\ hold' = hold /\ permit' = permit /\ record' = record /\ call' = call /\ spent' = spent
      /\ acted' = acted
  BY DEF RevokeApply
<1>2. PICK g \in Grants : g = revoking[v].grant BY <1>1, ApprovalNow DEF RevokersTell
<1>3. PICK pc \in {"done", "refused"} :
        /\ revoking' = [revoking EXCEPT ![v].pc = pc]
        /\ \/ revision' = revision /\ revoked' = revoked /\ receipt' = receipt
           \/ /\ receipt[RequestOf[v]].kind = "none" /\ Revocable(v, g) /\ revision' = revision + 1
              /\ revoked' = [revoked EXCEPT ![g] = [by |-> RequestOf[v], at |-> revision + 1,
                                                    permits |-> PermitsOf(g)]]
              /\ receipt' = [receipt EXCEPT ![RequestOf[v]] =
                                [kind |-> "revocation", of |-> g, expected |-> revision]]
  BY <1>2 DEF RevokeApply
<1>4. PICK y \in RevokerStates : y = revoking[v] BY ApprovalNow
<1>5. PICK x : x = [y EXCEPT !.pc = pc] OBVIOUS
<1>6. x \in RevokerStates /\ x.pc = pc BY <1>5 DEF RevokerStates
<1>7. revoking' = [revoking EXCEPT ![v] = x] BY <1>3, <1>4, <1>5
<1>8. revoking' \in [Revokers -> RevokerStates] /\ RevokersTell' BY <1>6, <1>7, RevokerStep
<1>9. CASE revision' = revision /\ revoked' = revoked /\ receipt' = receipt
  <2>1. UNCHANGED books BY <1>1, <1>9 DEF books
  <2> QED BY <1>1, <1>8, <2>1, ApprovalNow, OnlyOthers
<1>10. CASE ~(revision' = revision /\ revoked' = revoked /\ receipt' = receipt)
  <2>1. ~IsRevoked(g) BY <1>3, <1>10 DEF Revocable
  <2> QED BY <1>1, <1>3, <1>8, <1>10, <2>1, RevokedKeeps
<1> QED BY <1>9, <1>10

LEMMA ApprovalTickKeeps == ASSUME ApprovalInv, ApprovalTick PROVE ApprovalInv' /\ Quiet
<1>1. /\ UNCHANGED books /\ spent' = spent /\ record' = record /\ call' = call
      /\ acted' = acted /\ issuing' = issuing /\ revoking' = revoking
      /\ now < MaxTime /\ now' = now + 1
  BY DEF ApprovalTick
<1>2. now' \in 0 .. MaxTime BY <1>1, ApprovalNow, ApprovalAssumption
<1>3. RevokersTell' BY <1>1, ApprovalNow DEF RevokersTell
<1> QED BY <1>1, <1>2, <1>3, ApprovalNow, OnlyOthers

-----------------------------------------------------------------------------
\* The ledger is empty and no call has begun; some may have been refused.
LEMMA LedgerStart ==
    ASSUME LedgerInit, call \in [Callers -> CallStates],
           issuing \in [Grants -> {"idle", "checked", "saved", "refused"}],
           \A c \in Callers : call[c].pc \in {"idle", "refused"}
    PROVE  ApprovalInv
<1>1. /\ now = 0 /\ revision = 0 /\ acted = {}
      /\ permit   = [g \in Grants |-> NoRequest]
      /\ spent    = [g \in Grants |-> {}]
  BY DEF LedgerInit
<1>2. PICK y : y = [status |-> "none", until |-> 0] OBVIOUS
<1>3. y \in GrantRows /\ y.status = "none" BY <1>2 DEF GrantRows
<1>4. grant = [g \in Grants |-> y] BY <1>2 DEF LedgerInit
<1>5. PICK h : h = [by |-> NoRecord, status |-> "none"] OBVIOUS
<1>6. h \in HoldRows /\ h.status = "none" BY <1>5 DEF HoldRows
<1>7. hold = [g \in Grants |-> h] BY <1>5 DEF LedgerInit
<1>8. NoRevocation \in RevocationRows /\ NoRevocation.by = NoRequest
  BY DEF NoRevocation, RevocationRows
<1>9. revoked = [g \in Grants |-> NoRevocation] BY DEF LedgerInit
<1>10. NoReceipt \in ReceiptRows /\ NoReceipt.kind = "none" BY DEF NoReceipt, ReceiptRows
<1>11. receipt = [r \in Requests |-> NoReceipt] BY DEF LedgerInit
<1>12. PICK w : w = [status |-> "none", grant |-> NoGrant] OBVIOUS
<1>13. w \in CreatedRows /\ w.status = "none" BY <1>12 DEF CreatedRows
<1>14. record = [r \in RecordRows |-> w] BY <1>12 DEF LedgerInit
<1>15. Idle \in RevokerStates /\ Idle.pc = "idle"
  BY DEF Idle, RevokerStates
<1>16. revoking = [v \in Revokers |-> Idle]
  BY DEF LedgerInit
<1>17. ApprovalTypeOK
  <2>1. now \in 0 .. MaxTime /\ revision \in Nat BY <1>1, ApprovalAssumption
  <2>2. /\ issuing \in [Grants -> {"idle", "checked", "saved", "refused"}]
        /\ permit \in [Grants -> Callers \cup {NoRequest}] /\ spent \in [Grants -> SUBSET UseRecords]
        /\ acted \subseteq Grants
    BY <1>1
  <2>3. grant \in [Grants -> GrantRows] /\ hold \in [Grants -> HoldRows] BY <1>3, <1>4, <1>6, <1>7
  <2>4. revoked \in [Grants -> RevocationRows] /\ receipt \in [Requests -> ReceiptRows]
    BY <1>8, <1>9, <1>10, <1>11
  <2>5. /\ record \in [RecordRows -> CreatedRows] /\ call \in [Callers -> CallStates]
        /\ revoking \in [Revokers -> RevokerStates]
    BY <1>13, <1>14, <1>15, <1>16
  <2> QED BY <2>1, <2>2, <2>3, <2>4, <2>5, ApprovalTypes
<1>18. \A g \in Grants : BooksTell(g) BY <1>1, <1>3, <1>4, <1>6, <1>7 DEF BooksTell
<1>19. CallsTell /\ RevokersTell BY <1>15, <1>16 DEF CallsTell, RevokersTell
<1>20. OneOutcomePerRequest BY <1>3, <1>4, <1>10, <1>11 DEF OneOutcomePerRequest, Saved
<1>21. PermitPerCommand BY <1>1 DEF PermitPerCommand
<1>22. RevocationsTell
  <2>1. \A g \in Grants : ~IsRevoked(g) BY <1>8, <1>9 DEF IsRevoked
  <2>2. RevokedGrants = {} BY <2>1 DEF RevokedGrants
  <2> QED BY <1>1, <2>1, <2>2, FS_EmptySet DEF RevocationsTell
<1>23. RecordsAreAnswered
  <2>1. \A c \in Callers : KindOf[c] \in {"schedule", "recurring"} => RowOf(c) \in RecordRows
    BY DEF RecordRows, Holding
  <2> QED BY <1>13, <1>14, <2>1 DEF RecordsAreAnswered
<1> QED BY <1>17, <1>18, <1>19, <1>20, <1>21, <1>22, <1>23 DEF ApprovalInv

LEMMA ApprovalStart == ASSUME ApprovalInit PROVE ApprovalInv
<1>1. Idle \in CallStates /\ Idle.pc = "idle" BY DEF Idle, CallStates, CallPcs
<1> QED BY <1>1, LedgerStart DEF ApprovalInit

LEMMA ApprovalStutter == ASSUME ApprovalInv, UNCHANGED approvalVars PROVE ApprovalInv'
<1>1. /\ UNCHANGED books /\ spent' = spent /\ record' = record /\ call' = call
      /\ acted' = acted /\ now' = now /\ issuing' = issuing /\ revoking' = revoking
  BY DEF approvalVars
<1>2. RevokersTell' BY <1>1, ApprovalNow DEF RevokersTell
<1> QED BY <1>1, <1>2, ApprovalNow, OnlyOthers

LEMMA ApprovalStep == ASSUME ApprovalInv, ApprovalNext PROVE ApprovalInv' /\ Quiet
<1>1. CASE \E g \in Grants : IssueCheck(g) \/ IssueSave(g)
  BY <1>1, IssueCheckKeeps, IssueSaveKeeps
<1>2. ASSUME NEW c \in Callers,
             \E g \in Grants : ConsumeGrant(c, g) \/ ReadControl(c, g) \/ ReserveGrant(c, g)
      PROVE  ApprovalInv' /\ Quiet
  BY <1>2, ConsumeGrantKeeps, ReadControlKeeps, ReserveGrantKeeps
<1>3. ASSUME NEW c \in Callers,
             \/ AdmitApproved(c) \/ PrepareDelivery(c) \/ RetryDelivery(c)
             \/ CreateRecord(c) \/ CommitHold(c) \/ CancelRecord(c) \/ ReleaseHold(c)
      PROVE  ApprovalInv' /\ Quiet
  BY <1>3, AdmitApprovedKeeps, PrepareDeliveryKeeps, RetryDeliveryKeeps, CreateRecordKeeps,
     CommitHoldKeeps, CancelRecordKeeps, ReleaseHoldKeeps
<1>4. ASSUME NEW v \in Revokers,
             (\E g \in Grants : RevokeRead(v, g)) \/ RevokeApply(v) \/ RevokeRetry(v)
      PROVE  ApprovalInv' /\ Quiet
  BY <1>4, RevokeReadKeeps, RevokeApplyKeeps, RevokeRetryKeeps
<1>5. CASE ApprovalTick BY <1>5, ApprovalTickKeeps
<1> QED BY <1>1, <1>2, <1>3, <1>4, <1>5 DEF ApprovalNext

LEMMA ApprovalPromise ==
    ASSUME ApprovalInv
    PROVE  /\ GrantSpentOnce /\ OneOutcomePerRequest /\ PermitPerCommand
           /\ HoldMatchesGrant /\ RecordsAreAnswered /\ RevocationIsComplete
<1>1. GrantSpentOnce
  <2>1. ASSUME NEW g \in Grants
        PROVE  Cardinality(spent[g]) <= 1 /\ (grant[g].status = "consumed" <=> spent[g] # {})
    <3>1. BooksTell(g) BY ApprovalNow
    <3>2. CASE spent[g] = {} BY <3>1, <3>2, FS_EmptySet DEF BooksTell
    <3>3. CASE \E u \in UseRecords : spent[g] = {u}
      <4>1. PICK u \in UseRecords : spent[g] = {u} BY <3>3
      <4>2. Cardinality({u}) = 1 BY FS_Singleton
      <4> QED BY <3>1, <4>1, <4>2 DEF BooksTell
    <3> QED BY <3>1, <3>2, <3>3 DEF BooksTell
  <2> QED BY <2>1 DEF GrantSpentOnce
<1>2. HoldMatchesGrant BY ApprovalNow DEF HoldMatchesGrant, BooksTell
<1>3. RevocationIsComplete BY ApprovalNow DEF RevocationIsComplete, RevocationsTell, RevokedGrants
<1> QED BY <1>1, <1>2, <1>3, ApprovalNow

\* The consent ledger keeps its word (runtime/approval_store.py, the
\* ApprovalGrantRepository, the approval paths of mcp/domotics_server.py), for any
\* number of issuing attempts, calls and revokers, whatever nonces, request
\* identities and reservation ids they share: a grant is spent at most once, an
\* assertion, a request identity and a command are used for one thing, a reservation
\* agrees with its grant, every active schedule and recurrence is answered for by a
\* call that committed its grant, is under way or could not undo it, a revocation
\* told of every permit, and nothing is spent, prepared or admitted after it.
THEOREM LedgerKeepsFaith == ApprovalSpec => LedgerKeepsItsWord
<1>1. ApprovalInit => ApprovalInv BY ApprovalStart
<1>2. ApprovalInv /\ [ApprovalNext]_approvalVars => ApprovalInv' BY ApprovalStep, ApprovalStutter
<1>3. ApprovalInv => /\ GrantSpentOnce /\ OneOutcomePerRequest /\ PermitPerCommand
                     /\ HoldMatchesGrant /\ RecordsAreAnswered /\ RevocationIsComplete
  BY ApprovalPromise
<1>4. ApprovalInv /\ [ApprovalNext]_approvalVars => [Quiet]_approvalVars BY ApprovalStep
<1>5. ApprovalSpec => [](/\ GrantSpentOnce /\ OneOutcomePerRequest /\ PermitPerCommand
                         /\ HoldMatchesGrant /\ RecordsAreAnswered /\ RevocationIsComplete)
  BY <1>1, <1>2, <1>3, PTL DEF ApprovalSpec
<1>6. ApprovalSpec => [][Quiet]_approvalVars BY <1>1, <1>2, <1>4, PTL DEF ApprovalSpec
<1>7. [][Quiet]_approvalVars => NothingAfterRevocation BY DEF Quiet, NothingAfterRevocation
<1> QED BY <1>5, <1>6, <1>7, PTL DEF LedgerKeepsItsWord

-----------------------------------------------------------------------------
(* The state store.  That a version names one value is not inductive alone:  *)
(* it needs what the names on record, the snapshot in memory, the candidate  *)
(* under way, the disk, the late writes and the snapshots of before the      *)
(* restart say of one another, and that no version is above its counter.     *)
(* Late writes are served first, so no candidate is installed while one      *)
(* waits, and each is about the store as it still is.  That a wrong value is *)
(* brief needs the freshness of every reading on its way to the store.       *)

\* What the variables of StateIngest hold.
ReadingSets == [Points -> Readings \cup {NoReading}]
StoreStates == [snap : [Points -> Snapshots], counter : Nat,
                boot : [Points -> Snapshots \cup {NoReading}]]
DiskStates == [snap : [Points -> Snapshots], counter : Nat]
SaveJobs == [kind : {"save"}, readings : ReadingSets]
Commits == [by : Actors, cancelled : BOOLEAN, landed : BOOLEAN, next : StoreStates,
            of : SUBSET Points]
Writes == [snap : [Points -> Snapshots], counter : Nat, of : SUBSET Points]

StateType ==
    /\ time \in Nat /\ world \in [Points -> Readings]
    /\ pending \in ReadingSets /\ bulk \in Seq(Points)
    /\ store \in StoreStates /\ disk \in DiskStates
    /\ job \in [Actors -> {NoJob, LostJob} \cup SaveJobs]
    /\ commit \in {NoCommit} \cup Commits
    /\ late \subseteq Writes /\ astray \subseteq Points /\ muddled \subseteq Points
    /\ named \subseteq Points \X Nat \X Nat

\* A reading r of k is no newer than now, and right unless k changed since.
Fresh(k, r) == r.at <= time /\ (r.value = world[k].value \/ r.at <= world[k].at)
FreshThen(k, r) == r.at <= time' /\ (r.value = world'[k].value \/ r.at <= world'[k].at)

\* Versions are counted, and a point never read has none.
Counted(s) ==
    \A k \in Points : /\ s.snap[k].version <= s.counter
                      /\ s.snap[k].version = 0 => s.snap[k] = Unknown

\* What the version of k stood for is what the snapshot x says, and what the
\* snapshot b persisted before the restart says.
Tallies(k, x, b) ==
    \A e \in named : e[1] = k /\ e[2] = x.version =>
        /\ x.status = "current" => e[3] = x.value
        /\ b # NoReading /\ b.status = "current" => e[3] = b.value

\* A store in memory, and a candidate for one.
Sound(s) ==
    /\ Counted(s)
    /\ \A k \in Points : /\ s.boot[k] # NoReading => s.snap[k].status # "current"
                         /\ k \notin muddled => Tallies(k, s.snap[k], s.boot[k])
                         /\ s.snap[k].status = "current" => Fresh(k, s.snap[k])

\* A store holds what the row d on disk says of k, but for the status and the
\* version that a restart gave it.
Holds(s, k, d) ==
    \/ s.snap[k] = d
    \/ /\ s.boot[k] # NoReading
       /\ s.snap[k] = [d EXCEPT !.status = s.snap[k].status, !.version = s.snap[k].version]
       /\ d.version \in {s.snap[k].version, 0}
       /\ s.boot[k].value = d.value /\ s.boot[k].status = d.status

\* No version was given out above n.
Names(n) == \A e \in named : e[2] <= n

MemoryTells ==
    /\ Sound(store) /\ Names(store.counter)
    /\ \A a, b \in named : a[1] = b[1] /\ a[2] = b[2] /\ a[1] \notin muddled => a[3] = b[3]

DiskTells ==
    /\ Names(disk.counter)
    /\ \A k \in Points : /\ disk.snap[k].version <= disk.counter
                         /\ store.snap[k].at <= disk.snap[k].at
    /\ \A k \in Points \ (astray \cup muddled) : Tallies(k, disk.snap[k], NoReading)
    /\ (commit = NoCommit \/ ~commit.landed) =>
         \A k \in Points \ astray : Holds(store, k, disk.snap[k])

CommitTells ==
    commit # NoCommit =>
        /\ Sound(commit.next)
        /\ store.counter <= commit.next.counter
        /\ \A k \in Points : store.snap[k].at <= commit.next.snap[k].at
        /\ \A k \in Points \ commit.of : /\ commit.next.snap[k] = store.snap[k]
                                        /\ commit.next.boot[k] = store.boot[k]
        /\ commit.landed =>
             /\ late = {} /\ disk.counter = commit.next.counter
             /\ \A k \in commit.of : disk.snap[k] = commit.next.snap[k]
             /\ \A k \in Points \ (astray \cup commit.of) : Holds(commit.next, k, disk.snap[k])

\* What a write w says of the store, while it waits to reach the disk.
WriteTells(w) ==
    /\ Names(w.counter)
    /\ \A k \in Points : /\ w.snap[k].version <= w.counter
                         /\ store.snap[k].at <= w.snap[k].at
    /\ \A k \in Points \ w.of : w.snap[k].version = store.snap[k].version

LateTells == \A w \in late : WriteTells(w)

ReadingsTell ==
    /\ \A k \in Points : /\ world[k].at <= time
                         /\ pending[k] # NoReading => Fresh(k, pending[k])
    /\ \A a \in Actors : job[a].kind = "save" =>
         \A k \in Points : job[a].readings[k] # NoReading => Fresh(k, job[a].readings[k])

StateInv == StateType /\ MemoryTells /\ DiskTells /\ CommitTells /\ LateTells /\ ReadingsTell

-----------------------------------------------------------------------------
\* Time and the world may move on: readings stay as fresh as they must be.
LEMMA FreshStays ==
    ASSUME StateType, \A k \in Points : world[k].at <= time, time' \in Nat, time <= time',
           NEW k \in Points,
           world'[k] = world[k] \/ world'[k].at = time,
           NEW r, r.at \in Nat, Fresh(k, r)
    PROVE  Fresh(k, r)'
<1>1. world[k].at \in Nat BY DEF StateType, Readings
<1> QED BY <1>1 DEF Fresh, StateType

\* The names fit a snapshot as long as none is added.
LEMMA TalliesStays ==
    ASSUME named' = named, NEW k, NEW x, NEW b, Tallies(k, x, b)
    PROVE  Tallies(k, x, b)'
BY DEF Tallies

LEMMA CountedStays ==
    ASSUME NEW s, Counted(s)
    PROVE  Counted(s)'
BY DEF Counted, Unknown

LEMMA SoundStays ==
    ASSUME StateType, \A k \in Points : world[k].at <= time, time' \in Nat, time <= time',
           \A k \in Points : world'[k] = world[k] \/ world'[k].at = time,
           named' = named, muddled' = muddled, NEW s \in StoreStates, Sound(s)
    PROVE  Sound(s)'
<1>1. Counted(s)' BY CountedStays DEF Sound
<1>2. ASSUME NEW k \in Points
      PROVE  /\ s.boot[k] # NoReading => s.snap[k].status # "current"
             /\ k \notin muddled => Tallies(k, s.snap[k], s.boot[k])'
             /\ s.snap[k].status = "current" => Fresh(k, s.snap[k])'
  <2>1. /\ s.boot[k] # NoReading => s.snap[k].status # "current"
        /\ k \notin muddled => Tallies(k, s.snap[k], s.boot[k])
        /\ s.snap[k].status = "current" => Fresh(k, s.snap[k])
    BY <1>2 DEF Sound
  <2>2. k \notin muddled => Tallies(k, s.snap[k], s.boot[k])' BY <2>1, TalliesStays
  <2>3. s.snap[k].at \in Nat BY <1>2 DEF StoreStates, Snapshots
  <2>4. s.snap[k].status = "current" => Fresh(k, s.snap[k])'
    <3>1. world'[k] = world[k] \/ world'[k].at = time BY <1>2
    <3>2. PICK r : r = s.snap[k] OBVIOUS
    <3>3. r.status = "current" => Fresh(k, r)' BY <1>2, <2>1, <2>3, <3>1, <3>2, FreshStays
    <3> QED BY <3>2, <3>3
  <2> QED BY <2>1, <2>2, <2>4
<1>3. (\A k \in Points : /\ s.boot[k] # NoReading => s.snap[k].status # "current"
                         /\ k \notin muddled => Tallies(k, s.snap[k], s.boot[k])
                         /\ s.snap[k].status = "current" => Fresh(k, s.snap[k]))'
  BY <1>2
<1> QED BY <1>1, <1>3 DEF Sound

-----------------------------------------------------------------------------
LEMMA StateInitially == ASSUME StateInit PROVE StateInv
<1>1. Unknown \in Snapshots BY DEF Unknown, Snapshots
<1>2. disk.snap = [k \in Points |-> Unknown] /\ disk.counter = 0 /\ store.snap = disk.snap
      /\ store.counter = 0 /\ store.boot = [k \in Points |-> NoReading] /\ commit = NoCommit
      /\ named = {} /\ time = 0 /\ late = {} /\ astray = {} /\ muddled = {}
  BY DEF StateInit
<1>3. StateType
  <2>1. world \in [Points -> Readings] BY DEF StateInit, Readings
  <2>2. disk \in DiskStates BY <1>1 DEF StateInit, DiskStates
  <2>3. store \in StoreStates BY <1>1, <1>2 DEF StateInit, StoreStates
  <2>4. job \in [Actors -> {NoJob, LostJob} \cup SaveJobs] BY DEF StateInit
  <2>5. pending \in ReadingSets /\ bulk \in Seq(Points) BY DEF StateInit, ReadingSets
  <2> QED BY <1>2, <2>1, <2>2, <2>3, <2>4, <2>5 DEF StateType
<1>4. Counted(store) BY <1>2 DEF Counted, Unknown
<1>5. MemoryTells BY <1>2, <1>4 DEF MemoryTells, Names, Sound, Tallies, Unknown
<1>6. DiskTells BY <1>2 DEF DiskTells, Names, Tallies, Holds, Unknown
<1>7. CommitTells /\ LateTells BY <1>2 DEF CommitTells, LateTells
<1>8. ReadingsTell
  <2>1. \A k \in Points : world[k].at = 0 /\ pending[k] = NoReading BY DEF StateInit
  <2>2. \A a \in Actors : job[a].kind = "none" BY DEF StateInit, NoJob
  <2> QED BY <1>2, <2>1, <2>2 DEF ReadingsTell
<1> QED BY <1>3, <1>5, <1>6, <1>7, <1>8 DEF StateInv

-----------------------------------------------------------------------------
\* A step that touches neither store, disk, candidate nor names.
LEMMA StoresKept ==
    ASSUME StateInv, time' \in Nat, time <= time',
           \A k \in Points : world'[k] = world[k] \/ world'[k].at = time,
           store' = store, disk' = disk, commit' = commit, named' = named,
           UNCHANGED <<late, astray, muddled>>
    PROVE  MemoryTells' /\ DiskTells' /\ CommitTells' /\ LateTells'
<1> USE DEF StateInv
<1>1. \A k \in Points : world[k].at <= time BY DEF ReadingsTell
<1>2. ASSUME NEW s \in StoreStates, Sound(s) PROVE Sound(s)'
  BY <1>1, <1>2, SoundStays
<1>3. MemoryTells'
  <2>1. PICK s \in StoreStates : s = store BY DEF StateType
  <2>2. Sound(s)' BY <1>2, <2>1 DEF MemoryTells
  <2>3. Sound(store)' BY <2>1, <2>2 DEF Sound, Counted, Tallies, Fresh
  <2> QED BY <2>3 DEF MemoryTells, Names
<1>4. DiskTells'
  BY DEF DiskTells, Names, Tallies, Holds
<1>5. CommitTells'
  <2> SUFFICES ASSUME commit # NoCommit PROVE CommitTells' BY DEF CommitTells
  <2>1. PICK s \in StoreStates : s = commit.next BY DEF StateType, Commits
  <2>2. Sound(s)' BY <1>2, <2>1 DEF CommitTells
  <2>3. Sound(commit.next)' BY <2>1, <2>2 DEF Sound, Counted, Tallies, Fresh
  <2> QED BY <2>3 DEF CommitTells, Holds
<1>6. LateTells' BY DEF LateTells, WriteTells, Names
<1> QED BY <1>3, <1>4, <1>5, <1>6

\* Readings that wait or are about to be saved stay fresh, and new ones are.
LEMMA ReadingsKept ==
    ASSUME StateInv, StateType', time <= time',
           \A k \in Points : world'[k] = world[k] \/ world'[k].at = time,
           \A k \in Points : world'[k].at <= time',
           \A k \in Points : pending'[k] \in {NoReading, pending[k]} \/ FreshThen(k, pending'[k]),
           \A a \in Actors : \/ job'[a] = job[a] \/ job'[a].kind # "save"
                              \/ \A k \in Points : job'[a].readings[k] # NoReading
                                                      => FreshThen(k, job'[a].readings[k])
    PROVE  ReadingsTell'
<1> USE DEF StateInv
<1>1. \A k \in Points : world[k].at <= time BY DEF ReadingsTell
<1>2. time' \in Nat BY DEF StateType
<1>3. ASSUME NEW k \in Points, NEW r, r \in Readings, Fresh(k, r) PROVE Fresh(k, r)'
  <2>1. world'[k] = world[k] \/ world'[k].at = time BY <1>3
  <2>2. r.at \in Nat BY <1>3 DEF Readings
  <2> QED BY <1>1, <1>2, <1>3, <2>1, <2>2, FreshStays
<1>4. ASSUME NEW k \in Points PROVE pending'[k] # NoReading => FreshThen(k, pending'[k])
  <2> SUFFICES ASSUME pending'[k] = pending[k], pending[k] # NoReading
               PROVE  FreshThen(k, pending'[k])
    BY <1>4
  <2>1. PICK r : r = pending[k] OBVIOUS
  <2>2. r \in Readings BY <1>4, <2>1 DEF StateType, ReadingSets
  <2>3. Fresh(k, r) BY <1>4, <2>1 DEF ReadingsTell
  <2>4. Fresh(k, r)' BY <1>3, <1>4, <2>2, <2>3
  <2> QED BY <2>1, <2>4 DEF Fresh, FreshThen
<1>5. ASSUME NEW a \in Actors, job'[a].kind = "save", NEW k \in Points,
             job'[a].readings[k] # NoReading
      PROVE  FreshThen(k, job'[a].readings[k])
  <2> SUFFICES ASSUME job'[a] = job[a] PROVE FreshThen(k, job'[a].readings[k])
    BY <1>5
  <2>1. PICK r : r = job[a].readings[k] OBVIOUS
  <2>2. job[a] \in SaveJobs BY <1>5 DEF StateType, NoJob, LostJob
  <2>3. r \in Readings BY <1>5, <2>1, <2>2 DEF SaveJobs, ReadingSets
  <2>4. Fresh(k, r) BY <1>5, <2>1 DEF ReadingsTell
  <2>5. Fresh(k, r)' BY <1>3, <1>5, <2>3, <2>4
  <2> QED BY <2>1, <2>5 DEF Fresh, FreshThen
<1> QED BY <1>4, <1>5 DEF ReadingsTell, Fresh, FreshThen

LEMMA ChangeKeepsState == ASSUME StateInv, NEW k \in Points, Change(k) PROVE StateInv'
<1> USE DEF StateInv
<1>1. PICK n \in {world[j].value + 1 : j \in Points} :
        /\ world' = [world EXCEPT ![k] = [value |-> n, at |-> time]]
        /\ IF linked THEN Pump(k, [value |-> n, at |-> time])
                     ELSE UNCHANGED <<pending, bulk>>
  BY DEF Change
<1>2. PICK r : r = [value |-> n, at |-> time] OBVIOUS
<1>3. n \in Nat BY DEF StateType, Readings
<1>4. r \in Readings /\ r.value = n /\ r.at = time BY <1>2, <1>3 DEF Readings, StateType
<1>5. time' = time /\ store' = store /\ disk' = disk /\ job' = job /\ commit' = commit
      /\ named' = named /\ UNCHANGED <<late, astray, muddled>>
  BY DEF Change, behind
<1>6. world' = [world EXCEPT ![k] = r] BY <1>1, <1>2
<1>7. world' \in [Points -> Readings] /\ world'[k] = r
      /\ \A j \in Points : j # k => world'[j] = world[j]
  BY <1>4, <1>6 DEF StateType
<1>8. /\ pending' = pending \/ pending' = [pending EXCEPT ![k] = r]
      /\ bulk' = bulk \/ bulk' = Append(bulk, k)
  BY <1>1, <1>2 DEF Pump
<1>9. pending' \in ReadingSets BY <1>4, <1>8 DEF StateType, ReadingSets
<1>10. bulk' \in Seq(Points)
  <2>1. bulk \in Seq(Points) BY DEF StateType
  <2>2. CASE bulk' = bulk BY <2>1, <2>2
  <2>3. CASE bulk' = Append(bulk, k) BY <2>1, <2>3
  <2> QED BY <1>8, <2>2, <2>3
<1>11. StateType' BY <1>5, <1>7, <1>9, <1>10 DEF StateType
<1>12. \A j \in Points : world'[j] = world[j] \/ world'[j].at = time BY <1>4, <1>7
<1>13. \A j \in Points : world'[j].at <= time' BY <1>4, <1>5, <1>7 DEF ReadingsTell, StateType
<1>14. Fresh(k, r)' BY <1>4, <1>5, <1>7 DEF Fresh, StateType
<1>15. \A j \in Points : pending'[j] \in {NoReading, pending[j]} \/ FreshThen(j, pending'[j])
  <2> TAKE j \in Points
  <2>1. CASE pending' = pending BY <2>1
  <2>2. CASE pending' = [pending EXCEPT ![k] = r] /\ j # k BY <2>2 DEF StateType, ReadingSets
  <2>3. CASE pending' = [pending EXCEPT ![k] = r] /\ j = k
    <3>1. pending'[j] = r BY <2>3 DEF StateType, ReadingSets
    <3> QED BY <1>14, <2>3, <3>1 DEF Fresh, FreshThen
  <2> QED BY <1>8, <2>1, <2>2, <2>3
<1>16. time <= time' /\ time' \in Nat BY <1>5 DEF StateType
<1>17. ReadingsTell' BY <1>5, <1>11, <1>12, <1>13, <1>15, <1>16, ReadingsKept
<1>18. MemoryTells' /\ DiskTells' /\ CommitTells' /\ LateTells' BY <1>5, <1>12, <1>16, StoresKept
<1> QED BY <1>11, <1>17, <1>18

LEMMA TimeKeepsState == ASSUME StateInv, TimePasses PROVE StateInv'
<1> USE DEF StateInv
<1>1. time' \in Nat /\ time <= time' BY DEF TimePasses, StateType
<1>2. world' = world /\ pending' = pending /\ bulk' = bulk /\ store' = store /\ disk' = disk
      /\ job' = job /\ commit' = commit /\ named' = named /\ UNCHANGED <<late, astray, muddled>>
  BY DEF TimePasses, behind
<1>3. StateType' BY <1>1, <1>2 DEF StateType
<1>4. \A k \in Points : world'[k].at <= time'
  BY <1>1, <1>2 DEF StateType, Readings, ReadingsTell
<1>5. ReadingsTell' BY <1>1, <1>2, <1>3, <1>4, ReadingsKept
<1>6. MemoryTells' /\ DiskTells' /\ CommitTells' /\ LateTells' BY <1>1, <1>2, StoresKept
<1> QED BY <1>3, <1>5, <1>6

\* Steps that only move readings between the source, the queues and the jobs.
LEMMA MovesKeepState ==
    ASSUME StateInv, UNCHANGED <<time, world, store, disk, commit, named>>,
           UNCHANGED <<late, astray, muddled>>,
           pending' \in ReadingSets, bulk' \in Seq(Points),
           job' \in [Actors -> {NoJob, LostJob} \cup SaveJobs],
           \A k \in Points : pending'[k] \in {NoReading, pending[k]},
           \A a \in Actors : \/ job'[a] = job[a] \/ job'[a].kind # "save"
                              \/ \A k \in Points : job'[a].readings[k] # NoReading
                                                      => Fresh(k, job'[a].readings[k])
    PROVE  StateInv'
<1> USE DEF StateInv
<1>1. time' \in Nat /\ time <= time' BY DEF StateType
<1>2. StateType' BY DEF StateType
<1>3. \A k \in Points : world'[k].at <= time' BY DEF ReadingsTell
<1>4. \A a \in Actors : \/ job'[a] = job[a] \/ job'[a].kind # "save"
                         \/ \A k \in Points : job'[a].readings[k] # NoReading
                                                 => FreshThen(k, job'[a].readings[k])
  BY DEF Fresh, FreshThen
<1>5. ReadingsTell' BY <1>1, <1>2, <1>3, <1>4, ReadingsKept
<1>6. MemoryTells' /\ DiskTells' /\ CommitTells' /\ LateTells' BY <1>1, StoresKept
<1> QED BY <1>2, <1>5, <1>6

\* A live read is right.
LEMMA ReadNowFresh ==
    ASSUME StateInv, NEW k \in Points
    PROVE  ReadNow(k) \in Readings /\ Fresh(k, ReadNow(k))
BY DEF StateInv, StateType, Readings, ReadNow, Fresh

\* A job is given to one actor.
LEMMA JobGiven ==
    ASSUME StateInv, NEW a \in Actors, NEW j, Give(a, j),
           \/ j \in {NoJob, LostJob}
           \/ /\ j \in SaveJobs
              /\ \A k \in Points : j.readings[k] # NoReading => Fresh(k, j.readings[k])
    PROVE  /\ job' \in [Actors -> {NoJob, LostJob} \cup SaveJobs]
           /\ \A c \in Actors : \/ job'[c] = job[c] \/ job'[c].kind # "save"
                                 \/ \A k \in Points : job'[c].readings[k] # NoReading
                                                         => Fresh(k, job'[c].readings[k])
<1>1. job \in [Actors -> {NoJob, LostJob} \cup SaveJobs] BY DEF StateInv, StateType
<1>2. job' = [job EXCEPT ![a] = j] BY DEF Give
<1>3. job' \in [Actors -> {NoJob, LostJob} \cup SaveJobs] BY <1>1, <1>2
<1>4. job'[a] = j /\ \A c \in Actors : c # a => job'[c] = job[c] BY <1>1, <1>2
<1>5. j \in {NoJob, LostJob} => j.kind # "save" BY DEF NoJob, LostJob
<1> QED BY <1>3, <1>4, <1>5

LEMMA LinkKeepsState == ASSUME StateInv, LoseLink \/ Reconnect PROVE StateInv'
<1>1. UNCHANGED <<time, world, store, disk, commit, named>> /\ pending' = pending /\ bulk' = bulk
      /\ job' = job /\ UNCHANGED <<late, astray, muddled>>
  BY DEF LoseLink, Reconnect, behind
<1>2. pending' \in ReadingSets /\ bulk' \in Seq(Points)
      /\ job' \in [Actors -> {NoJob, LostJob} \cup SaveJobs]
  BY <1>1 DEF StateInv, StateType
<1> QED BY <1>1, <1>2, MovesKeepState

LEMMA OnlyFits ==
    ASSUME NEW k \in Points, NEW r \in Readings \cup {NoReading},
           r # NoReading => Fresh(k, r)
    PROVE  /\ SaveJob(Only(k, r)) \in SaveJobs
           /\ \A j \in Points : SaveJob(Only(k, r)).readings[j] # NoReading
                               => Fresh(j, SaveJob(Only(k, r)).readings[j])
<1>1. Only(k, r) \in ReadingSets BY DEF Only, ReadingSets
<1>2. SaveJob(Only(k, r)) \in SaveJobs /\ SaveJob(Only(k, r)).readings = Only(k, r)
  BY <1>1 DEF SaveJob, SaveJobs
<1>3. \A j \in Points : Only(k, r)[j] = IF j = k THEN r ELSE NoReading BY DEF Only
<1> QED BY <1>2, <1>3

LEMMA ConsumePriorityKeepsState == ASSUME StateInv, ConsumePriority PROVE StateInv'
<1>1. UNCHANGED <<time, world, store, disk, commit, named>> /\ pending' = pending /\ bulk' = bulk
      /\ UNCHANGED <<late, astray, muddled>>
  BY DEF ConsumePriority, behind
<1>2. pending' \in ReadingSets /\ bulk' \in Seq(Points)
  BY <1>1 DEF StateInv, StateType
<1>3. "consumer" \in Actors BY DEF Actors
<1>4. CASE job' = job
  <2>1. job' \in [Actors -> {NoJob, LostJob} \cup SaveJobs] BY <1>4 DEF StateInv, StateType
  <2> QED BY <1>1, <1>2, <1>4, <2>1, MovesKeepState
<1>5. CASE Give("consumer", LostJob)
  <2>1. /\ job' \in [Actors -> {NoJob, LostJob} \cup SaveJobs]
        /\ \A c \in Actors : \/ job'[c] = job[c] \/ job'[c].kind # "save"
                              \/ \A k \in Points : job'[c].readings[k] # NoReading
                                                      => Fresh(k, job'[c].readings[k])
    BY <1>3, <1>5, JobGiven
  <2> QED BY <1>1, <1>2, <2>1, MovesKeepState
<1>6. CASE Give("consumer", SaveJob(ReadAll))
  <2>1. PICK j : j = SaveJob(ReadAll) OBVIOUS
  <2>2. \A k \in Points : ReadAll[k] = ReadNow(k) BY DEF ReadAll
  <2>3. ReadAll \in ReadingSets BY ReadNowFresh DEF ReadAll, ReadingSets
  <2>4. j \in SaveJobs /\ j.readings = ReadAll BY <2>1, <2>3 DEF SaveJob, SaveJobs
  <2>5. \A k \in Points : j.readings[k] # NoReading => Fresh(k, j.readings[k])
    BY <2>2, <2>4, ReadNowFresh
  <2>6. Give("consumer", j) BY <1>6, <2>1
  <2>7. /\ job' \in [Actors -> {NoJob, LostJob} \cup SaveJobs]
        /\ \A c \in Actors : \/ job'[c] = job[c] \/ job'[c].kind # "save"
                              \/ \A k \in Points : job'[c].readings[k] # NoReading
                                                      => Fresh(k, job'[c].readings[k])
    BY <1>3, <2>4, <2>5, <2>6, JobGiven
  <2> QED BY <1>1, <1>2, <2>7, MovesKeepState
<1> QED BY <1>4, <1>5, <1>6 DEF ConsumePriority

LEMMA ConsumeStateKeepsState == ASSUME StateInv, ConsumeState PROVE StateInv'
<1>1. UNCHANGED <<time, world, store, disk, commit, named>> /\ bulk # <<>> /\ bulk' = Tail(bulk)
      /\ pending' = [pending EXCEPT ![Head(bulk)] = NoReading] /\ UNCHANGED <<late, astray, muddled>>
  BY DEF ConsumeState, behind
<1>2. PICK k : k = Head(bulk) OBVIOUS
<1>3. k \in Points /\ bulk' \in Seq(Points) BY <1>1, <1>2 DEF StateInv, StateType
<1>4. pending \in ReadingSets BY DEF StateInv, StateType
<1>5. pending' \in ReadingSets /\ \A j \in Points : pending'[j] \in {NoReading, pending[j]}
  BY <1>1, <1>2, <1>3, <1>4 DEF ReadingSets
<1>6. PICK r : r = pending[k] OBVIOUS
<1>7. r \in Readings \cup {NoReading} /\ (r # NoReading => Fresh(k, r))
  BY <1>3, <1>4, <1>6 DEF ReadingSets, StateInv, ReadingsTell
<1>8. PICK j : j = SaveJob(Only(k, r)) OBVIOUS
<1>9. j \in SaveJobs /\ \A c \in Points : j.readings[c] # NoReading => Fresh(c, j.readings[c])
  BY <1>3, <1>7, <1>8, OnlyFits
<1>10. Give("consumer", j) BY <1>2, <1>6, <1>8 DEF ConsumeState
<1>11. "consumer" \in Actors BY DEF Actors
<1>12. /\ job' \in [Actors -> {NoJob, LostJob} \cup SaveJobs]
       /\ \A c \in Actors : \/ job'[c] = job[c] \/ job'[c].kind # "save"
                             \/ \A i \in Points : job'[c].readings[i] # NoReading
                                                     => Fresh(i, job'[c].readings[i])
  BY <1>9, <1>10, <1>11, JobGiven
<1> QED BY <1>1, <1>3, <1>5, <1>12, MovesKeepState

LEMMA ReadbackKeepsState == ASSUME StateInv, NEW k \in Points, ReadbackPoint(k) PROVE StateInv'
<1>1. UNCHANGED <<time, world, store, disk, commit, named>> /\ pending' = pending /\ bulk' = bulk
      /\ UNCHANGED <<late, astray, muddled>>
  BY DEF ReadbackPoint, behind
<1>2. pending' \in ReadingSets /\ bulk' \in Seq(Points)
  BY <1>1 DEF StateInv, StateType
<1>3. PICK r : r = ReadNow(k) OBVIOUS
<1>4. r \in Readings /\ Fresh(k, r) BY <1>3, ReadNowFresh
<1>5. PICK j : j = SaveJob(Only(k, r)) OBVIOUS
<1>6. j \in SaveJobs /\ \A c \in Points : j.readings[c] # NoReading => Fresh(c, j.readings[c])
  BY <1>4, <1>5, OnlyFits
<1>7. Give("reader", j) BY <1>3, <1>5 DEF ReadbackPoint
<1>8. "reader" \in Actors BY DEF Actors
<1>9. /\ job' \in [Actors -> {NoJob, LostJob} \cup SaveJobs]
      /\ \A c \in Actors : \/ job'[c] = job[c] \/ job'[c].kind # "save"
                            \/ \A i \in Points : job'[c].readings[i] # NoReading
                                                    => Fresh(i, job'[c].readings[i])
  BY <1>6, <1>7, <1>8, JobGiven
<1> QED BY <1>1, <1>2, <1>9, MovesKeepState

-----------------------------------------------------------------------------
\* New versions lie above the counter and reach up to the new one.
LEMMA NumberingFits ==
    ASSUME NEW c \in Nat, NEW ks \in SUBSET Points
    PROVE  /\ Cardinality(ks) \in Nat
           /\ Numbering(c, ks) \in [ks -> c + 1 .. c + Cardinality(ks)]
<1>1. IsFiniteSet(ks) BY StateAssumption, FS_Subset
<1>2. PICK n \in Nat : n = Cardinality(ks) BY <1>1, FS_CardinalityType
<1>3. ExistsBijection(1 .. n, ks) BY <1>1, <1>2, FS_CardinalityType
<1>4. PICK g \in Bijection(ks, 1 .. n) : TRUE
  BY <1>3, Fun_ExistsBijSymmetric DEF ExistsBijection
<1>5. g \in [ks -> 1 .. n] /\ \A i, j \in ks : i # j => g[i] # g[j]
  BY <1>4 DEF Bijection, Injection, Surjection, IsInjective
<1>6. PICK f : f = [k \in ks |-> c + g[k]] OBVIOUS
<1>7. f \in [ks -> c + 1 .. c + n]
  <2>1. \A k \in ks : c + g[k] \in c + 1 .. c + n BY <1>5
  <2> QED BY <1>6, <2>1
<1>8. \A i, j \in ks : i # j => f[i] # f[j]
  <2> TAKE i, j \in ks
  <2> HAVE i # j
  <2>1. g[i] \in Nat /\ g[j] \in Nat /\ g[i] # g[j] BY <1>5
  <2>2. f[i] = c + g[i] /\ f[j] = c + g[j] BY <1>6
  <2> QED BY <2>1, <2>2
<1>9. Numbering(c, ks) \in [ks -> c + 1 .. c + n]
  BY <1>2, <1>7, <1>8 DEF Numbering
<1> QED BY <1>2, <1>9

\* A candidate made of a store: readings of the points acc, some under new versions.
LEMMA StoredFits ==
    ASSUME StateInv, NEW rs \in ReadingSets, 
           \A k \in Points : rs[k] # NoReading => Fresh(k, rs[k])
    PROVE  /\ Stored(rs, Accepted(rs)) \in StoreStates
           /\ Sound(Stored(rs, Accepted(rs)))
           /\ store.counter <= Stored(rs, Accepted(rs)).counter
           /\ \A k \in Points : store.snap[k].at <= Stored(rs, Accepted(rs)).snap[k].at
           /\ \A k \in Points \ Accepted(rs) :
                /\ Stored(rs, Accepted(rs)).snap[k] = store.snap[k]
                /\ Stored(rs, Accepted(rs)).boot[k] = store.boot[k]
<1> USE DEF StateInv
<1>1. PICK acc : acc = Accepted(rs) OBVIOUS
<1>2. PICK new : new = {k \in acc : Changed(k, rs[k])} OBVIOUS
<1>3. PICK nr : nr = Numbering(store.counter, new) OBVIOUS
<1>4. PICK s : s = Stored(rs, acc) OBVIOUS
<1>5. acc \subseteq Points /\ new \subseteq acc BY <1>1, <1>2 DEF Accepted
<1>6. PICK c \in Nat : c = store.counter BY DEF StateType, StoreStates
<1>7. PICK n \in Nat : n = Cardinality(new) BY <1>5, NumberingFits
<1>8. nr \in [new -> c + 1 .. c + n] BY <1>3, <1>5, <1>6, <1>7, NumberingFits
<1>9. s = [snap |-> [k \in Points |->
                     IF k \in acc
                     THEN [value |-> rs[k].value, status |-> "current", at |-> rs[k].at,
                           version |-> IF k \in new THEN nr[k] ELSE store.snap[k].version]
                     ELSE store.snap[k]],
           counter |-> c + n,
           boot |-> [k \in Points |-> IF k \in acc THEN NoReading ELSE store.boot[k]]]
  BY <1>2, <1>3, <1>4, <1>6, <1>7 DEF Stored
<1>10. s.counter = c + n BY <1>9
<1>11. ASSUME NEW k \in Points, k \in acc
       PROVE  /\ rs[k] \in Readings /\ Fresh(k, rs[k])
              /\ store.snap[k].version # 0 => store.snap[k].at <= rs[k].at
  <2>1. rs[k] # NoReading /\ ~Older(rs[k], store.snap[k]) BY <1>1, <1>11 DEF Accepted
  <2>2. rs[k] \in Readings BY <2>1, <1>11 DEF ReadingSets
  <2>3. store.snap[k].at \in Nat BY <1>11 DEF StateType, StoreStates, Snapshots
  <2> QED BY <1>11, <2>1, <2>2, <2>3 DEF Older, Readings
<1>12. ASSUME NEW k \in Points, k \in acc
       PROVE  /\ s.snap[k] \in Snapshots /\ s.boot[k] = NoReading
              /\ s.snap[k].value = rs[k].value /\ s.snap[k].at = rs[k].at
              /\ s.snap[k].status = "current"
              /\ s.snap[k].version = IF k \in new THEN nr[k] ELSE store.snap[k].version
  <2>1. PICK v : v = IF k \in new THEN nr[k] ELSE store.snap[k].version OBVIOUS
  <2>2. k \in new => nr[k] \in Nat BY <1>8
  <2>3. store.snap[k].version \in Nat BY <1>12 DEF StateType, StoreStates, Snapshots
  <2>4. v \in Nat BY <2>1, <2>2, <2>3
  <2>5. s.snap[k] = [value |-> rs[k].value, status |-> "current", at |-> rs[k].at, version |-> v]
        /\ s.boot[k] = NoReading
    BY <1>9, <1>12, <2>1
  <2>6. rs[k].value \in Nat /\ rs[k].at \in Nat BY <1>11, <1>12 DEF Readings
  <2> QED BY <2>1, <2>4, <2>5, <2>6 DEF Snapshots
<1>13. ASSUME NEW k \in Points, k \notin acc
       PROVE  s.snap[k] = store.snap[k] /\ s.boot[k] = store.boot[k]
  BY <1>9, <1>13
<1>14. s \in StoreStates
  <2>1. \A k \in Points : store.snap[k] \in Snapshots /\ store.boot[k] \in Snapshots \cup {NoReading}
    BY DEF StateType, StoreStates
  <2>2. \A k \in Points : s.snap[k] \in Snapshots BY <1>12, <1>13, <2>1
  <2>3. \A k \in Points : s.boot[k] \in Snapshots \cup {NoReading} BY <1>12, <1>13, <2>1
  <2>4. PICK f : f = s.snap OBVIOUS
  <2>5. PICK b : b = s.boot OBVIOUS
  <2>6. f = [k \in Points |-> f[k]] /\ b = [k \in Points |-> b[k]] BY <1>9, <2>4, <2>5
  <2>7. f \in [Points -> Snapshots] BY <2>2, <2>4, <2>6
  <2>8. b \in [Points -> Snapshots \cup {NoReading}] BY <2>3, <2>5, <2>6
  <2>9. s = [snap |-> f, counter |-> c + n, boot |-> b] BY <1>9, <2>4, <2>5
  <2> QED BY <2>7, <2>8, <2>9 DEF StoreStates
<1>15. ASSUME NEW k \in Points
       PROVE  /\ s.snap[k].version <= c + n
              /\ s.snap[k].version = 0 => s.snap[k] = Unknown
              /\ s.boot[k] # NoReading => s.snap[k].status # "current"
              /\ k \notin muddled => Tallies(k, s.snap[k], s.boot[k])
              /\ s.snap[k].status = "current" => Fresh(k, s.snap[k])
              /\ store.snap[k].at <= s.snap[k].at
  <2>1. PICK x \in Snapshots : x = store.snap[k] BY <1>15 DEF StateType, StoreStates
  <2>2. PICK b : b = store.boot[k] OBVIOUS
  <2>3. /\ x.version <= c /\ (x.version = 0 => x = Unknown)
        /\ b # NoReading => x.status # "current"
        /\ k \notin muddled => Tallies(k, x, b)
        /\ x.status = "current" => Fresh(k, x)
    BY <1>6, <1>15, <2>1, <2>2 DEF MemoryTells, Sound, Counted
  <2>4. x.version \in Nat /\ x.at \in Nat /\ x.value \in Nat BY <2>1 DEF Snapshots
  <2>5. CASE k \notin acc
    <3>1. s.snap[k] = x /\ s.boot[k] = b BY <1>13, <1>15, <2>1, <2>2, <2>5
    <3> QED BY <2>1, <2>3, <2>4, <3>1
  <2>6. CASE k \in acc
    <3>1. PICK r \in Readings : r = rs[k] BY <1>11, <1>15, <2>6
    <3>2. Fresh(k, r) /\ (x.version # 0 => x.at <= r.at) BY <1>11, <1>15, <2>1, <2>6, <3>1
    <3>3. x.at <= r.at BY <2>3, <2>4, <3>1, <3>2 DEF Unknown, Readings
    <3>4. PICK y \in Snapshots : y = s.snap[k] BY <1>12, <1>15, <2>6
    <3>5. /\ y.value = r.value /\ y.at = r.at /\ y.status = "current"
          /\ y.version = IF k \in new THEN nr[k] ELSE x.version
          /\ s.boot[k] = NoReading
      BY <1>12, <1>15, <2>1, <2>6, <3>1, <3>4
    <3>6. Fresh(k, y) BY <3>2, <3>5 DEF Fresh
    <3>7. CASE k \in new
      <4>1. y.version \in c + 1 .. c + n BY <1>8, <3>5, <3>7
      <4>2. \A e \in named : e[2] <= c /\ e[2] \in Nat
        BY <1>6 DEF MemoryTells, Names, StateType
      <4>3. y.version > c /\ y.version # 0 /\ y.version <= c + n BY <4>1
      <4>4. \A e \in named : e[2] # y.version BY <4>2, <4>3
      <4>5. Tallies(k, y, NoReading) BY <4>4 DEF Tallies
      <4> QED BY <2>1, <3>3, <3>4, <3>5, <3>6, <4>3, <4>5
    <3>8. CASE k \notin new
      <4>1. ~Changed(k, r) BY <1>2, <2>6, <3>1, <3>8
      <4>2. x.version # 0
            /\ (IF b = NoReading THEN x.value = r.value /\ x.status = "current"
                                 ELSE b.value = r.value /\ b.status = "current")
        BY <4>1, <2>1, <2>2 DEF Changed
      <4>3. y.version = x.version BY <3>5, <3>8
      <4>4. k \notin muddled => Tallies(k, y, NoReading) BY <2>3, <3>5, <4>2, <4>3 DEF Tallies
      <4>5. y.version <= c + n BY <2>3, <2>4, <4>3
      <4> QED BY <2>1, <3>3, <3>4, <3>5, <3>6, <4>2, <4>3, <4>4, <4>5
    <3> QED BY <3>7, <3>8
  <2> QED BY <2>5, <2>6
<1>16. Sound(s) BY <1>10, <1>15 DEF Sound, Counted
<1>17. store.counter <= s.counter BY <1>6, <1>10
<1> QED BY <1>1, <1>4, <1>13, <1>14, <1>15, <1>16, <1>17

LEMMA MarkedFits ==
    ASSUME StateInv
    PROVE  /\ MarkedUnavailable \in StoreStates
           /\ Sound(MarkedUnavailable)
           /\ store.counter <= MarkedUnavailable.counter
           /\ \A k \in Points : store.snap[k].at <= MarkedUnavailable.snap[k].at
           /\ \A k \in Points \ Markable : /\ MarkedUnavailable.snap[k] = store.snap[k]
                                           /\ MarkedUnavailable.boot[k] = store.boot[k]
<1> USE DEF StateInv
<1>1. PICK hit : hit = Markable OBVIOUS
<1>2. PICK nr : nr = Numbering(store.counter, hit) OBVIOUS
<1>3. PICK s : s = MarkedUnavailable OBVIOUS
<1>4. hit \subseteq Points BY <1>1 DEF Markable
<1>5. PICK c \in Nat : c = store.counter BY DEF StateType, StoreStates
<1>6. PICK n \in Nat : n = Cardinality(hit) BY <1>4, NumberingFits
<1>7. nr \in [hit -> c + 1 .. c + n] BY <1>2, <1>4, <1>5, <1>6, NumberingFits
<1>8. s = [snap |-> [k \in Points |->
                     IF k \in hit
                     THEN [value |-> 0, status |-> "unavailable", at |-> store.snap[k].at,
                           version |-> nr[k]]
                     ELSE store.snap[k]],
           counter |-> c + n, boot |-> store.boot]
  BY <1>1, <1>2, <1>3, <1>5, <1>6 DEF MarkedUnavailable
<1>9. s.counter = c + n /\ s.boot = store.boot BY <1>8
<1>10. ASSUME NEW k \in Points, k \in hit
       PROVE  /\ s.snap[k] \in Snapshots /\ s.snap[k].at = store.snap[k].at
              /\ s.snap[k].status = "unavailable" /\ s.snap[k].version = nr[k]
  <2>1. store.snap[k].at \in Nat BY <1>10 DEF StateType, StoreStates, Snapshots
  <2>2. nr[k] \in Nat BY <1>7, <1>10
  <2>3. s.snap[k] = [value |-> 0, status |-> "unavailable", at |-> store.snap[k].at,
                     version |-> nr[k]]
    BY <1>8, <1>10
  <2> QED BY <2>1, <2>2, <2>3 DEF Snapshots
<1>11. ASSUME NEW k \in Points, k \notin hit PROVE s.snap[k] = store.snap[k]
  BY <1>8, <1>11
<1>12. s \in StoreStates
  <2>1. \A k \in Points : store.snap[k] \in Snapshots BY DEF StateType, StoreStates
  <2>2. \A k \in Points : s.snap[k] \in Snapshots BY <1>10, <1>11, <2>1
  <2>3. PICK f : f = s.snap OBVIOUS
  <2>4. f = [k \in Points |-> f[k]] BY <1>8, <2>3
  <2>5. f \in [Points -> Snapshots] BY <2>2, <2>3, <2>4
  <2>6. store.boot \in [Points -> Snapshots \cup {NoReading}] BY DEF StateType, StoreStates
  <2>7. s = [snap |-> f, counter |-> c + n, boot |-> store.boot] BY <1>8, <2>3
  <2> QED BY <2>5, <2>6, <2>7 DEF StoreStates
<1>13. ASSUME NEW k \in Points
       PROVE  /\ s.snap[k].version <= c + n
              /\ s.snap[k].version = 0 => s.snap[k] = Unknown
              /\ s.boot[k] # NoReading => s.snap[k].status # "current"
              /\ k \notin muddled => Tallies(k, s.snap[k], s.boot[k])
              /\ s.snap[k].status = "current" => Fresh(k, s.snap[k])
              /\ store.snap[k].at <= s.snap[k].at
  <2>1. PICK x \in Snapshots : x = store.snap[k] BY <1>13 DEF StateType, StoreStates
  <2>2. PICK b : b = store.boot[k] OBVIOUS
  <2>3. /\ x.version <= c /\ (x.version = 0 => x = Unknown)
        /\ b # NoReading => x.status # "current"
        /\ k \notin muddled => Tallies(k, x, b)
        /\ x.status = "current" => Fresh(k, x)
    BY <1>5, <1>13, <2>1, <2>2 DEF MemoryTells, Sound, Counted
  <2>4. x.version \in Nat /\ x.at \in Nat BY <2>1 DEF Snapshots
  <2>5. s.boot[k] = b BY <1>9, <2>2
  <2>6. CASE k \notin hit
    <3>1. s.snap[k] = x BY <1>11, <1>13, <2>1, <2>6
    <3> QED BY <2>1, <2>3, <2>4, <2>5, <3>1
  <2>7. CASE k \in hit
    <3>1. PICK y \in Snapshots : y = s.snap[k] BY <1>10, <1>13, <2>7
    <3>2. y.at = x.at /\ y.status = "unavailable" /\ y.version = nr[k]
      BY <1>10, <1>13, <2>1, <2>7, <3>1
    <3>3. y.version \in c + 1 .. c + n BY <1>7, <2>7, <3>2
    <3>4. \A e \in named : e[2] <= c /\ e[2] \in Nat
      BY <1>5 DEF MemoryTells, Names, StateType
    <3>5. y.version > c /\ y.version # 0 /\ y.version <= c + n BY <3>3
    <3>6. \A e \in named : e[2] # y.version BY <3>4, <3>5
    <3>7. Tallies(k, y, b) BY <3>6 DEF Tallies
    <3> QED BY <2>1, <2>4, <2>5, <3>1, <3>2, <3>5, <3>7
  <2> QED BY <2>6, <2>7
<1>14. Sound(s) BY <1>9, <1>13 DEF Sound, Counted
<1>15. store.counter <= s.counter BY <1>5, <1>9
<1>16. \A k \in Points \ hit : s.snap[k] = store.snap[k] /\ s.boot[k] = store.boot[k]
  BY <1>9, <1>11
<1> QED BY <1>1, <1>3, <1>12, <1>13, <1>14, <1>15, <1>16

LEMMA BeginCommitKeepsState ==
    ASSUME StateInv, NEW a \in Actors, BeginCommit(a)
    PROVE  StateInv'
<1> USE DEF StateInv
<1>1. UNCHANGED <<time, world, pending, bulk, store, disk, named>> /\ commit = NoCommit
      /\ job[a] # NoJob /\ UNCHANGED <<late, astray, muddled>>
  BY DEF BeginCommit, behind
<1>2. CASE commit' = commit /\ Give(a, NoJob)
  <2>1. /\ job' \in [Actors -> {NoJob, LostJob} \cup SaveJobs]
        /\ \A c \in Actors : \/ job'[c] = job[c] \/ job'[c].kind # "save"
                              \/ \A k \in Points : job'[c].readings[k] # NoReading
                                                      => Fresh(k, job'[c].readings[k])
    BY <1>2, JobGiven
  <2>2. pending' \in ReadingSets /\ bulk' \in Seq(Points) BY <1>1 DEF StateType
  <2> QED BY <1>1, <1>2, <2>1, <2>2, MovesKeepState
<1>3. CASE /\ job' = job
           /\ commit' = [by |-> a, cancelled |-> FALSE, landed |-> FALSE,
                         next |-> IF job[a].kind = "save"
                                  THEN Stored(job[a].readings, Accepted(job[a].readings))
                                  ELSE MarkedUnavailable,
                         of |-> IF job[a].kind = "save" THEN Accepted(job[a].readings)
                                                        ELSE Markable]
  <2>1. PICK s : s = IF job[a].kind = "save"
                     THEN Stored(job[a].readings, Accepted(job[a].readings))
                     ELSE MarkedUnavailable
    OBVIOUS
  <2>2. PICK ks : ks = IF job[a].kind = "save" THEN Accepted(job[a].readings) ELSE Markable
    OBVIOUS
  <2>3. /\ s \in StoreStates /\ Sound(s) /\ store.counter <= s.counter
        /\ \A k \in Points : store.snap[k].at <= s.snap[k].at
        /\ ks \subseteq Points
        /\ \A k \in Points \ ks : s.snap[k] = store.snap[k] /\ s.boot[k] = store.boot[k]
    <3>1. CASE job[a].kind = "save"
      <4>1. job[a] \in SaveJobs BY <3>1 DEF StateType, NoJob, LostJob
      <4>2. PICK rs \in ReadingSets : rs = job[a].readings BY <4>1 DEF SaveJobs
      <4>3. \A k \in Points : rs[k] # NoReading => Fresh(k, rs[k])
        BY <3>1, <4>2 DEF ReadingsTell
      <4>4. s = Stored(rs, Accepted(rs)) /\ ks = Accepted(rs) BY <2>1, <2>2, <3>1, <4>2
      <4>5. Accepted(rs) \subseteq Points BY DEF Accepted
      <4> QED BY <4>3, <4>4, <4>5, StoredFits
    <3>2. CASE job[a].kind # "save"
      <4>1. s = MarkedUnavailable /\ ks = Markable BY <2>1, <2>2, <3>2
      <4>2. Markable \subseteq Points BY DEF Markable
      <4> QED BY <4>1, <4>2, MarkedFits
    <3> QED BY <3>1, <3>2
  <2>4. PICK co : co = [by |-> a, cancelled |-> FALSE, landed |-> FALSE, next |-> s,
                     of |-> ks]
    OBVIOUS
  <2>5. co \in Commits /\ co.next = s /\ co.landed = FALSE /\ co.of = ks BY <2>3, <2>4 DEF Commits
  <2>6. commit' = co BY <1>3, <2>1, <2>2, <2>4
  <2>7. StateType' BY <1>1, <1>3, <2>5, <2>6 DEF StateType
  <2>8. MemoryTells' BY <1>1 DEF MemoryTells, Names, Sound, Counted, Tallies, Fresh, Unknown
  <2>9. DiskTells' BY <1>1 DEF DiskTells, Names, Tallies, Holds
  <2>10. CommitTells'
    <3>1. Sound(s)' BY <1>1, <2>3 DEF Sound, Counted, Tallies, Fresh, Unknown
    <3>2. commit'.next = s /\ commit'.landed = FALSE /\ commit'.of = ks BY <2>5, <2>6
    <3>3. Sound(commit.next)' BY <3>1, <3>2 DEF Sound, Counted, Tallies, Fresh
    <3> QED BY <1>1, <2>3, <3>2, <3>3 DEF CommitTells
  <2>11. ReadingsTell' BY <1>1, <1>3 DEF ReadingsTell, Fresh
  <2>12. LateTells' BY <1>1 DEF LateTells, WriteTells, Names
  <2> QED BY <2>7, <2>8, <2>9, <2>10, <2>11, <2>12
<1> QED BY <1>2, <1>3 DEF BeginCommit

\* A write reaches the disk: the rows it is about, and the store's versions of
\* all others.
LEMMA WrittenFits ==
    ASSUME StateInv, NEW w \in Writes, WriteTells(w), disk' = Written(w),
           UNCHANGED <<store, named, muddled>>, commit = NoCommit \/ ~commit.landed
    PROVE  /\ disk' \in DiskStates /\ disk'.counter = w.counter
           /\ \A e \in named' : e[2] <= disk'.counter
           /\ \A k \in Points : /\ disk'.snap[k].version <= disk'.counter
                                /\ store'.snap[k].at <= disk'.snap[k].at
           /\ \A k \in w.of : disk'.snap[k] = w.snap[k]
           /\ \A k \in Points \ (astray \cup w.of) :
                /\ Holds(store, k, disk'.snap[k])
                /\ k \notin muddled => Tallies(k, disk'.snap[k], NoReading)
<1> USE DEF StateInv
<1>1. w.snap \in [Points -> Snapshots] /\ w.counter \in Nat /\ w.of \subseteq Points BY DEF Writes
<1>2. PICK f : f = [k \in Points |-> IF k \in w.of THEN w.snap[k]
                                     ELSE [disk.snap[k] EXCEPT !.version = w.snap[k].version]]
  OBVIOUS
<1>3. disk' = [snap |-> f, counter |-> w.counter] BY <1>2 DEF Written
<1>4. disk'.snap = f /\ disk'.counter = w.counter BY <1>3
<1>5. ASSUME NEW k \in Points, k \in w.of PROVE f[k] = w.snap[k] BY <1>2, <1>5
<1>6. ASSUME NEW k \in Points, k \notin w.of
      PROVE  /\ f[k] \in Snapshots /\ f[k].version = w.snap[k].version
             /\ f[k].value = disk.snap[k].value /\ f[k].status = disk.snap[k].status
             /\ f[k].at = disk.snap[k].at
             /\ f[k] = [disk.snap[k] EXCEPT !.version = w.snap[k].version]
  <2>1. PICK d \in Snapshots : d = disk.snap[k] BY <1>6 DEF StateType, DiskStates
  <2>2. PICK v \in Nat : v = w.snap[k].version BY <1>1, <1>6 DEF Snapshots
  <2>3. f[k] = [d EXCEPT !.version = v] BY <1>2, <1>6, <2>1, <2>2
  <2>4. /\ [d EXCEPT !.version = v] \in Snapshots /\ [d EXCEPT !.version = v].version = v
        /\ [d EXCEPT !.version = v].value = d.value /\ [d EXCEPT !.version = v].status = d.status
        /\ [d EXCEPT !.version = v].at = d.at
    BY DEF Snapshots
  <2> QED BY <2>1, <2>2, <2>3, <2>4
<1>7. \A k \in Points : f[k] \in Snapshots BY <1>1, <1>5, <1>6
<1>8. disk' \in DiskStates
  <2>1. f \in [Points -> Snapshots] BY <1>2, <1>7
  <2> QED BY <1>1, <1>3, <2>1 DEF DiskStates
<1>9. ASSUME NEW k \in Points
      PROVE  f[k].version <= w.counter /\ store.snap[k].at <= f[k].at
  <2>1. w.snap[k].version <= w.counter /\ store.snap[k].at <= w.snap[k].at
    BY <1>9 DEF WriteTells
  <2>2. store.snap[k].at <= disk.snap[k].at BY <1>9 DEF DiskTells
  <2>3. CASE k \in w.of BY <1>5, <1>9, <2>1, <2>3
  <2>4. CASE k \notin w.of BY <1>6, <1>9, <2>1, <2>2, <2>4
  <2> QED BY <2>3, <2>4
<1>10. ASSUME NEW k \in Points, k \notin astray, k \notin w.of
       PROVE  /\ Holds(store, k, f[k])
              /\ k \notin muddled => Tallies(k, f[k], NoReading)
  <2>1. PICK d \in Snapshots : d = disk.snap[k] BY <1>10 DEF StateType, DiskStates
  <2>2. PICK x \in Snapshots : x = store.snap[k] BY <1>10 DEF StateType, StoreStates
  <2>3. PICK b : b = store.boot[k] OBVIOUS
  <2>4. w.snap[k].version = x.version BY <1>10, <2>2 DEF WriteTells
  <2>5. f[k] = [d EXCEPT !.version = x.version] BY <1>6, <1>10, <2>1, <2>4
  <2>6. PICK y : y = [d EXCEPT !.version = x.version] OBVIOUS
  <2>7. y \in Snapshots /\ y.version = x.version /\ y.value = d.value /\ y.status = d.status
    BY <2>6 DEF Snapshots
  <2>8. Holds(store, k, d) BY <1>10, <2>1 DEF DiskTells
  <2>9. k \notin muddled => Tallies(k, x, b) BY <1>10, <2>2, <2>3 DEF MemoryTells, Sound
  <2>10. CASE x = d
    <3>1. y = x BY <2>6, <2>10 DEF Snapshots
    <3>2. k \notin muddled => Tallies(k, x, NoReading) BY <2>9 DEF Tallies
    <3> QED BY <2>2, <2>5, <2>6, <3>1, <3>2 DEF Holds
  <2>11. CASE /\ b # NoReading /\ x = [d EXCEPT !.status = x.status, !.version = x.version]
              /\ b.value = d.value /\ b.status = d.status
    <3>1. x = [y EXCEPT !.status = x.status, !.version = x.version]
      BY <2>6, <2>11 DEF Snapshots
    <3>2. Holds(store, k, y) BY <2>2, <2>3, <2>7, <2>11, <3>1 DEF Holds
    <3>3. k \notin muddled => Tallies(k, y, NoReading) BY <2>7, <2>9, <2>11 DEF Tallies
    <3> QED BY <2>5, <2>6, <3>2, <3>3
  <2> QED BY <2>2, <2>3, <2>8, <2>10, <2>11 DEF Holds
<1>11. \A e \in named' : e[2] <= w.counter BY DEF WriteTells, Names
<1> QED BY <1>1, <1>4, <1>5, <1>8, <1>9, <1>10, <1>11

\* What a commit writes.
LEMMA WriteFits ==
    ASSUME StateInv, commit # NoCommit
    PROVE  /\ WriteOf(commit) \in Writes /\ WriteTells(WriteOf(commit))
           /\ WriteOf(commit).of = commit.of /\ WriteOf(commit).snap = commit.next.snap
           /\ WriteOf(commit).counter = commit.next.counter
<1> USE DEF StateInv
<1>1. PICK co \in Commits : co = commit BY DEF StateType
<1>2. PICK s \in StoreStates : s = co.next BY DEF Commits
<1>3. PICK w : w = WriteOf(commit) OBVIOUS
<1>4. w = [snap |-> s.snap, counter |-> s.counter, of |-> co.of] BY <1>1, <1>2, <1>3 DEF WriteOf
<1>5. w \in Writes /\ w.snap = s.snap /\ w.counter = s.counter /\ w.of = co.of
  BY <1>4 DEF Writes, StoreStates, Commits
<1>6. /\ Sound(s) /\ store.counter <= s.counter
      /\ \A k \in Points : store.snap[k].at <= s.snap[k].at
      /\ \A k \in Points \ co.of : s.snap[k] = store.snap[k]
  BY <1>1, <1>2 DEF CommitTells
<1>7. Names(s.counter)
  <2>1. store.counter \in Nat /\ s.counter \in Nat BY DEF StateType, StoreStates
  <2>2. \A e \in named : e[2] \in Nat /\ e[2] <= store.counter BY DEF MemoryTells, Names, StateType
  <2> QED BY <1>6, <2>1, <2>2 DEF Names
<1>8. WriteTells(w) BY <1>5, <1>6, <1>7 DEF WriteTells, Sound, Counted
<1> QED BY <1>1, <1>2, <1>3, <1>5, <1>8

LEMMA LandKeepsState == ASSUME StateInv, Land PROVE StateInv'
<1> USE DEF StateInv
<1>1. UNCHANGED <<time, world, pending, bulk, store, job, named>> /\ UNCHANGED <<late, astray, muddled>>
      /\ commit # NoCommit /\ ~commit.landed /\ late = {} /\ disk' = Written(WriteOf(commit))
      /\ commit' = [commit EXCEPT !.landed = TRUE]
  BY DEF Land, behind
<1>2. PICK co \in Commits : co = commit BY <1>1 DEF StateType
<1>3. PICK s \in StoreStates : s = co.next BY <1>2 DEF Commits
<1>4. commit' \in Commits /\ commit'.next = s /\ commit'.of = co.of /\ commit'.landed
  BY <1>1, <1>2, <1>3 DEF Commits
<1>5. PICK w \in Writes : w = WriteOf(commit) BY <1>1, WriteFits
<1>6. WriteTells(w) /\ w.of = co.of /\ w.snap = s.snap /\ w.counter = s.counter
  BY <1>1, <1>2, <1>3, <1>5, WriteFits
<1>7. /\ disk' \in DiskStates /\ disk'.counter = w.counter
      /\ \A e \in named' : e[2] <= disk'.counter
      /\ \A k \in Points : /\ disk'.snap[k].version <= disk'.counter
                           /\ store'.snap[k].at <= disk'.snap[k].at
      /\ \A k \in w.of : disk'.snap[k] = w.snap[k]
      /\ \A k \in Points \ (astray \cup w.of) :
           /\ Holds(store, k, disk'.snap[k])
           /\ k \notin muddled => Tallies(k, disk'.snap[k], NoReading)
  BY <1>1, <1>5, <1>6, WrittenFits
<1>8. StateType' BY <1>1, <1>4, <1>7 DEF StateType
<1>9. MemoryTells' BY <1>1 DEF MemoryTells, Names, Sound, Counted, Tallies, Fresh, Unknown
<1>10. /\ Sound(s) /\ store.counter <= s.counter /\ \A k \in Points : store.snap[k].at <= s.snap[k].at
       /\ \A k \in Points \ co.of : s.snap[k] = store.snap[k] /\ s.boot[k] = store.boot[k]
  BY <1>1, <1>2, <1>3 DEF CommitTells
<1>11. co.of \subseteq Points BY DEF Commits
<1>12. DiskTells'
  <2>1. ASSUME NEW k \in Points, k \notin astray, k \notin muddled
        PROVE  Tallies(k, disk'.snap[k], NoReading)
    <3>1. Tallies(k, s.snap[k], s.boot[k]) BY <1>10, <2>1 DEF Sound
    <3>2. CASE k \in co.of BY <1>6, <1>7, <3>1, <3>2 DEF Tallies
    <3>3. CASE k \notin co.of BY <1>6, <1>7, <2>1, <3>3
    <3> QED BY <3>2, <3>3
  <2>2. (\A k \in Points \ (astray \cup muddled) : Tallies(k, disk.snap[k], NoReading))'
    BY <1>1, <2>1 DEF Tallies
  <2>3. Names(disk.counter)' BY <1>7 DEF Names
  <2>4. commit' # NoCommit BY <1>4 DEF Commits, NoCommit, Actors
  <2> QED BY <1>4, <1>7, <2>2, <2>3, <2>4 DEF DiskTells
<1>13. CommitTells'
  <2>1. Sound(s)' BY <1>1, <1>10 DEF Sound, Counted, Tallies, Fresh, Unknown
  <2>2. Sound(commit.next)' BY <1>4, <2>1 DEF Sound, Counted, Tallies, Fresh
  <2>3. ASSUME NEW k \in Points, k \notin astray, k \notin co.of PROVE Holds(s, k, disk'.snap[k])
    <3>1. PICK d : d = disk'.snap[k] OBVIOUS
    <3>2. Holds(store, k, d) BY <1>6, <1>7, <2>3, <3>1
    <3>3. s.snap[k] = store.snap[k] /\ s.boot[k] = store.boot[k] BY <1>10, <2>3
    <3> QED BY <3>1, <3>2, <3>3 DEF Holds
  <2> QED BY <1>1, <1>4, <1>6, <1>7, <1>10, <2>2, <2>3 DEF CommitTells
<1>14. LateTells' BY <1>1 DEF LateTells
<1>15. ReadingsTell' BY <1>1 DEF ReadingsTell, Fresh
<1> QED BY <1>8, <1>9, <1>12, <1>13, <1>14, <1>15

LEMMA LandLateKeepsState == ASSUME StateInv, LandLate PROVE StateInv'
<1> USE DEF StateInv
<1>1. UNCHANGED <<time, world, pending, bulk, store, job, commit, named, muddled>> BY DEF LandLate
<1>2. PICK w \in late : disk' = Written(w) /\ late' = late \ {w} /\ astray' = astray \cup w.of
  BY DEF LandLate
<1>3. w \in Writes /\ WriteTells(w) BY DEF StateType, LateTells
<1>4. commit = NoCommit \/ ~commit.landed BY DEF CommitTells
<1>5. /\ disk' \in DiskStates /\ disk'.counter = w.counter
      /\ \A e \in named' : e[2] <= disk'.counter
      /\ \A k \in Points : /\ disk'.snap[k].version <= disk'.counter
                           /\ store'.snap[k].at <= disk'.snap[k].at
      /\ \A k \in Points \ (astray \cup w.of) :
           /\ Holds(store, k, disk'.snap[k])
           /\ k \notin muddled => Tallies(k, disk'.snap[k], NoReading)
  BY <1>1, <1>2, <1>3, <1>4, WrittenFits
<1>6. StateType' BY <1>1, <1>2, <1>3, <1>5 DEF StateType, Writes
<1>7. MemoryTells' BY <1>1 DEF MemoryTells, Names, Sound, Counted, Tallies, Fresh, Unknown
<1>8. DiskTells'
  <2>1. Names(disk.counter)' BY <1>5 DEF Names
  <2>2. (\A k \in Points \ (astray \cup muddled) : Tallies(k, disk.snap[k], NoReading))'
    BY <1>1, <1>2, <1>5 DEF Tallies
  <2>3. (\A k \in Points \ astray : Holds(store, k, disk.snap[k]))'
    BY <1>1, <1>2, <1>5 DEF Holds
  <2> QED BY <1>5, <2>1, <2>2, <2>3 DEF DiskTells
<1>9. CommitTells'
  BY <1>1, <1>4 DEF CommitTells, Sound, Counted, Tallies, Fresh, Unknown
<1>10. LateTells' BY <1>1, <1>2 DEF LateTells, WriteTells, Names
<1>11. ReadingsTell' BY <1>1 DEF ReadingsTell, Fresh
<1> QED BY <1>6, <1>7, <1>8, <1>9, <1>10, <1>11

LEMMA InstallKeepsState == ASSUME StateInv, Install PROVE StateInv'
<1> USE DEF StateInv
<1>1. UNCHANGED <<time, world, pending, bulk, disk, late, muddled>> /\ commit # NoCommit /\ commit.landed
      /\ astray' = astray \ commit.of
      /\ store' = commit.next /\ commit' = NoCommit /\ Give(commit.by, NoJob)
  BY DEF Install, Candidate
<1>2. PICK s \in StoreStates : s = commit.next BY <1>1 DEF StateType, Commits
<1>3. commit.by \in Actors BY <1>1 DEF StateType, Commits
<1>4. /\ job' \in [Actors -> {NoJob, LostJob} \cup SaveJobs]
      /\ \A c \in Actors : \/ job'[c] = job[c] \/ job'[c].kind # "save"
                            \/ \A k \in Points : job'[c].readings[k] # NoReading
                                                    => Fresh(k, job'[c].readings[k])
  BY <1>1, <1>3, JobGiven
<1>5. /\ Sound(s) /\ store.counter <= s.counter /\ disk.counter = s.counter /\ late = {}
      /\ \A k \in Points \ commit.of : s.snap[k] = store.snap[k] /\ s.boot[k] = store.boot[k]
      /\ \A k \in commit.of : disk.snap[k] = s.snap[k]
      /\ \A k \in Points \ (astray \cup commit.of) : Holds(s, k, disk.snap[k])
  BY <1>1, <1>2 DEF CommitTells
<1>6. named' = named \cup {<<k, s.snap[k].version, s.snap[k].value>> :
                             k \in {j \in Points : s.snap[j].status = "current"}}
  BY <1>2 DEF Install, Candidate
<1>7. \A k \in Points : s.snap[k].version \in Nat /\ s.snap[k].value \in Nat
  BY <1>2 DEF StoreStates, Snapshots
<1>8. ASSUME NEW e \in named'
      PROVE  \/ e \in named
             \/ /\ e[1] \in Points /\ s.snap[e[1]].status = "current"
                /\ e[2] = s.snap[e[1]].version /\ e[3] = s.snap[e[1]].value
                /\ e \in Points \X Nat \X Nat
  BY <1>6, <1>7, <1>8
<1>9. named' \subseteq Points \X Nat \X Nat BY <1>8 DEF StateType
<1>10. StateType' BY <1>1, <1>2, <1>4, <1>9 DEF StateType
<1>11. ASSUME NEW k \in Points, k \notin muddled
       PROVE  Tallies(k, s.snap[k], s.boot[k])' /\ Tallies(k, s.snap[k], NoReading)'
  <2>1. Tallies(k, s.snap[k], s.boot[k]) /\ (s.boot[k] # NoReading => s.snap[k].status # "current")
    BY <1>5, <1>11 DEF Sound
  <2>2. ASSUME NEW e \in named', e[1] = k, e[2] = s.snap[k].version
        PROVE  /\ s.snap[k].status = "current" => e[3] = s.snap[k].value
               /\ s.boot[k] # NoReading /\ s.boot[k].status = "current" => e[3] = s.boot[k].value
    BY <1>8, <2>1, <2>2 DEF Tallies
  <2> QED BY <2>2 DEF Tallies
<1>12. MemoryTells'
  <2>1. Counted(s) BY <1>5 DEF Sound
  <2>2. \A k \in Points : s.boot[k] # NoReading => s.snap[k].status # "current"
    BY <1>5 DEF Sound
  <2>3. \A k \in Points : s.snap[k].status = "current" => Fresh(k, s.snap[k])
    BY <1>5 DEF Sound
  <2>4. store' = s BY <1>1, <1>2
  <2>5. Counted(s)' BY <2>1, CountedStays
  <2>6. \A k \in Points : s.snap[k].status = "current" => Fresh(k, s.snap[k])'
    BY <1>1, <2>3 DEF Fresh
  <2>7. Sound(s)' BY <1>1, <1>11, <2>2, <2>5, <2>6 DEF Sound
  <2>8. Sound(store)' BY <2>4, <2>7 DEF Sound, Counted, Tallies, Fresh
  <2>9. \A e \in named' : e[2] <= s.counter
    <3> TAKE e \in named'
    <3>1. CASE e \in named
      <4>1. e[2] <= store.counter /\ e[2] \in Nat BY <3>1 DEF MemoryTells, Names, StateType
      <4>2. store.counter \in Nat /\ s.counter \in Nat BY <1>2 DEF StateType, StoreStates
      <4> QED BY <1>5, <4>1, <4>2
    <3>2. CASE e \notin named BY <1>8, <2>1, <3>2 DEF Counted
    <3> QED BY <3>1, <3>2
  <2>10. \A a, b \in named' : a[1] = b[1] /\ a[2] = b[2] /\ a[1] \notin muddled => a[3] = b[3]
    <3> TAKE a, b \in named'
    <3> HAVE a[1] = b[1] /\ a[2] = b[2] /\ a[1] \notin muddled
    <3>1. CASE a \in named /\ b \in named BY <3>1 DEF MemoryTells
    <3>2. CASE a \notin named
      <4>1. a[1] \in Points /\ s.snap[a[1]].status = "current" /\ a[2] = s.snap[a[1]].version
            /\ a[3] = s.snap[a[1]].value
        BY <1>8, <3>2
      <4>2. Tallies(a[1], s.snap[a[1]], NoReading)' BY <1>11, <4>1
      <4> QED BY <4>1, <4>2 DEF Tallies
    <3>3. CASE b \notin named
      <4>1. b[1] \in Points /\ s.snap[b[1]].status = "current" /\ b[2] = s.snap[b[1]].version
            /\ b[3] = s.snap[b[1]].value
        BY <1>8, <3>3
      <4>2. Tallies(b[1], s.snap[b[1]], NoReading)' BY <1>11, <4>1
      <4> QED BY <4>1, <4>2 DEF Tallies
    <3> QED BY <3>1, <3>2, <3>3
  <2> QED BY <1>1, <2>4, <2>8, <2>9, <2>10 DEF MemoryTells, Names
<1>13. DiskTells'
  <2>1. Names(disk.counter)' BY <1>1, <1>2, <1>5, <1>12 DEF MemoryTells, Names
  <2>2. ASSUME NEW k \in Points, k \notin astray' PROVE Holds(s, k, disk.snap[k])
    <3>1. CASE k \in commit.of BY <1>5, <3>1 DEF Holds
    <3>2. CASE k \notin commit.of BY <1>1, <1>5, <2>2, <3>2
    <3> QED BY <3>1, <3>2
  <2>3. (\A k \in Points \ astray : Holds(store, k, disk.snap[k]))'
    BY <1>1, <1>2, <2>2 DEF Holds
  <2>4. ASSUME NEW k \in Points, k \notin astray', k \notin muddled
        PROVE  Tallies(k, disk.snap[k], NoReading)'
    <3>1. Tallies(k, s.snap[k], NoReading)' BY <1>11, <2>4
    <3>2. CASE disk.snap[k] = s.snap[k] BY <1>1, <3>1, <3>2 DEF Tallies
    <3>3. CASE disk.snap[k] # s.snap[k]
      <4>1. k \notin commit.of /\ k \notin astray BY <1>1, <1>5, <2>4, <3>3
      <4>2. s.boot[k] # NoReading BY <2>2, <2>4, <3>3 DEF Holds
      <4>3. s.snap[k].status # "current" BY <1>5, <2>4, <4>2 DEF Sound
      <4>4. \A e \in named' : e[1] = k => e \in named BY <1>8, <4>3
      <4>5. Tallies(k, disk.snap[k], NoReading) BY <2>4, <4>1 DEF DiskTells
      <4> QED BY <1>1, <4>4, <4>5 DEF Tallies
    <3> QED BY <3>2, <3>3
  <2>5. \A k \in Points : disk'.snap[k].version <= disk'.counter BY <1>1 DEF DiskTells
  <2>6. ASSUME NEW k \in Points PROVE store'.snap[k].at <= disk'.snap[k].at
    <3>1. store.snap[k].at <= disk.snap[k].at BY DEF DiskTells
    <3>2. s.snap[k].at \in Nat BY <1>2 DEF StoreStates, Snapshots
    <3>3. CASE k \in commit.of BY <1>1, <1>2, <1>5, <3>2, <3>3
    <3>4. CASE k \notin commit.of BY <1>1, <1>2, <1>5, <3>1, <3>4
    <3> QED BY <3>3, <3>4
  <2> QED BY <1>1, <2>1, <2>3, <2>4, <2>5, <2>6 DEF DiskTells
<1>14. CommitTells' /\ LateTells' BY <1>1, <1>5 DEF CommitTells, LateTells
<1>15. ReadingsTell'
  <2>1. time <= time' /\ \A k \in Points : world'[k].at <= time'
    BY <1>1 DEF StateType, ReadingsTell
  <2>2. \A c \in Actors : \/ job'[c] = job[c] \/ job'[c].kind # "save"
                          \/ \A k \in Points : job'[c].readings[k] # NoReading
                                                  => FreshThen(k, job'[c].readings[k])
    BY <1>1, <1>4 DEF Fresh, FreshThen
  <2> QED BY <1>1, <1>10, <2>1, <2>2, ReadingsKept
<1> QED BY <1>10, <1>12, <1>13, <1>14, <1>15

LEMMA CancelKeepsState == ASSUME StateInv, CancelReader PROVE StateInv'
<1> USE DEF StateInv
<1>1. UNCHANGED <<time, world, pending, bulk, store, disk, named>> /\ UNCHANGED <<late, astray, muddled>>
  BY DEF CancelReader, behind
<1>2. CASE commit' = commit /\ Give("reader", NoJob)
  <2>1. "reader" \in Actors BY DEF Actors
  <2>2. /\ job' \in [Actors -> {NoJob, LostJob} \cup SaveJobs]
        /\ \A c \in Actors : \/ job'[c] = job[c] \/ job'[c].kind # "save"
                              \/ \A k \in Points : job'[c].readings[k] # NoReading
                                                      => Fresh(k, job'[c].readings[k])
    BY <1>2, <2>1, JobGiven
  <2>3. pending' \in ReadingSets /\ bulk' \in Seq(Points) BY <1>1 DEF StateType
  <2> QED BY <1>1, <1>2, <2>2, <2>3, MovesKeepState
<1>3. CASE /\ commit.by = "reader" /\ job' = job
           /\ commit' = [commit EXCEPT !.cancelled = TRUE]
  <2>1. commit # NoCommit BY <1>3 DEF NoCommit
  <2>2. PICK co \in Commits : co = commit BY <2>1 DEF StateType
  <2>3. commit' \in Commits /\ commit'.next = co.next /\ commit'.landed = co.landed /\ commit'.of = co.of
    BY <1>3, <2>2 DEF Commits
  <2>4. StateType' BY <1>1, <1>3, <2>3 DEF StateType
  <2>5. MemoryTells' BY <1>1 DEF MemoryTells, Names, Sound, Counted, Tallies, Fresh, Unknown
  <2>6. commit' # NoCommit BY <2>3 DEF Commits, NoCommit, Actors
  <2>7. DiskTells' BY <1>1, <2>1, <2>2, <2>3, <2>6 DEF DiskTells, Names, Tallies, Holds
  <2>8. CommitTells'
    <3>1. Sound(co.next)' BY <1>1, <2>1, <2>2 DEF CommitTells, Sound, Counted, Tallies, Fresh, Unknown
    <3>2. Sound(commit.next)' BY <2>3, <3>1 DEF Sound, Counted, Tallies, Fresh
    <3>3. /\ store.counter <= co.next.counter
          /\ \A k \in Points : store.snap[k].at <= co.next.snap[k].at
          /\ \A k \in Points \ co.of : co.next.snap[k] = store.snap[k] /\ co.next.boot[k] = store.boot[k]
          /\ co.landed =>
               /\ late = {} /\ disk.counter = co.next.counter
               /\ \A k \in co.of : disk.snap[k] = co.next.snap[k]
               /\ \A k \in Points \ (astray \cup co.of) : Holds(co.next, k, disk.snap[k])
      BY <2>1, <2>2 DEF CommitTells
    <3>4. co.landed => (\A k \in Points \ (astray \cup commit.of) : Holds(commit.next, k, disk.snap[k]))'
      <4>1. PICK s : s = co.next OBVIOUS
      <4>2. commit'.next = s BY <2>3, <4>1
      <4>3. co.landed => \A k \in Points \ (astray \cup co.of) : Holds(s, k, disk.snap[k])
        BY <3>3, <4>1
      <4> QED BY <1>1, <2>3, <4>2, <4>3 DEF Holds
    <3> QED BY <1>1, <2>3, <3>2, <3>3, <3>4 DEF CommitTells
  <2>9. ReadingsTell' BY <1>1, <1>3 DEF ReadingsTell, Fresh
  <2>10. LateTells' BY <1>1 DEF LateTells, WriteTells, Names
  <2> QED BY <2>4, <2>5, <2>7, <2>8, <2>9, <2>10
<1> QED BY <1>2, <1>3 DEF CancelReader

LEMMA WriteFailsKeepsState == ASSUME StateInv, WriteFails PROVE StateInv'
<1> USE DEF StateInv
<1>1. UNCHANGED <<time, world, store, disk, astray, muddled, named>> /\ commit # NoCommit
      /\ ~commit.landed /\ commit' = NoCommit
  BY DEF WriteFails
<1>2. PICK a \in Actors, j \in {NoJob, LostJob} : Give(a, j)
  BY DEF WriteFails, Actors
<1>3. /\ job' \in [Actors -> {NoJob, LostJob} \cup SaveJobs]
      /\ \A c \in Actors : \/ job'[c] = job[c] \/ job'[c].kind # "save"
                            \/ \A k \in Points : job'[c].readings[k] # NoReading
                                                    => Fresh(k, job'[c].readings[k])
  BY <1>2, JobGiven
<1>4. /\ pending' = pending \/ pending' = [k \in Points |-> NoReading]
      /\ bulk' = bulk \/ bulk' = <<>>
  BY DEF WriteFails
<1>5. /\ pending' \in ReadingSets /\ bulk' \in Seq(Points)
      /\ \A k \in Points : pending'[k] \in {NoReading, pending[k]}
  <2>1. pending \in ReadingSets /\ bulk \in Seq(Points) BY DEF StateType
  <2>2. bulk' \in Seq(Points)
    <3>1. CASE bulk' = bulk BY <2>1, <3>1
    <3>2. CASE bulk' = <<>> BY <3>2
    <3> QED BY <1>4, <3>1, <3>2
  <2>3. CASE pending' = pending BY <2>1, <2>2, <2>3
  <2>4. CASE pending' = [k \in Points |-> NoReading] BY <2>2, <2>4 DEF ReadingSets
  <2> QED BY <1>4, <2>3, <2>4
<1>6. late' = late \/ late' = late \cup {WriteOf(commit)} BY DEF WriteFails
<1>7. late' \subseteq Writes /\ \A w \in late' : WriteTells(w)
  BY <1>1, <1>6, WriteFits DEF StateType, LateTells
<1>8. StateType' BY <1>1, <1>3, <1>5, <1>7 DEF StateType
<1>9. MemoryTells' BY <1>1 DEF MemoryTells, Names, Sound, Counted, Tallies, Fresh, Unknown
<1>10. DiskTells' BY <1>1 DEF DiskTells, Names, Tallies, Holds
<1>11. CommitTells' BY <1>1 DEF CommitTells
<1>12. LateTells' BY <1>1, <1>7 DEF LateTells, WriteTells, Names
<1>13. ReadingsTell'
  <2>1. time <= time' /\ \A k \in Points : world'[k].at <= time'
    BY <1>1 DEF StateType, ReadingsTell
  <2>2. \A c \in Actors : \/ job'[c] = job[c] \/ job'[c].kind # "save"
                          \/ \A k \in Points : job'[c].readings[k] # NoReading
                                                  => FreshThen(k, job'[c].readings[k])
    BY <1>1, <1>3 DEF Fresh, FreshThen
  <2> QED BY <1>1, <1>5, <1>8, <2>1, <2>2, ReadingsKept
<1> QED BY <1>8, <1>9, <1>10, <1>11, <1>12, <1>13

LEMMA RestartKeepsState == ASSUME StateInv, RestartRuntime PROVE StateInv'
<1> USE DEF StateInv
<1>1. UNCHANGED <<time, world, disk, named>> /\ commit' = NoCommit /\ bulk' = <<>>
      /\ pending' = [k \in Points |-> NoReading] /\ job' = [a \in Actors |-> NoJob]
      /\ late' = {} /\ astray' = {} /\ muddled' = muddled \cup astray
  BY DEF RestartRuntime
<1>2. PICK c \in Nat : c = disk.counter BY DEF StateType, DiskStates
<1>3. PICK ks : ks = Nameless OBVIOUS
<1>4. ks \subseteq Points BY <1>3 DEF Nameless
<1>5. PICK nr : nr = Numbering(c, ks) OBVIOUS
<1>6. PICK n \in Nat : n = Cardinality(ks) BY <1>4, NumberingFits
<1>7. nr \in [ks -> c + 1 .. c + n] BY <1>4, <1>5, <1>6, NumberingFits
<1>8. store' = [snap |-> [k \in Points |->
                            IF disk.snap[k] = Unknown THEN Unknown
                            ELSE [disk.snap[k] EXCEPT !.status = "stale",
                                    !.version = IF k \in ks THEN nr[k] ELSE @]],
                counter |-> c + n,
                boot |-> [k \in Points |-> IF disk.snap[k] = Unknown THEN NoReading
                                           ELSE disk.snap[k]]]
  BY <1>2, <1>3, <1>5, <1>6 DEF RestartRuntime, Restored, RestoredCounter
<1>9. store'.counter = c + n BY <1>8
<1>10. ASSUME NEW k \in Points, disk.snap[k] = Unknown
       PROVE  store'.snap[k] = Unknown /\ store'.boot[k] = NoReading
  BY <1>8, <1>10
<1>11. ASSUME NEW k \in Points, disk.snap[k] # Unknown
       PROVE  /\ store'.snap[k] = [disk.snap[k] EXCEPT !.status = "stale",
                                     !.version = IF k \in ks THEN nr[k] ELSE @]
              /\ store'.boot[k] = disk.snap[k]
  BY <1>8, <1>11
<1>12. ASSUME NEW k \in Points
       PROVE  /\ store'.snap[k] \in Snapshots /\ store'.snap[k].status # "current"
              /\ store'.snap[k].at = disk.snap[k].at
              /\ store'.boot[k] \in {NoReading, disk.snap[k]}
              /\ \/ store'.snap[k].version = disk.snap[k].version
                 \/ store'.snap[k].version > c
              /\ Holds(store', k, disk.snap[k])
              /\ store'.snap[k].version = 0 => store'.snap[k] = Unknown
              /\ store'.snap[k].version <= c + n
  <2>1. PICK d \in Snapshots : d = disk.snap[k] BY <1>12 DEF StateType, DiskStates
  <2>2. d.version <= c /\ d.version \in Nat BY <1>2, <1>12, <2>1 DEF DiskTells, Snapshots
  <2>3. CASE d = Unknown
    <3>1. store'.snap[k] = d /\ store'.boot[k] = NoReading BY <1>10, <1>12, <2>1, <2>3
    <3>2. d.status # "current" BY <2>3 DEF Unknown
    <3>3. d.version <= c + n BY <2>2
    <3> QED BY <2>1, <2>3, <3>1, <3>2, <3>3 DEF Holds
  <2>4. CASE d # Unknown
    <3>1. PICK v : v = IF k \in ks THEN nr[k] ELSE d.version OBVIOUS
    <3>2. k \in ks <=> d.version = 0 BY <1>3, <1>12, <2>1, <2>4 DEF Nameless
    <3>3. v \in Nat /\ v # 0 /\ v <= c + n /\ (v = d.version \/ (v > c /\ d.version = 0))
      <4>1. CASE k \in ks
        <5>1. nr[k] \in c + 1 .. c + n BY <1>7, <4>1
        <5> QED BY <3>1, <3>2, <4>1, <5>1
      <4>2. CASE k \notin ks BY <2>2, <3>1, <3>2, <4>2
      <4> QED BY <4>1, <4>2
    <3>4. PICK y : y = [d EXCEPT !.status = "stale", !.version = v] OBVIOUS
    <3>5. y \in Snapshots /\ y.status = "stale" /\ y.version = v /\ y.at = d.at
      BY <3>3, <3>4 DEF Snapshots
    <3>6. store'.snap[k] = y /\ store'.boot[k] = d
      BY <1>11, <1>12, <2>1, <2>4, <3>1, <3>4 DEF Snapshots
    <3>7. d # NoReading BY StateAssumption
    <3>8. Holds(store', k, d)
      BY <3>3, <3>4, <3>5, <3>6, <3>7 DEF Holds
    <3> QED BY <2>1, <3>3, <3>5, <3>6, <3>8
  <2> QED BY <2>3, <2>4
<1>13. StateType'
  <2>1. PICK f : f = store'.snap OBVIOUS
  <2>2. PICK b : b = store'.boot OBVIOUS
  <2>3. f = [k \in Points |-> f[k]] /\ b = [k \in Points |-> b[k]] BY <1>8, <2>1, <2>2
  <2>4. \A k \in Points : f[k] \in Snapshots BY <1>12, <2>1
  <2>5. \A k \in Points : b[k] \in Snapshots \cup {NoReading}
    BY <1>12, <2>2 DEF StateType, DiskStates
  <2>6. f \in [Points -> Snapshots] /\ b \in [Points -> Snapshots \cup {NoReading}]
    BY <2>3, <2>4, <2>5
  <2>7. store' = [snap |-> f, counter |-> c + n, boot |-> b] BY <1>8, <2>1, <2>2
  <2>8. store' \in StoreStates BY <2>6, <2>7 DEF StoreStates
  <2>9. pending' \in ReadingSets /\ job' \in [Actors -> {NoJob, LostJob} \cup SaveJobs]
         /\ bulk' \in Seq(Points)
    BY <1>1 DEF ReadingSets
  <2> QED BY <1>1, <2>8, <2>9 DEF StateType
<1>14. \A e \in named : e[2] \in Nat /\ e[2] <= c
  BY <1>2 DEF DiskTells, Names, StateType
<1>15. MemoryTells'
  <2>1. ASSUME NEW k \in Points, k \notin muddled'
        PROVE  Tallies(k, store.snap[k], store.boot[k])'
    <3>1. Tallies(k, disk.snap[k], NoReading) BY <1>1, <2>1 DEF DiskTells
    <3>2. CASE store'.snap[k].version = disk.snap[k].version
      BY <1>1, <1>12, <2>1, <3>1, <3>2 DEF Tallies
    <3>3. CASE store'.snap[k].version > c
      <4>1. store'.snap[k].version \in Nat BY <1>12, <2>1 DEF Snapshots
      <4>2. \A e \in named : e[2] # store'.snap[k].version BY <1>14, <3>3, <4>1
      <4> QED BY <1>1, <4>2 DEF Tallies
    <3> QED BY <1>12, <2>1, <3>2, <3>3
  <2>2. Sound(store)' BY <1>9, <1>12, <2>1 DEF Sound, Counted
  <2>3. Names(store.counter)' BY <1>1, <1>9, <1>14 DEF Names
  <2>4. \A a, b \in named' : a[1] = b[1] /\ a[2] = b[2] /\ a[1] \notin muddled' => a[3] = b[3]
    BY <1>1 DEF MemoryTells
  <2> QED BY <2>2, <2>3, <2>4 DEF MemoryTells
<1>16. DiskTells'
  <2>1. ASSUME NEW k \in Points
        PROVE  disk'.snap[k].version <= disk'.counter /\ store'.snap[k].at <= disk'.snap[k].at
    <3>1. disk.snap[k].at \in Nat BY DEF StateType, DiskStates, Snapshots
    <3> QED BY <1>1, <1>12, <3>1 DEF DiskTells
  <2>2. (\A k \in Points \ (astray \cup muddled) : Tallies(k, disk.snap[k], NoReading))'
    BY <1>1 DEF DiskTells, Tallies
  <2>3. (\A k \in Points : Holds(store, k, disk.snap[k]))' BY <1>1, <1>12 DEF Holds
  <2>4. Names(disk.counter)' BY <1>1 DEF DiskTells, Names
  <2> QED BY <2>1, <2>2, <2>3, <2>4 DEF DiskTells
<1>17. CommitTells' /\ LateTells' BY <1>1 DEF CommitTells, LateTells
<1>18. ReadingsTell'
  <2>1. \A k \in Points : pending'[k] = NoReading BY <1>1
  <2>2. \A a \in Actors : job'[a].kind # "save" BY <1>1 DEF NoJob
  <2> QED BY <1>1, <2>1, <2>2 DEF ReadingsTell
<1> QED BY <1>13, <1>15, <1>16, <1>17, <1>18

LEMMA StateStutters == ASSUME StateInv, UNCHANGED stateVars PROVE StateInv'
<1>1. UNCHANGED <<time, world, store, disk, commit, named>> /\ pending' = pending /\ bulk' = bulk
      /\ job' = job /\ UNCHANGED <<late, astray, muddled>>
  BY DEF stateVars, behind
<1>2. pending' \in ReadingSets /\ bulk' \in Seq(Points)
      /\ job' \in [Actors -> {NoJob, LostJob} \cup SaveJobs]
  BY <1>1 DEF StateInv, StateType
<1> QED BY <1>1, <1>2, MovesKeepState

LEMMA StateSteps == ASSUME StateInv, StateNext PROVE StateInv'
<1>1. ASSUME NEW k \in Points, Change(k) \/ ReadbackPoint(k) PROVE StateInv'
  BY <1>1, ChangeKeepsState, ReadbackKeepsState
<1>2. ASSUME LoseLink \/ Reconnect PROVE StateInv' BY <1>2, LinkKeepsState
<1>3. ASSUME ConsumePriority \/ ConsumeState PROVE StateInv'
  BY <1>3, ConsumePriorityKeepsState, ConsumeStateKeepsState
<1>4. ASSUME NEW a \in Actors, BeginCommit(a) PROVE StateInv' BY <1>4, BeginCommitKeepsState
<1>5. ASSUME Land \/ LandLate \/ Install \/ CancelReader \/ WriteFails PROVE StateInv'
  BY <1>5, LandKeepsState, LandLateKeepsState, InstallKeepsState, CancelKeepsState,
     WriteFailsKeepsState
<1>6. ASSUME RestartRuntime \/ TimePasses PROVE StateInv'
  BY <1>6, RestartKeepsState, TimeKeepsState
<1> QED BY <1>1, <1>2, <1>3, <1>4, <1>5, <1>6 DEF StateNext

\* No snapshot in memory gives way to an older one.
Forward == \A k \in Points : store'.snap[k].at >= store.snap[k].at

LEMMA ForwardSteps == ASSUME StateInv, StateInv', [StateNext]_stateVars PROVE [Forward]_stateVars
<1> SUFFICES ASSUME StateNext PROVE Forward OBVIOUS
<1>1. \A k \in Points : store.snap[k].at \in Nat BY DEF StateInv, StateType, StoreStates, Snapshots
<1>2. CASE store' = store BY <1>1, <1>2 DEF Forward
<1>3. CASE Install
  <2>1. commit # NoCommit /\ store' = commit.next BY <1>3 DEF Install, Candidate
  <2>2. \A k \in Points : store.snap[k].at <= commit.next.snap[k].at
    BY <2>1 DEF StateInv, CommitTells
  <2> QED BY <2>1, <2>2 DEF Forward
<1>4. CASE RestartRuntime
  <2>1. ASSUME NEW k \in Points PROVE store'.snap[k].at = disk.snap[k].at
    <3>1. PICK d \in Snapshots : d = disk.snap[k] BY DEF StateInv, StateType, DiskStates
    <3>2. PICK y \in Snapshots : y = store'.snap[k] BY DEF StateInv, StateType, StoreStates
    <3>3. commit' = NoCommit /\ astray' = {} /\ disk' = disk BY <1>4 DEF RestartRuntime
    <3>4. Holds(store, k, disk.snap[k])' BY <3>3 DEF StateInv, DiskTells
    <3>5. y = d \/ y = [d EXCEPT !.status = y.status, !.version = y.version]
      BY <3>1, <3>2, <3>3, <3>4 DEF Holds
    <3>6. y.at = d.at BY <3>5 DEF Snapshots
    <3> QED BY <3>1, <3>2, <3>6
  <2> QED BY <2>1 DEF StateInv, DiskTells, Forward
<1>5. Install \/ RestartRuntime \/ store' = store
  BY DEF StateNext, Change, ReadbackPoint, LoseLink, Reconnect, ConsumePriority, ConsumeState,
         BeginCommit, Land, LandLate, CancelReader, WriteFails, TimePasses
<1> QED BY <1>2, <1>3, <1>4, <1>5

LEMMA StateInvSuffices == ASSUME StateInv PROVE StoreIsCoherent /\ WrongIsBrief
<1> USE DEF StateInv
<1>1. StoreIsCoherent BY DEF DiskTells, MemoryTells, Holds, StoreIsCoherent
<1>2. WrongIsBrief
  <2> SUFFICES ASSUME NEW k \in Points, EffectiveStatus(k) = "current",
                      store.snap[k].value # world[k].value
               PROVE  time - world[k].at <= StaleAfter
    BY DEF WrongIsBrief
  <2>1. store.snap[k].status = "current" /\ ~(time - store.snap[k].at > StaleAfter)
    BY DEF EffectiveStatus
  <2>2. Fresh(k, store.snap[k]) BY <2>1 DEF MemoryTells, Sound
  <2>3. store.snap[k].at \in Nat /\ world[k].at \in Nat /\ time \in Nat
    BY DEF StateType, StoreStates, Snapshots, Readings
  <2> QED BY <2>1, <2>2, <2>3, StateAssumption DEF Fresh
<1> QED BY <1>1, <1>2

\* For every set of points, queue size, staleness limit, number of changes, lost
\* links, failed writes, writes that land after their caller timed out,
\* cancellations and restarts: while nobody commits, memory holds what is on disk,
\* but for the rows a late write put there; a version never stands for two current
\* values, but for a point whose row of a late write a restart found; a value given
\* out as current went wrong at most stale_after ago; and no snapshot gives way to
\* an older one (StateStore, SourceEventConsumer and the storage queue).
THEOREM ValuesStayHonest == StateSpec => ValuesAreHonest
<1>1. StateInit => StateInv BY StateInitially
<1>2. StateInv /\ [StateNext]_stateVars => StateInv' BY StateSteps, StateStutters
<1>3. StateInv => StoreIsCoherent /\ WrongIsBrief BY StateInvSuffices
<1>4. StateInv /\ StateInv' /\ [StateNext]_stateVars => [Forward]_stateVars BY ForwardSteps
<1>5. StateSpec => [][Forward]_stateVars BY <1>1, <1>2, <1>4, PTL DEF StateSpec
<1>6. [][Forward]_stateVars => NeverBackwards BY DEF Forward, NeverBackwards
<1> QED BY <1>1, <1>2, <1>3, <1>5, <1>6, PTL DEF StateSpec, ValuesAreHonest

-----------------------------------------------------------------------------
(* Resident consent.  A challenge has one place.  While the wall clock is   *)
(* not set, what was shown carries the pinned observation or an older       *)
(* preference version, because requests come back in the order they read    *)
(* the preferences; and a grant issued after a review has a later stamp.    *)

Digests     == [plan : Nat, pref : Nat, stamp : Int, head : Nat]
Challenges  == [id : Nat, digest : Digests \cup {<<>>}, wall : Int, until : Int, end : Int,
                known : Nat]
TalkRows    == [op : {"none", "review", "approve", "revoke", "reject"},
                at : {"idle", "plan", "prefs", "back", "done"}, visit : Nat,
                challenge : Challenges, ask : Nat, plan : Nat, pref : Nat]
VisitRows   == [on : BOOLEAN, until : Int, end : Int]
ConsentRows == [of : Nat, plan : Nat, wall : Int, until : Int,
                st : {"pending", "consumed", "revoked"}]
Clocks      == [wall : Int, tick : Nat, last : Int, jumps : Nat]
Houses      == [plan : Nat, pref : Nat, head : Nat, others : Nat]

ConsentType ==
    /\ clock \in Clocks /\ house \in Houses
    /\ pin \in [pref : Nat, stamp : Int] /\ made \in Nat
    /\ visit \in [Visits -> VisitRows] /\ held \in [Visits -> Challenges]
    /\ talk \in [Talks -> TalkRows] /\ line \in [Talks -> SUBSET Talks]
    /\ consents \in Seq(ConsentRows)

Undisturbed == clock.jumps = 0

\* What a challenge that was shown says of the pin, the grants and the clock.
ShownTells(c) ==
    /\ c.id <= made /\ (c = NoChallenge \/ c.digest # <<>>)
    /\ c.digest # <<>> /\ Undisturbed =>
         /\ c.wall <= clock.wall
         /\ \A g \in DOMAIN consents : c.known < g => c.wall < consents[g].wall
         /\ c.digest.pref <= pin.pref
         /\ c.digest.pref = pin.pref => c.digest.stamp = pin.stamp

Deciding == \A k \in Talks : talk[k].op \in {"approve", "revoke"} => talk[k].challenge # NoChallenge

\* What is on its way back.
BackTells(k) ==
    /\ talk[k].at = "back" => /\ talk[k].pref <= house.pref
                              /\ Undisturbed => pin.pref <= talk[k].pref
    /\ \A j \in line[k] : /\ talk[k].at = "back" /\ talk[j].at = "back" /\ j # k
                          /\ talk[j].pref <= talk[k].pref

InOrder(j, k) ==
    j # k /\ talk[j].at = "back" /\ talk[k].at = "back" => j \in line[k] \/ k \in line[j]

PinTells == Undisturbed => pin.pref <= house.pref /\ pin.stamp <= clock.wall

Shown(c, d) == c.id # 0 => c.id # d.id
Apart ==
    /\ \A h, i \in Visits : h # i => Shown(held[h], held[i])
    /\ \A h \in Visits, k \in Talks : Shown(held[h], talk[k].challenge)
    /\ \A j, k \in Talks : j # k => Shown(talk[j].challenge, talk[k].challenge)
BooksApart ==
    /\ \A g \in DOMAIN consents : consents[g].of <= made
    /\ \A g \in DOMAIN consents, h \in Visits : consents[g].of # 0 => consents[g].of # held[h].id
    /\ \A g \in DOMAIN consents, k \in Talks :
         consents[g].of # 0 => consents[g].of # talk[k].challenge.id
    /\ \A f, g \in DOMAIN consents : f # g /\ consents[f].of # 0 => consents[f].of # consents[g].of

ConsentInv ==
    /\ ConsentType /\ PinTells
    /\ \A h \in Visits : ShownTells(held[h])
    /\ \A k \in Talks : ShownTells(talk[k].challenge)
    /\ \A k \in Talks : BackTells(k)
    /\ \A j, k \in Talks : InOrder(j, k)
    /\ Apart /\ BooksApart /\ Deciding


LEMMA ConsentInitially == ConsentInit => ConsentInv
<1> SUFFICES ASSUME ConsentInit PROVE ConsentInv OBVIOUS
<1>1. NoChallenge \in Challenges BY DEF NoChallenge, Challenges
<1>2. NoTalk \in TalkRows /\ NoTalk.challenge = NoChallenge /\ NoTalk.at = "idle"
  BY <1>1 DEF NoTalk, TalkRows
<1>3. NoVisit \in VisitRows BY DEF NoVisit, VisitRows
<1>4. clock \in Clocks /\ clock.wall = 1 BY DEF ConsentInit, Clocks
<1>5. house \in Houses /\ house.pref = 1 BY DEF ConsentInit, Houses
<1>6. pin \in [pref : Nat, stamp : Int] /\ pin.pref = 0 /\ pin.stamp = 0 BY DEF ConsentInit
<1>7. consents \in Seq(ConsentRows) /\ DOMAIN consents = {} BY DEF ConsentInit
<1>8. ConsentType BY <1>1, <1>2, <1>3, <1>4, <1>5, <1>6, <1>7 DEF ConsentInit, ConsentType
<1>9. PinTells BY <1>4, <1>5, <1>6 DEF PinTells
<1>10. \A h \in Visits : held[h] = NoChallenge BY DEF ConsentInit
<1>11. \A k \in Talks : talk[k] = NoTalk /\ line[k] = {} BY DEF ConsentInit
<1>12. NoChallenge.id = 0 /\ NoChallenge.digest = <<>> BY DEF NoChallenge
<1>13. \A h \in Visits : ShownTells(held[h]) BY <1>8, <1>10, <1>12 DEF ShownTells, ConsentType
<1>14. \A k \in Talks : ShownTells(talk[k].challenge)
  BY <1>2, <1>8, <1>11, <1>12 DEF ShownTells, ConsentType
<1>15. \A k \in Talks : BackTells(k) BY <1>2, <1>11 DEF BackTells
<1>16. \A j, k \in Talks : InOrder(j, k) BY <1>2, <1>11 DEF InOrder
<1>17. Apart BY <1>2, <1>10, <1>11, <1>12 DEF Apart, Shown
<1>18. BooksApart BY <1>7 DEF BooksApart
<1>19. Deciding BY <1>11 DEF Deciding, NoTalk
<1> QED BY <1>8, <1>9, <1>13, <1>14, <1>15, <1>16, <1>17, <1>18, <1>19 DEF ConsentInv

-----------------------------------------------------------------------------
(* What steps have in common *)

ClockRuns ==
    clock' \in Clocks /\ (clock'.jumps = 0 => clock.jumps = 0 /\ clock.wall <= clock'.wall)
PinMoves(k) == pin' = pin \/ (Back(k) /\ pin' = Pinned(talk[k].pref))
GrantsGrow ==
    \A g \in DOMAIN consents' :
        \/ g \in DOMAIN consents /\ consents'[g].wall = consents[g].wall
        \/ consents'[g].wall = clock.wall /\ NewInstant

LEMMA PinComesForward ==
    ASSUME ConsentInv, NEW k \in Talks, Back(k), Undisturbed, NEW q, q = Pinned(talk[k].pref)
    PROVE  /\ q.pref = talk[k].pref /\ q.stamp <= clock.wall /\ q.pref <= house.pref
           /\ \A j \in Talks : talk[j].at = "back" => q.pref <= talk[j].pref
           /\ q = pin \/ pin.pref < q.pref
           /\ Stamp(talk[k].pref) = q.stamp
<1>1. /\ clock.wall \in Int /\ house.pref \in Nat /\ pin.pref \in Nat /\ pin.stamp \in Int
      /\ \A j \in Talks : talk[j].pref \in Nat
  BY DEF ConsentInv, ConsentType, Clocks, Houses, TalkRows
<1>2. pin.stamp <= clock.wall /\ pin.pref <= talk[k].pref /\ talk[k].pref <= house.pref
      /\ talk[k].at = "back" /\ line[k] = {}
  BY DEF ConsentInv, PinTells, BackTells, Back
<1>3. q = IF pin.pref = talk[k].pref THEN pin ELSE [pref |-> talk[k].pref, stamp |-> clock.wall]
  BY <1>1, <1>2 DEF Pinned
<1>4. q.pref = talk[k].pref /\ q.stamp <= clock.wall /\ (q = pin \/ pin.pref < q.pref)
  BY <1>1, <1>2, <1>3
<1>5. Stamp(talk[k].pref) = q.stamp BY <1>4 DEF Stamp
<1>6. ASSUME NEW j \in Talks, talk[j].at = "back" PROVE q.pref <= talk[j].pref
  <2>1. CASE j = k BY <2>1, <1>1, <1>4
  <2>2. CASE j # k
    <3>1. k \in line[j] BY <1>2, <1>6, <2>2 DEF ConsentInv, InOrder
    <3> QED BY <3>1, <1>4 DEF ConsentInv, BackTells
  <2> QED BY <2>1, <2>2
<1> QED BY <1>1, <1>2, <1>4, <1>5, <1>6

LEMMA PinnedTypes ==
    ASSUME ConsentType, NEW k \in Talks
    PROVE  Pinned(talk[k].pref) \in [pref : Nat, stamp : Int] /\ Stamp(talk[k].pref) \in Int
<1>1. clock.wall \in Int /\ talk[k].pref \in Nat BY DEF ConsentType, Clocks, TalkRows
<1>2. Pinned(talk[k].pref) \in [pref : Nat, stamp : Int] BY <1>1 DEF ConsentType, Pinned
<1>3. Stamp(talk[k].pref) \in Int BY <1>1, <1>2 DEF Stamp
<1> QED BY <1>2, <1>3

\* A challenge keeps telling the truth wherever it is held.
LEMMA ShownKept ==
    ASSUME ConsentInv, ClockRuns, GrantsGrow, made' \in Nat, made <= made',
           pin' = pin \/ (\E k \in Talks : PinMoves(k)),
           NEW c \in Challenges, ShownTells(c),
           \/ \E h \in Visits : c = held[h]
           \/ \E j \in Talks : c = talk[j].challenge
    PROVE  ShownTells(c)'
<1>1. clock.wall \in Int /\ clock'.wall \in Int /\ pin.pref \in Nat /\ made \in Nat
  BY DEF ConsentInv, ConsentType, Clocks, ClockRuns
<1>2. c.id \in Nat /\ c.wall \in Int /\ c.known \in Nat BY DEF Challenges
<1>3. c.id <= made' BY <1>1, <1>2 DEF ShownTells
<1> SUFFICES ASSUME c.digest # <<>> PROVE ShownTells(c)' BY <1>3 DEF ShownTells
<1>4. c.digest.pref \in Nat /\ c.digest.stamp \in Int BY DEF Challenges, Digests
<1>5. ASSUME Undisturbed'
      PROVE  /\ c.wall <= clock'.wall
             /\ \A g \in DOMAIN consents' : c.known < g => c.wall < consents'[g].wall
             /\ c.digest.pref <= pin'.pref
             /\ c.digest.pref = pin'.pref => c.digest.stamp = pin'.stamp
  <2>1. Undisturbed /\ clock.wall <= clock'.wall BY <1>5 DEF Undisturbed, ClockRuns
  <2>2. /\ c.wall <= clock.wall
        /\ \A g \in DOMAIN consents : c.known < g => c.wall < consents[g].wall
        /\ c.digest.pref <= pin.pref
        /\ c.digest.pref = pin.pref => c.digest.stamp = pin.stamp
    BY <2>1 DEF ShownTells
  <2>3. c.wall <= clock'.wall BY <1>1, <1>2, <2>1, <2>2
  <2>4. ASSUME NEW g \in DOMAIN consents', c.known < g PROVE c.wall < consents'[g].wall
    <3>1. CASE g \in DOMAIN consents /\ consents'[g].wall = consents[g].wall BY <2>2, <2>4, <3>1
    <3>2. CASE consents'[g].wall = clock.wall /\ NewInstant
      <4>1. c.wall # clock.wall BY <3>2 DEF NewInstant
      <4> QED BY <4>1, <3>2, <2>2, <1>1, <1>2
    <3> QED BY <3>1, <3>2, <2>4 DEF GrantsGrow
  <2>5. /\ c.digest.pref <= pin'.pref
        /\ c.digest.pref = pin'.pref => c.digest.stamp = pin'.stamp
    <3>1. CASE pin' = pin BY <2>2, <3>1
    <3>2. ASSUME NEW k \in Talks, Back(k), pin' = Pinned(talk[k].pref)
          PROVE  /\ c.digest.pref <= pin'.pref
                 /\ c.digest.pref = pin'.pref => c.digest.stamp = pin'.stamp
      <4>1. PICK q : q = Pinned(talk[k].pref) OBVIOUS
      <4>2. q.pref = talk[k].pref /\ (q = pin \/ pin.pref < q.pref)
        BY <4>1, <3>2, <2>1, PinComesForward
      <4>3. talk[k].pref \in Nat BY DEF ConsentInv, ConsentType, TalkRows
      <4>4. /\ c.digest.pref <= q.pref
            /\ c.digest.pref = q.pref => c.digest.stamp = q.stamp
        BY <4>2, <4>3, <2>2, <1>1, <1>4
      <4> QED BY <4>1, <4>4, <3>2
    <3> QED BY <3>1, <3>2 DEF PinMoves
  <2> QED BY <2>3, <2>4, <2>5
<1> QED BY <1>3, <1>5 DEF ShownTells

LEMMA ShownNowhere ==
    /\ \A m \in Nat : NoChallenge.id <= m
    /\ NoChallenge.digest = <<>> /\ NoChallenge \in Challenges /\ NoChallenge.id = 0
BY DEF NoChallenge, Challenges

LEMMA DigestShows == ASSUME NEW d \in Digests PROVE d # <<>>
<1>1. DOMAIN d = {"plan", "pref", "stamp", "head"} BY DEF Digests
<1>2. DOMAIN <<>> = {} OBVIOUS
<1> QED BY <1>1, <1>2

LEMMA NoTalkIs ==
    NoTalk \in TalkRows /\ NoTalk.at = "idle" /\ NoTalk.op = "none" /\ NoTalk.challenge = NoChallenge
BY ShownNowhere DEF NoTalk, TalkRows

BacksTell == (\A k \in Talks : BackTells(k)) /\ (\A j, k \in Talks : InOrder(j, k)) /\ PinTells

LEMMA BacksKept ==
    ASSUME ConsentInv, limit' = limit, ClockRuns, house' \in Houses, house.pref <= house'.pref,
           pin' = pin, line' = line,
           \A k \in Talks : /\ talk[k].at = "back" <=> talk'[k].at = "back"
                            /\ talk[k].at = "back" => talk'[k].pref = talk[k].pref
    PROVE  BacksTell'
<1>0. Talks' = Talks BY DEF Talks
<1>1. /\ clock.wall \in Int /\ clock'.wall \in Int /\ house.pref \in Nat /\ house'.pref \in Nat
      /\ pin.pref \in Nat /\ pin.stamp \in Int /\ \A j \in Talks : talk[j].pref \in Nat
  BY DEF ConsentInv, ConsentType, Clocks, Houses, TalkRows, ClockRuns
<1>2. clock'.jumps = 0 => clock.jumps = 0 /\ clock.wall <= clock'.wall BY DEF ClockRuns
<1>3. ASSUME NEW k \in Talks PROVE BackTells(k)'
  <2>1. BackTells(k) /\ line[k] \subseteq Talks BY DEF ConsentInv, ConsentType
  <2> QED BY <1>1, <1>2, <2>1 DEF BackTells, Undisturbed
<1>4. ASSUME NEW j \in Talks, NEW k \in Talks PROVE InOrder(j, k)' BY DEF ConsentInv, InOrder
<1>5. PinTells' BY <1>1, <1>2 DEF ConsentInv, PinTells, Undisturbed
<1> QED BY <1>0, <1>3, <1>4, <1>5 DEF BacksTell

LEMMA BacksReturn ==
    ASSUME ConsentInv, limit' = limit, ClockRuns, house' \in Houses, house'.pref = house.pref,
           NEW k \in Talks, PinMoves(k), Return(k), clock'.wall = clock.wall
    PROVE  BacksTell'
<1>0. Talks' = Talks BY DEF Talks
<1>1. /\ clock.wall \in Int /\ house.pref \in Nat
      /\ pin.pref \in Nat /\ pin.stamp \in Int /\ \A j \in Talks : talk[j].pref \in Nat
  BY DEF ConsentInv, ConsentType, Clocks, Houses, TalkRows
<1>2. Undisturbed' => Undisturbed BY DEF ClockRuns, Undisturbed
<1>3. \A j \in Talks : /\ talk'[j] = IF j = k THEN NoTalk ELSE talk[j]
                       /\ line'[j] = IF j = k THEN {} ELSE line[j] \ {k}
  BY DEF ConsentInv, ConsentType, Return
<1>4. NoTalk.at = "idle" BY NoTalkIs
<1>5. Undisturbed => /\ \A j \in Talks : talk[j].at = "back" => pin'.pref <= talk[j].pref
                     /\ pin'.pref <= house.pref /\ pin'.stamp <= clock.wall
  <2>1. CASE pin' = pin BY <2>1 DEF ConsentInv, BackTells, PinTells
  <2>2. CASE Back(k) /\ pin' = Pinned(talk[k].pref)
    <3>1. PICK q : q = Pinned(talk[k].pref) OBVIOUS
    <3>2. Undisturbed => /\ q.stamp <= clock.wall /\ q.pref <= house.pref
                         /\ \A j \in Talks : talk[j].at = "back" => q.pref <= talk[j].pref
      BY <2>2, <3>1, PinComesForward
    <3> QED BY <2>2, <3>1, <3>2
  <2> QED BY <2>1, <2>2 DEF PinMoves
<1>6. ASSUME NEW j \in Talks PROVE BackTells(j)'
  <2>1. BackTells(j) /\ line[j] \subseteq Talks BY DEF ConsentInv, ConsentType
  <2>2. CASE j = k BY <1>3, <1>4, <2>2 DEF BackTells
  <2>3. CASE j # k
    <3>1. talk'[j] = talk[j] /\ line'[j] = line[j] \ {k} BY <1>3, <2>3
    <3>2. \A i \in line'[j] : i \in line[j] /\ talk'[i] = talk[i] BY <1>3, <2>1, <3>1
    <3>3. talk[j].at = "back" => talk[j].pref <= house.pref /\ (Undisturbed => pin'.pref <= talk[j].pref)
      BY <1>5, <2>1 DEF BackTells
    <3>4. \A i \in line'[j] : /\ talk'[j].at = "back" /\ talk'[i].at = "back" /\ i # j
                              /\ talk'[i].pref <= talk'[j].pref
      BY <2>1, <3>1, <3>2 DEF BackTells
    <3> QED BY <1>2, <3>1, <3>3, <3>4 DEF BackTells
  <2> QED BY <2>2, <2>3
<1>7. ASSUME NEW i \in Talks, NEW j \in Talks PROVE InOrder(i, j)'
  BY <1>3, <1>4 DEF ConsentInv, InOrder
<1>8. PinTells' BY <1>2, <1>5 DEF PinTells
<1> QED BY <1>0, <1>6, <1>7, <1>8 DEF BacksTell

LEMMA BacksRead ==
    ASSUME ConsentInv, NEW k \in Talks, ReadPreferences(k)
    PROVE  BacksTell'
<1>0. Talks' = Talks BY DEF Talks, ReadPreferences
<1>1. /\ house.pref \in Nat /\ \A j \in Talks : talk[j] \in TalkRows /\ talk[j].pref \in Nat
  BY DEF ConsentInv, ConsentType, Houses, TalkRows
<1>2. UNCHANGED <<clock, house, pin>> BY DEF ReadPreferences
<1>3. \A j \in Talks : j # k => talk'[j] = talk[j] /\ line'[j] = line[j]
  BY DEF ConsentInv, ConsentType, ReadPreferences
<1>4. talk'[k].at = "back" /\ talk'[k].pref = house.pref
  BY <1>1 DEF ConsentInv, ConsentType, ReadPreferences, TalkRows
<1>5. line'[k] = {j \in Talks : talk[j].at = "back"}
  BY DEF ConsentInv, ConsentType, ReadPreferences
<1>6. talk[k].at = "prefs" BY DEF ReadPreferences
<1>7. PinTells' BY <1>2 DEF ConsentInv, PinTells, Undisturbed
<1>8. ASSUME NEW j \in Talks PROVE BackTells(j)'
  <2>1. BackTells(j) /\ line[j] \subseteq Talks /\ PinTells BY DEF ConsentInv, ConsentType
  <2>2. CASE j = k
    <3>1. Undisturbed' => pin'.pref <= talk'[k].pref BY <1>2, <1>4, <2>1 DEF PinTells, Undisturbed
    <3>2. ASSUME NEW i \in line'[k] PROVE talk'[i].at = "back" /\ i # k /\ talk'[i].pref <= house.pref
      <4>1. i \in Talks /\ i # k /\ talk[i].at = "back" BY <1>5, <1>6
      <4> QED BY <4>1, <1>3 DEF ConsentInv, BackTells
    <3>3. talk'[k].pref <= house'.pref BY <1>1, <1>2, <1>4
    <3> QED BY <2>2, <3>1, <3>2, <3>3, <1>4 DEF BackTells
  <2>3. CASE j # k
    <3>1. talk'[j] = talk[j] /\ line'[j] = line[j] BY <1>3, <2>3
    <3>2. \A i \in line[j] : i \in Talks /\ i # k /\ talk'[i] = talk[i]
      BY <1>3, <1>6, <2>1 DEF BackTells
    <3> QED BY <1>2, <2>1, <3>1, <3>2 DEF BackTells, Undisturbed
  <2> QED BY <2>2, <2>3
<1>9. ASSUME NEW i \in Talks, NEW j \in Talks PROVE InOrder(i, j)'
  <2>1. InOrder(i, j) BY DEF ConsentInv
  <2>2. CASE i # k /\ j # k BY <1>3, <2>1, <2>2 DEF InOrder
  <2>3. CASE i = k BY <1>3, <1>5, <2>3 DEF InOrder
  <2>4. CASE j = k BY <1>3, <1>5, <2>4 DEF InOrder
  <2> QED BY <2>2, <2>3, <2>4
<1> QED BY <1>0, <1>7, <1>8, <1>9 DEF BacksTell

PlacesTell == (\A h \in Visits : ShownTells(held[h])) /\ (\A k \in Talks : ShownTells(talk[k].challenge))

\* Where a challenge may come from.
Known(c) ==
    c = NoChallenge \/ (\E h \in Visits : c = held[h]) \/ (\E j \in Talks : c = talk[j].challenge)

LEMMA PlacesKept ==
    ASSUME ConsentInv, limit' = limit, ClockRuns, GrantsGrow, made' \in Nat, made <= made',
           pin' = pin \/ (\E k \in Talks : PinMoves(k)),
           \A h \in Visits : Known(held'[h]) \/ ShownTells(held[h])',
           \A k \in Talks : Known(talk'[k].challenge)
    PROVE  PlacesTell'
<1>0. Talks' = Talks /\ Visits' = Visits BY DEF Talks, Visits
<1>1. ASSUME NEW c, Known(c) PROVE ShownTells(c)'
  <2>1. CASE c = NoChallenge BY <2>1, ShownNowhere DEF ShownTells
  <2>2. CASE \E h \in Visits : c = held[h]
    <3>1. c \in Challenges /\ ShownTells(c) BY <2>2 DEF ConsentInv, ConsentType
    <3> QED BY <3>1, <2>2, ShownKept
  <2>3. CASE \E j \in Talks : c = talk[j].challenge
    <3>1. c \in Challenges /\ ShownTells(c) BY <2>3 DEF ConsentInv, ConsentType, TalkRows
    <3> QED BY <3>1, <2>3, ShownKept
  <2> QED BY <1>1, <2>1, <2>2, <2>3 DEF Known
<1>2. ASSUME NEW h \in Visits PROVE ShownTells(held[h])'
  <2>1. CASE Known(held'[h])
    <3>1. PICK c : c = held'[h] OBVIOUS
    <3>2. ShownTells(c)' BY <3>1, <2>1, <1>1
    <3> QED BY <3>1, <3>2 DEF ShownTells
  <2> QED BY <2>1
<1>3. ASSUME NEW k \in Talks PROVE ShownTells(talk[k].challenge)'
  <2>1. PICK c : c = talk'[k].challenge OBVIOUS
  <2>2. ShownTells(c)' BY <2>1, <1>1
  <2> QED BY <2>1, <2>2 DEF ShownTells
<1> QED BY <1>0, <1>2, <1>3 DEF PlacesTell

IdsKept ==
    /\ \A h \in Visits : held'[h].id \in {held[h].id, 0}
    /\ \A k \in Talks : talk'[k].challenge.id \in {talk[k].challenge.id, 0}
    /\ \A g \in DOMAIN consents' : \/ g \in DOMAIN consents /\ consents'[g].of = consents[g].of
                                   \/ consents'[g].of = 0

LEMMA ApartKept ==
    ASSUME ConsentInv, limit' = limit, IdsKept, made' = made
    PROVE  Apart' /\ BooksApart'
<1>0. Talks' = Talks /\ Visits' = Visits BY DEF Talks, Visits
<1>1. Apart /\ BooksApart /\ made \in Nat BY DEF ConsentInv, ConsentType
<1>2. Apart'
  <2>1. \A h, i \in Visits : h # i => Shown(held'[h], held'[i]) BY <1>1 DEF Apart, Shown, IdsKept
  <2>2. \A h \in Visits, k \in Talks : Shown(held'[h], talk'[k].challenge)
    BY <1>1 DEF Apart, Shown, IdsKept
  <2>3. \A j, k \in Talks : j # k => Shown(talk'[j].challenge, talk'[k].challenge)
    BY <1>1 DEF Apart, Shown, IdsKept
  <2> QED BY <1>0, <2>1, <2>2, <2>3 DEF Apart, Shown
<1>3. \A g \in DOMAIN consents' : consents'[g].of <= made'
  BY <1>1 DEF BooksApart, IdsKept
<1>4. \A g \in DOMAIN consents', h \in Visits : consents'[g].of # 0 => consents'[g].of # held'[h].id
  BY <1>1 DEF BooksApart, IdsKept
<1>5. \A g \in DOMAIN consents', k \in Talks :
         consents'[g].of # 0 => consents'[g].of # talk'[k].challenge.id
  BY <1>1 DEF BooksApart, IdsKept
<1>6. \A f, g \in DOMAIN consents' : f # g /\ consents'[f].of # 0 => consents'[f].of # consents'[g].of
  BY <1>1 DEF BooksApart, IdsKept
<1> QED BY <1>0, <1>2, <1>3, <1>4, <1>5, <1>6 DEF BooksApart

LEMMA ConsentParts ==
    ASSUME ConsentType', PlacesTell', BacksTell', Apart', BooksApart', Deciding' PROVE ConsentInv'
BY DEF ConsentInv, PlacesTell, BacksTell

BacksSame ==
    \A k \in Talks : /\ talk[k].at = "back" <=> talk'[k].at = "back"
                     /\ talk[k].at = "back" => talk'[k].pref = talk[k].pref

LEMMA QuietStep ==
    ASSUME ConsentInv, ConsentType', limit' = limit, ClockRuns, house.pref <= house'.pref,
           pin' = pin, made' = made, line' = line, GrantsGrow, IdsKept, BacksSame, Deciding',
           \A h \in Visits : Known(held'[h]), \A k \in Talks : Known(talk'[k].challenge)
    PROVE  ConsentInv'
<1>1. house' \in Houses /\ made' \in Nat /\ made <= made' BY DEF ConsentInv, ConsentType
<1>2. PlacesTell' BY <1>1, PlacesKept
<1>3. BacksTell' BY <1>1, BacksKept DEF BacksSame
<1>4. Apart' /\ BooksApart' BY ApartKept
<1> QED BY <1>2, <1>3, <1>4, ConsentParts

LEMMA ReturnStep ==
    ASSUME ConsentInv, ConsentType', limit' = limit, NEW k \in Talks, Return(k), PinMoves(k),
           ClockRuns, clock'.wall = clock.wall, house'.pref = house.pref, GrantsGrow,
           made <= made', \A h \in Visits : Known(held'[h]) \/ ShownTells(held[h])',
           Apart', BooksApart'
    PROVE  ConsentInv'
<1>1. house' \in Houses /\ made' \in Nat BY DEF ConsentType
<1>2. \A j \in Talks : talk'[j] = IF j = k THEN NoTalk ELSE talk[j]
  BY DEF ConsentInv, ConsentType, Return
<1>3. \A j \in Talks : Known(talk'[j].challenge) BY <1>2, NoTalkIs DEF Known
<1>4. PlacesTell' BY <1>1, <1>3, PlacesKept
<1>5. BacksTell' BY <1>1, BacksReturn
<1>6. Deciding' BY <1>2, NoTalkIs DEF ConsentInv, Deciding, Talks
<1> QED BY <1>4, <1>5, <1>6, ConsentParts

LEMMA SampledRuns ==
    ASSUME ConsentInv, Sampled \/ clock' = clock PROVE ClockRuns /\ clock'.wall = clock.wall
<1>1. clock \in Clocks BY DEF ConsentInv, ConsentType
<1>2. CASE Sampled
  <2>1. clock' \in Clocks /\ clock'.wall = clock.wall /\ clock'.jumps = clock.jumps
    BY <1>1, <1>2 DEF Sampled, Clocks
  <2>2. clock.wall \in Int BY <1>1 DEF Clocks
  <2> QED BY <2>1, <2>2 DEF ClockRuns
<1>3. CASE clock' = clock
  <2>1. clock.wall \in Int BY <1>1 DEF Clocks
  <2> QED BY <1>1, <1>3, <2>1 DEF ClockRuns
<1> QED BY <1>2, <1>3

\* What a step leaves alone.
LEMMA GrantsRest == ASSUME consents' = consents PROVE GrantsGrow BY DEF GrantsGrow
LEMMA HeldRests == ASSUME held' = held PROVE \A h \in Visits : Known(held'[h]) BY DEF Known
LEMMA TalkRests ==
    ASSUME ConsentInv, limit' = limit, talk' = talk
    PROVE  BacksSame /\ Deciding' /\ \A k \in Talks : Known(talk'[k].challenge)
BY DEF Known, BacksSame, ConsentInv, Deciding, Talks
LEMMA IdsRest == ASSUME held' = held, talk' = talk, consents' = consents PROVE IdsKept
BY DEF IdsKept

LEMMA OpenVisitKeeps ==
    ASSUME ConsentInv, NEW h \in Visits, OpenVisit(h) PROVE ConsentInv'
<1>1. UNCHANGED <<limit, shut, house, pin, made, held, talk, line, consents, answers>> /\ Sampled
  BY DEF OpenVisit
<1>2. ClockRuns BY <1>1, SampledRuns
<1>3. house.pref <= house'.pref BY <1>1 DEF ConsentInv, ConsentType, Houses
<1>4. [on |-> TRUE, until |-> clock.wall + VisitTTL, end |-> clock.tick + VisitTTL] \in VisitRows
  BY ConsentAssumption DEF ConsentInv, ConsentType, Clocks, VisitRows
<1>5. visit' \in [Visits -> VisitRows] BY <1>4 DEF OpenVisit, ConsentInv, ConsentType
<1>6. ConsentType' BY <1>1, <1>2, <1>5 DEF ConsentInv, ConsentType, ClockRuns, Visits, Talks
<1> QED BY <1>1, <1>2, <1>3, <1>6, GrantsRest, HeldRests, TalkRests, IdsRest, QuietStep

LEMMA CloseConsentKeeps ==
    ASSUME ConsentInv, CloseConsent PROVE ConsentInv'
<1>1. UNCHANGED <<limit, clock, house, pin, made, talk, line, consents, answers>>
  BY DEF CloseConsent
<1>2. ClockRuns BY <1>1, SampledRuns
<1>3. house.pref <= house'.pref BY <1>1 DEF ConsentInv, ConsentType, Houses
<1>4. visit' \in [Visits -> VisitRows] BY DEF CloseConsent, NoVisit, VisitRows
<1>5. \A h \in Visits : held'[h] = NoChallenge BY DEF CloseConsent
<1>6. held' \in [Visits -> Challenges] BY ShownNowhere DEF CloseConsent
<1>7. ConsentType' BY <1>1, <1>2, <1>4, <1>6 DEF ConsentInv, ConsentType, ClockRuns, Visits, Talks
<1>8. \A h \in Visits : Known(held'[h]) BY <1>5 DEF Known
<1>9. IdsKept BY <1>1, <1>5, ShownNowhere DEF IdsKept
<1> QED BY <1>1, <1>2, <1>3, <1>7, <1>8, <1>9, GrantsRest, TalkRests, QuietStep

LEMMA StartReviewKeeps ==
    ASSUME ConsentInv, NEW k \in Talks, NEW h \in Visits, StartReview(k, h)
    PROVE  ConsentInv'
<1>1. UNCHANGED <<limit, shut, clock, house, pin, visit, made, held, line, consents, answers>>
  BY DEF StartReview
<1>2. ClockRuns BY <1>1, SampledRuns
<1>3. house.pref <= house'.pref BY <1>1 DEF ConsentInv, ConsentType, Houses
<1>4. PICK x : x = [NoTalk EXCEPT !.op = "review", !.at = "plan", !.visit = h] OBVIOUS
<1>5. h \in Nat BY DEF Visits
<1>6. x \in TalkRows /\ x.op = "review" /\ x.at = "plan" /\ x.challenge = NoChallenge
  BY <1>4, <1>5, NoTalkIs DEF TalkRows
<1>7. talk[k].at # "back" BY NoTalkIs DEF StartReview, Vacant
<1>8. talk' = [talk EXCEPT ![k] = x] BY <1>4 DEF StartReview
<1>9. \A j \in Talks : talk'[j] = IF j = k THEN x ELSE talk[j]
  BY <1>8 DEF ConsentInv, ConsentType
<1>10. talk' \in [Talks -> TalkRows] BY <1>6, <1>8 DEF ConsentInv, ConsentType
<1>11. ConsentType' BY <1>1, <1>10 DEF ConsentInv, ConsentType, Visits, Talks
<1>12. \A j \in Talks : Known(talk'[j].challenge) BY <1>6, <1>9 DEF Known
<1>13. BacksSame BY <1>6, <1>7, <1>9 DEF BacksSame
<1>14. IdsKept BY <1>1, <1>6, <1>9, ShownNowhere DEF IdsKept
<1>15. Deciding' BY <1>1, <1>6, <1>9 DEF ConsentInv, Deciding, Talks
<1> QED BY <1>1, <1>2, <1>3, <1>11, <1>12, <1>13, <1>14, <1>15, GrantsRest, HeldRests, QuietStep

LEMMA ReadPlanKeeps ==
    ASSUME ConsentInv, NEW k \in Talks, ReadPlan(k) PROVE ConsentInv'
<1>1. UNCHANGED <<limit, shut, clock, house, pin, visit, made, held, line, consents, answers>>
  BY DEF ReadPlan
<1>2. ClockRuns BY <1>1, SampledRuns
<1>3. house.pref <= house'.pref BY <1>1 DEF ConsentInv, ConsentType, Houses
<1>4. PICK x : x = [talk[k] EXCEPT !.plan = house.plan, !.at = "prefs"] OBVIOUS
<1>5. talk[k] \in TalkRows /\ house.plan \in Nat BY DEF ConsentInv, ConsentType, Houses
<1>6. x \in TalkRows /\ x.op = talk[k].op /\ x.at = "prefs" /\ x.challenge = talk[k].challenge
  BY <1>4, <1>5 DEF TalkRows
<1>7. talk[k].at # "back" BY DEF ReadPlan
<1>8. talk' = [talk EXCEPT ![k] = x] BY <1>4 DEF ReadPlan
<1>9. \A j \in Talks : talk'[j] = IF j = k THEN x ELSE talk[j]
  BY <1>8 DEF ConsentInv, ConsentType
<1>10. talk' \in [Talks -> TalkRows] BY <1>6, <1>8 DEF ConsentInv, ConsentType
<1>11. ConsentType' BY <1>1, <1>10 DEF ConsentInv, ConsentType, Visits, Talks
<1>12. \A j \in Talks : Known(talk'[j].challenge) BY <1>6, <1>9 DEF Known
<1>13. BacksSame BY <1>6, <1>7, <1>9 DEF BacksSame
<1>14. IdsKept BY <1>1, <1>6, <1>9 DEF IdsKept
<1>15. Deciding' BY <1>1, <1>6, <1>9 DEF ConsentInv, Deciding, Talks
<1> QED BY <1>1, <1>2, <1>3, <1>11, <1>12, <1>13, <1>14, <1>15, GrantsRest, HeldRests, QuietStep

LEMMA ReadPreferencesKeeps ==
    ASSUME ConsentInv, NEW k \in Talks, ReadPreferences(k) PROVE ConsentInv'
<1>1. UNCHANGED <<limit, shut, clock, house, pin, visit, made, held, consents, answers>>
  BY DEF ReadPreferences
<1>2. ClockRuns BY <1>1, SampledRuns
<1>3. made' \in Nat /\ made <= made' BY <1>1 DEF ConsentInv, ConsentType
<1>4. PICK x : x = [talk[k] EXCEPT !.pref = house.pref, !.at = "back"] OBVIOUS
<1>5. talk[k] \in TalkRows /\ house.pref \in Nat BY DEF ConsentInv, ConsentType, Houses
<1>6. x \in TalkRows /\ x.op = talk[k].op /\ x.challenge = talk[k].challenge BY <1>4, <1>5 DEF TalkRows
<1>8. talk' = [talk EXCEPT ![k] = x] BY <1>4 DEF ReadPreferences
<1>9. \A j \in Talks : talk'[j] = IF j = k THEN x ELSE talk[j]
  BY <1>8 DEF ConsentInv, ConsentType
<1>10. talk' \in [Talks -> TalkRows] BY <1>6, <1>8 DEF ConsentInv, ConsentType
<1>11. line' \in [Talks -> SUBSET Talks] BY DEF ReadPreferences, ConsentInv, ConsentType
<1>12. ConsentType' BY <1>1, <1>10, <1>11 DEF ConsentInv, ConsentType, Visits, Talks
<1>13. \A j \in Talks : Known(talk'[j].challenge) BY <1>6, <1>9 DEF Known
<1>14. IdsKept BY <1>1, <1>6, <1>9 DEF IdsKept
<1>15. PlacesTell' BY <1>1, <1>2, <1>3, <1>13, GrantsRest, HeldRests, PlacesKept
<1>16. Apart' /\ BooksApart' BY <1>1, <1>14, ApartKept
<1>17. Deciding' BY <1>1, <1>6, <1>9 DEF ConsentInv, Deciding, Talks
<1> QED BY <1>12, <1>15, <1>16, <1>17, BacksRead, ConsentParts

LEMMA TurnOfKeeps ==
    ASSUME ConsentInv, NEW x \in {"plan", "pref"}, TurnOf(x) PROVE ConsentInv'
<1>1. UNCHANGED <<limit, shut, clock, pin, visit, made, held, talk, line, consents, answers>>
  BY DEF TurnOf
<1>2. ClockRuns BY <1>1, SampledRuns
<1>3. house \in Houses BY DEF ConsentInv, ConsentType
<1>4. house.pref \in Nat /\ house.plan \in Nat BY <1>3 DEF Houses
<1>5. house' \in Houses /\ house.pref <= house'.pref
  <2>1. CASE x = "plan"
    <3>1. house' = [house EXCEPT !.plan = house.plan + 1] BY <2>1 DEF TurnOf
    <3> QED BY <3>1, <1>3, <1>4 DEF Houses
  <2>2. CASE x = "pref"
    <3>1. house' = [house EXCEPT !.pref = house.pref + 1] BY <2>2 DEF TurnOf
    <3> QED BY <3>1, <1>3, <1>4 DEF Houses
  <2> QED BY <2>1, <2>2
<1>6. ConsentType' BY <1>1, <1>5 DEF ConsentInv, ConsentType, Visits, Talks
<1> QED BY <1>1, <1>2, <1>5, <1>6, GrantsRest, HeldRests, TalkRests, IdsRest, QuietStep

LEMMA HourPassesKeeps ==
    ASSUME ConsentInv, HourPasses PROVE ConsentInv'
<1>1. UNCHANGED <<limit, shut, house, pin, visit, made, held, talk, line, consents, answers>>
  BY DEF HourPasses
<1>2. clock \in Clocks /\ clock.wall \in Int /\ clock.tick \in Nat
  BY DEF ConsentInv, ConsentType, Clocks
<1>3. clock' \in Clocks /\ clock'.wall = clock.wall + 1 /\ clock'.jumps = clock.jumps
  <2>1. PICK w \in Int, t \in Nat : w = clock.wall + 1 /\ t = clock.tick + 1 BY <1>2
  <2>2. PICK x : x = [clock EXCEPT !.wall = w, !.tick = t] OBVIOUS
  <2>3. x \in Clocks /\ x.wall = w /\ x.jumps = clock.jumps BY <1>2, <2>2 DEF Clocks
  <2>4. clock' = x BY <2>1, <2>2 DEF HourPasses
  <2> QED BY <2>1, <2>3, <2>4
<1>4. ClockRuns BY <1>2, <1>3 DEF ClockRuns
<1>5. house.pref <= house'.pref BY <1>1 DEF ConsentInv, ConsentType, Houses
<1>6. ConsentType' BY <1>1, <1>3 DEF ConsentInv, ConsentType, Visits, Talks
<1> QED BY <1>1, <1>4, <1>5, <1>6, GrantsRest, HeldRests, TalkRests, IdsRest, QuietStep

LEMMA WallJumpsKeeps ==
    ASSUME ConsentInv, WallJumps PROVE ConsentInv'
<1>1. UNCHANGED <<limit, shut, house, pin, visit, made, held, talk, line, consents, answers>>
  BY DEF WallJumps
<1>2. clock \in Clocks /\ clock.wall \in Int /\ clock.jumps \in Nat
  BY DEF ConsentInv, ConsentType, Clocks
<1>3. PICK w \in {clock.wall - 1, clock.wall + 1} :
        clock' = [clock EXCEPT !.wall = w, !.jumps = clock.jumps + 1] BY DEF WallJumps
<1>4. w \in Int BY <1>2
<1>5. clock' \in Clocks /\ clock'.jumps = clock.jumps + 1
  <2>1. PICK n \in Nat : n = clock.jumps + 1 BY <1>2
  <2>2. PICK x : x = [clock EXCEPT !.wall = w, !.jumps = n] OBVIOUS
  <2>3. x \in Clocks /\ x.jumps = n BY <1>2, <1>4, <2>2 DEF Clocks
  <2> QED BY <1>3, <2>1, <2>2, <2>3
<1>6. ClockRuns BY <1>2, <1>5 DEF ClockRuns
<1>7. house.pref <= house'.pref BY <1>1 DEF ConsentInv, ConsentType, Houses
<1>8. ConsentType' BY <1>1, <1>5 DEF ConsentInv, ConsentType, Visits, Talks
<1> QED BY <1>1, <1>6, <1>7, <1>8, GrantsRest, HeldRests, TalkRests, IdsRest, QuietStep

\* A grant that is added, and one whose status changes.
LEMMA Added ==
    ASSUME ConsentInv, NEW r \in ConsentRows, r.wall = clock.wall, NewInstant,
           consents' = Append(consents, r)
    PROVE  /\ GrantsGrow /\ consents' \in Seq(ConsentRows)
           /\ \A g \in DOMAIN consents' : \/ g \in DOMAIN consents /\ consents'[g] = consents[g]
                                          \/ g \notin DOMAIN consents /\ consents'[g] = r
                                             /\ g = Len(consents) + 1
<1>1. consents \in Seq(ConsentRows) BY DEF ConsentInv, ConsentType
<1>2. consents' \in Seq(ConsentRows) BY <1>1
<1>3. \A g \in DOMAIN consents' : \/ g \in DOMAIN consents /\ consents'[g] = consents[g]
                                  \/ g \notin DOMAIN consents /\ consents'[g] = r
                                     /\ g = Len(consents) + 1
  BY <1>1
<1>4. GrantsGrow BY <1>3 DEF GrantsGrow
<1> QED BY <1>2, <1>3, <1>4

LEMMA Restated ==
    ASSUME ConsentInv, NEW s \in {"pending", "consumed", "revoked"}, NEW g \in DOMAIN consents,
           consents' = [consents EXCEPT ![g] = [consents[g] EXCEPT !.st = s]]
    PROVE  /\ GrantsGrow /\ consents' \in Seq(ConsentRows)
           /\ DOMAIN consents' = DOMAIN consents
           /\ \A f \in DOMAIN consents : consents'[f].of = consents[f].of
           /\ \A f \in DOMAIN consents : f # g => consents'[f] = consents[f]
<1>1. consents \in Seq(ConsentRows) BY DEF ConsentInv, ConsentType
<1>2. consents[g] \in ConsentRows BY <1>1
<1>3. PICK r : r = [consents[g] EXCEPT !.st = s] OBVIOUS
<1>4. r \in ConsentRows /\ r.wall = consents[g].wall /\ r.of = consents[g].of
  BY <1>2, <1>3 DEF ConsentRows
<1>5. consents' = [consents EXCEPT ![g] = r] BY <1>3
<1>6. consents' \in Seq(ConsentRows) /\ DOMAIN consents' = DOMAIN consents BY <1>1, <1>4, <1>5
<1>7. \A f \in DOMAIN consents : consents'[f] = IF f = g THEN r ELSE consents[f] BY <1>1, <1>5
<1>8. GrantsGrow BY <1>4, <1>6, <1>7 DEF GrantsGrow
<1> QED BY <1>4, <1>6, <1>7, <1>8

LEMMA IssuedElsewhereKeeps ==
    ASSUME ConsentInv, IssuedElsewhere PROVE ConsentInv'
<1>1. UNCHANGED <<limit, shut, clock, pin, visit, made, held, talk, line, answers>>
  BY DEF IssuedElsewhere
<1>2. ClockRuns BY <1>1, SampledRuns
<1>3. house \in Houses /\ house.plan \in Nat /\ house.pref \in Nat /\ house.others \in Nat
      /\ clock.wall \in Int
  BY DEF ConsentInv, ConsentType, Houses, Clocks
<1>4. house' \in Houses /\ house'.pref = house.pref BY <1>3 DEF IssuedElsewhere, Houses
<1>5. PICK r : r = [of |-> 0, plan |-> house.plan, wall |-> clock.wall,
                    until |-> clock.wall + ConsentTTL, st |-> "pending"] OBVIOUS
<1>6. r \in ConsentRows /\ r.wall = clock.wall /\ r.of = 0
  BY <1>3, <1>5, ConsentAssumption DEF ConsentRows
<1>7. consents' = Append(consents, r) /\ NewInstant BY <1>5 DEF IssuedElsewhere
<1>8. /\ GrantsGrow /\ consents' \in Seq(ConsentRows)
      /\ \A g \in DOMAIN consents' : \/ g \in DOMAIN consents /\ consents'[g] = consents[g]
                                     \/ consents'[g] = r
  BY <1>6, <1>7, Added
<1>9. IdsKept BY <1>1, <1>6, <1>8 DEF IdsKept
<1>10. ConsentType' BY <1>1, <1>4, <1>8 DEF ConsentInv, ConsentType, Visits, Talks
<1>11. house.pref <= house'.pref BY <1>3, <1>4
<1>12. GrantsGrow BY <1>8
<1> QED BY <1>1, <1>2, <1>9, <1>10, <1>11, <1>12, HeldRests, TalkRests, QuietStep

LEMMA SpentElsewhereKeeps ==
    ASSUME ConsentInv, NEW g \in DOMAIN consents, SpentElsewhere(g) \/ RevokedElsewhere(g)
    PROVE  ConsentInv'
<1>1. UNCHANGED <<limit, shut, clock, pin, visit, made, held, talk, line, answers>>
  BY DEF SpentElsewhere, RevokedElsewhere
<1>2. ClockRuns BY <1>1, SampledRuns
<1>3. house \in Houses /\ house.head \in Nat /\ house.pref \in Nat /\ house.others \in Nat
  BY DEF ConsentInv, ConsentType, Houses
<1>4. house' \in Houses /\ house'.pref = house.pref
  <2>1. CASE SpentElsewhere(g)
    <3>1. house' = [house EXCEPT !.others = house.others + 1] BY <2>1 DEF SpentElsewhere
    <3> QED BY <1>3, <3>1 DEF Houses
  <2>2. CASE RevokedElsewhere(g)
    <3>1. PICK m \in Nat, n \in Nat : m = house.head + 1 /\ n = house.others + 1 BY <1>3
    <3>2. PICK x : x = [house EXCEPT !.head = m, !.others = n] OBVIOUS
    <3>3. x \in Houses /\ x.pref = house.pref BY <1>3, <3>2 DEF Houses
    <3>4. house' = x BY <2>2, <3>1, <3>2 DEF RevokedElsewhere
    <3> QED BY <3>3, <3>4
  <2> QED BY <2>1, <2>2
<1>5. PICK s \in {"consumed", "revoked"} :
        consents' = [consents EXCEPT ![g] = [consents[g] EXCEPT !.st = s]]
  BY DEF SpentElsewhere, RevokedElsewhere
<1>6. /\ GrantsGrow /\ consents' \in Seq(ConsentRows)
      /\ DOMAIN consents' = DOMAIN consents
      /\ \A f \in DOMAIN consents : consents'[f].of = consents[f].of
  BY <1>5, Restated
<1>7. IdsKept BY <1>1, <1>6 DEF IdsKept
<1>8. ConsentType' BY <1>1, <1>4, <1>6 DEF ConsentInv, ConsentType, Visits, Talks
<1>9. house.pref <= house'.pref BY <1>3, <1>4
<1>10. GrantsGrow BY <1>6
<1> QED BY <1>1, <1>2, <1>7, <1>8, <1>9, <1>10, HeldRests, TalkRests, QuietStep

\* The challenge goes from its session's hand into the request.
LEMMA StartDecisionKeeps ==
    ASSUME ConsentInv, NEW k \in Talks, NEW h \in Visits, NEW r \in Asks,
           NEW act \in {"approve", "revoke", "reject"}, StartDecision(k, h, r, act)
    PROVE  ConsentInv'
<1>1. UNCHANGED <<limit, shut, house, pin, visit, made, line, consents, answers>> /\ Sampled
  BY DEF StartDecision
<1>2. ClockRuns BY <1>1, SampledRuns
<1>3. house \in Houses /\ house.pref \in Nat /\ house.pref <= house'.pref
  BY <1>1 DEF ConsentInv, ConsentType, Houses
<1>4. PICK c : c = held[h] OBVIOUS
<1>5. c \in Challenges BY <1>4 DEF ConsentInv, ConsentType
<1>6. PICK a \in {"plan", "done"} : a = IF act = "reject" THEN "done" ELSE "plan" OBVIOUS
<1>7. PICK x : x = [NoTalk EXCEPT !.op = act, !.at = a, !.visit = h, !.challenge = c, !.ask = r] OBVIOUS
<1>8. h \in Nat /\ r \in Nat BY DEF Visits, Asks
<1>9. x \in TalkRows /\ x.at = a /\ x.challenge = c BY <1>5, <1>7, <1>8, NoTalkIs DEF TalkRows
<1>10. talk[k] = NoTalk /\ talk[k].at # "back" /\ talk[k].challenge.id = 0
  BY NoTalkIs, ShownNowhere DEF StartDecision, Vacant
<1>11. talk' = [talk EXCEPT ![k] = x] BY <1>4, <1>6, <1>7 DEF StartDecision
<1>12. \A j \in Talks : talk'[j] = IF j = k THEN x ELSE talk[j]
  BY <1>11 DEF ConsentInv, ConsentType
<1>13. talk' \in [Talks -> TalkRows] BY <1>9, <1>11 DEF ConsentInv, ConsentType
<1>14. \A i \in Visits : held'[i] = IF i = h THEN NoChallenge ELSE held[i]
  BY DEF StartDecision, Consumed, ConsentInv, ConsentType
<1>15. held' \in [Visits -> Challenges]
  BY ShownNowhere DEF StartDecision, Consumed, ConsentInv, ConsentType
<1>16. ConsentType' BY <1>1, <1>2, <1>13, <1>15 DEF ConsentInv, ConsentType, ClockRuns, Visits, Talks
<1>17. \A j \in Talks : Known(talk'[j].challenge) BY <1>4, <1>9, <1>12 DEF Known
<1>18. \A i \in Visits : Known(held'[i]) BY <1>14 DEF Known
<1>19. made' \in Nat /\ made <= made' BY <1>1 DEF ConsentInv, ConsentType
<1>20. PlacesTell' BY <1>1, <1>2, <1>17, <1>18, <1>19, GrantsRest, PlacesKept
<1>21. \A j \in Talks : /\ talk[j].at = "back" <=> talk'[j].at = "back"
                        /\ talk[j].at = "back" => talk'[j].pref = talk[j].pref
  BY <1>9, <1>10, <1>12
<1>22. BacksTell' BY <1>1, <1>2, <1>3, <1>21, BacksKept
<1>23. Visits' = Visits /\ Talks' = Talks BY <1>1 DEF Visits, Talks
<1>24. Apart /\ BooksApart BY DEF ConsentInv
<1>25. NoChallenge.id = 0 BY ShownNowhere
<1>26. Apart'
  <2>1. \A i, j \in Visits : i # j => Shown(held'[i], held'[j]) BY <1>14, <1>24, <1>25 DEF Apart, Shown
  <2>2. \A i \in Visits, j \in Talks : Shown(held'[i], talk'[j].challenge)
    BY <1>4, <1>9, <1>12, <1>14, <1>24, <1>25 DEF Apart, Shown
  <2>3. \A i, j \in Talks : i # j => Shown(talk'[i].challenge, talk'[j].challenge)
    BY <1>4, <1>9, <1>12, <1>24 DEF Apart, Shown
  <2> QED BY <1>23, <2>1, <2>2, <2>3 DEF Apart, Shown
<1>27. BooksApart'
  <2>1. \A g \in DOMAIN consents, i \in Visits : consents[g].of # 0 => consents[g].of # held'[i].id
    BY <1>14, <1>24, <1>25 DEF BooksApart
  <2>2. \A g \in DOMAIN consents, j \in Talks :
           consents[g].of # 0 => consents[g].of # talk'[j].challenge.id
    BY <1>4, <1>9, <1>12, <1>24 DEF BooksApart
  <2> QED BY <1>1, <1>23, <1>24, <2>1, <2>2 DEF BooksApart
<1>28. Deciding'
  <2>1. x.challenge # NoChallenge BY <1>4, <1>9 DEF StartDecision, Answerable
  <2> QED BY <1>12, <1>23, <2>1 DEF ConsentInv, Deciding
<1> QED BY <1>16, <1>20, <1>22, <1>26, <1>27, <1>28, ConsentParts

\* What the answers of storage have in common.
LEMMA Returning ==
    ASSUME ConsentInv, NEW k \in Talks, Return(k)
    PROVE  /\ \A j \in Talks : talk'[j] = IF j = k THEN NoTalk ELSE talk[j]
           /\ talk' \in [Talks -> TalkRows] /\ line' \in [Talks -> SUBSET Talks]
           /\ \A j \in Talks : talk'[j].challenge.id \in {talk[j].challenge.id, 0}
<1>1. \A j \in Talks : talk'[j] = IF j = k THEN NoTalk ELSE talk[j]
  BY DEF ConsentInv, ConsentType, Return
<1>2. talk' \in [Talks -> TalkRows] BY NoTalkIs DEF ConsentInv, ConsentType, Return
<1>3. line' \in [Talks -> SUBSET Talks]
  <2>1. \A j \in Talks : (IF j = k THEN {} ELSE line[j] \ {k}) \in SUBSET Talks
    BY DEF ConsentInv, ConsentType
  <2> QED BY <2>1 DEF Return
<1>4. \A j \in Talks : talk'[j].challenge.id \in {talk[j].challenge.id, 0}
  BY <1>1, NoTalkIs, ShownNowhere
<1> QED BY <1>1, <1>2, <1>3, <1>4

LEMMA StaleKeeps ==
    ASSUME ConsentInv, NEW k \in Talks, Stale(k) \/ FailTalk(k) PROVE ConsentInv'
<1>1. UNCHANGED <<limit, shut, house, visit, made, held, consents, answers>> /\ Return(k)
  BY DEF Stale, FailTalk
<1>2. ClockRuns /\ clock'.wall = clock.wall
  <2>1. Sampled \/ clock' = clock BY DEF Stale, FailTalk
  <2> QED BY <2>1, SampledRuns
<1>3. PinMoves(k) BY DEF Stale, FailTalk, PinMoves
<1>4. pin' \in [pref : Nat, stamp : Int]
  <2>1. pin \in [pref : Nat, stamp : Int] /\ ConsentType BY DEF ConsentInv, ConsentType
  <2> QED BY <1>3, <2>1, PinnedTypes DEF PinMoves
<1>5. ConsentType'
  BY <1>1, <1>2, <1>4, Returning DEF ConsentInv, ConsentType, ClockRuns, Visits, Talks
<1>6. IdsKept BY <1>1, Returning DEF IdsKept
<1>7. Apart' /\ BooksApart' BY <1>1, <1>6, ApartKept
<1>8. made <= made' /\ house'.pref = house.pref BY <1>1 DEF ConsentInv, ConsentType
<1>9. \A h \in Visits : Known(held'[h]) BY <1>1, HeldRests
<1>10. GrantsGrow BY <1>1, GrantsRest
<1> QED BY <1>1, <1>2, <1>3, <1>5, <1>7, <1>8, <1>9, <1>10, ReturnStep

LEMMA RevokeKeeps ==
    ASSUME ConsentInv, NEW k \in Talks, Revoke(k) PROVE ConsentInv'
<1>1. UNCHANGED <<limit, shut, visit, made, held>> /\ Return(k) /\ Sampled
  BY DEF Revoke
<1>2. ClockRuns /\ clock'.wall = clock.wall BY <1>1, SampledRuns
<1>3. PinMoves(k) BY DEF Revoke, PinMoves
<1>4. pin' \in [pref : Nat, stamp : Int]
  <2>1. ConsentType BY DEF ConsentInv
  <2> QED BY <2>1, PinnedTypes DEF Revoke
<1>5. house' \in Houses /\ house'.pref = house.pref
  <2>1. house \in Houses /\ house.head \in Nat BY DEF ConsentInv, ConsentType, Houses
  <2>2. house' = [house EXCEPT !.head = house.head + 1] BY DEF Revoke
  <2> QED BY <2>1, <2>2 DEF Houses
<1>6. PICK g \in DOMAIN consents, s \in {"revoked"} :
        consents' = [consents EXCEPT ![g] = [consents[g] EXCEPT !.st = s]] BY DEF Revoke
<1>7. /\ GrantsGrow /\ consents' \in Seq(ConsentRows)
      /\ DOMAIN consents' = DOMAIN consents
      /\ \A f \in DOMAIN consents : consents'[f].of = consents[f].of
  BY <1>6, Restated
<1>8. ConsentType'
  BY <1>1, <1>2, <1>4, <1>5, <1>7, Returning DEF ConsentInv, ConsentType, ClockRuns, Visits, Talks
<1>9. IdsKept BY <1>1, <1>7, Returning DEF IdsKept
<1>10. Apart' /\ BooksApart' BY <1>1, <1>9, ApartKept
<1>11. made <= made' BY <1>1 DEF ConsentInv, ConsentType
<1>12. \A h \in Visits : Known(held'[h]) BY <1>1, HeldRests
<1>13. GrantsGrow BY <1>7
<1> QED BY <1>1, <1>2, <1>3, <1>5, <1>8, <1>10, <1>11, <1>12, <1>13, ReturnStep

\* The challenge goes from the request into the books.
LEMMA ApproveKeeps ==
    ASSUME ConsentInv, NEW k \in Talks, Approve(k) PROVE ConsentInv'
<1>1. UNCHANGED <<limit, shut, house, visit, made, held>> /\ Return(k) /\ Sampled
  BY DEF Approve
<1>2. ClockRuns /\ clock'.wall = clock.wall BY <1>1, SampledRuns
<1>3. PinMoves(k) BY DEF Approve, PinMoves
<1>4. pin' \in [pref : Nat, stamp : Int]
  <2>1. ConsentType BY DEF ConsentInv
  <2> QED BY <2>1, PinnedTypes DEF Approve
<1>5. PICK r : r = [of |-> talk[k].challenge.id, plan |-> talk[k].plan, wall |-> clock.wall,
                    until |-> clock.wall + ConsentTTL, st |-> "pending"] OBVIOUS
<1>6. r \in ConsentRows /\ r.wall = clock.wall /\ r.of = talk[k].challenge.id
  <2>1. talk[k] \in TalkRows /\ clock.wall \in Int BY DEF ConsentInv, ConsentType, Clocks
  <2>2. talk[k].challenge.id \in Nat /\ talk[k].plan \in Nat BY <2>1 DEF TalkRows, Challenges
  <2> QED BY <1>5, <2>1, <2>2, ConsentAssumption DEF ConsentRows
<1>7. consents' = Append(consents, r) /\ NewInstant BY <1>5 DEF Approve
<1>8. /\ GrantsGrow /\ consents' \in Seq(ConsentRows)
      /\ \A g \in DOMAIN consents' : \/ g \in DOMAIN consents /\ consents'[g] = consents[g]
                                     \/ g \notin DOMAIN consents /\ consents'[g] = r
                                        /\ g = Len(consents) + 1
  BY <1>6, <1>7, Added
<1>9. ConsentType'
  BY <1>1, <1>2, <1>4, <1>8, Returning DEF ConsentInv, ConsentType, ClockRuns, Visits, Talks
<1>10. made <= made' /\ house'.pref = house.pref BY <1>1 DEF ConsentInv, ConsentType
<1>11. \A h \in Visits : Known(held'[h]) BY <1>1, HeldRests
<1>12. Visits' = Visits /\ Talks' = Talks BY <1>1 DEF Visits, Talks
<1>13. Apart /\ BooksApart /\ made \in Nat BY DEF ConsentInv, ConsentType
<1>14. \A j \in Talks : talk'[j] = IF j = k THEN NoTalk ELSE talk[j] BY <1>1, Returning
<1>15. NoTalk.challenge.id = 0 BY NoTalkIs, ShownNowhere
<1>16. Apart'
  <2>1. \A i, j \in Visits : i # j => Shown(held'[i], held'[j]) BY <1>1, <1>13 DEF Apart, Shown
  <2>2. \A i \in Visits, j \in Talks : Shown(held'[i], talk'[j].challenge)
    BY <1>1, <1>13, <1>14, <1>15 DEF Apart, Shown
  <2>3. \A i, j \in Talks : i # j => Shown(talk'[i].challenge, talk'[j].challenge)
    BY <1>13, <1>14, <1>15 DEF Apart, Shown
  <2> QED BY <1>12, <2>1, <2>2, <2>3 DEF Apart, Shown
<1>17. r.of <= made
  <2>1. ShownTells(talk[k].challenge) BY DEF ConsentInv
  <2>2. r.of \in Nat BY <1>6 DEF ConsentRows
  <2> QED BY <1>6, <2>1 DEF ShownTells
<1>18. \A g \in DOMAIN consents : consents[g].of # r.of BY <1>6 DEF Approve, Conflict
<1>19. BooksApart'
  <2>1. \A g \in DOMAIN consents' : consents'[g].of <= made BY <1>8, <1>13, <1>17 DEF BooksApart
  <2>2. \A g \in DOMAIN consents', i \in Visits : consents'[g].of # 0 => consents'[g].of # held[i].id
    BY <1>6, <1>8, <1>13 DEF BooksApart, Apart, Shown
  <2>3. \A g \in DOMAIN consents', j \in Talks :
           consents'[g].of # 0 => consents'[g].of # talk'[j].challenge.id
    BY <1>6, <1>8, <1>13, <1>14, <1>15 DEF BooksApart, Apart, Shown
  <2>4. \A f, g \in DOMAIN consents' : f # g /\ consents'[f].of # 0 => consents'[f].of # consents'[g].of
    BY <1>8, <1>13, <1>18 DEF BooksApart
  <2> QED BY <1>1, <1>12, <2>1, <2>2, <2>3, <2>4 DEF BooksApart
<1>20. GrantsGrow BY <1>8
<1> QED BY <1>1, <1>2, <1>3, <1>9, <1>10, <1>11, <1>16, <1>19, <1>20, ReturnStep

\* The review is shown with a challenge of its own.
LEMMA ShowKeeps ==
    ASSUME ConsentInv, NEW k \in Talks, Show(k) PROVE ConsentInv'
<1>1. UNCHANGED <<limit, shut, house, visit, consents, answers>> /\ Return(k) /\ Sampled /\ Back(k)
  BY DEF Show
<1>2. ClockRuns /\ clock'.wall = clock.wall BY <1>1, SampledRuns
<1>3. PinMoves(k) /\ pin' = Pinned(talk[k].pref) BY DEF Show, PinMoves
<1>4. pin' \in [pref : Nat, stamp : Int] /\ Stamp(talk[k].pref) \in Int
  <2>1. ConsentType BY DEF ConsentInv
  <2> QED BY <1>3, <2>1, PinnedTypes
<1>5. PICK h : h = talk[k].visit OBVIOUS
<1>6. made \in Nat /\ made' = made + 1 BY DEF Show, ConsentInv, ConsentType
<1>7. PICK d : d = Projected(k) OBVIOUS
<1>8. d \in Digests /\ d.pref = talk[k].pref /\ d.stamp = Stamp(talk[k].pref)
  <2>1. talk[k].plan \in Nat /\ talk[k].pref \in Nat /\ house.head \in Nat
    BY DEF ConsentInv, ConsentType, TalkRows, Houses
  <2> QED BY <1>4, <1>7, <2>1 DEF Projected, Digests
<1>9. PICK u : u = Earlier(clock.wall + ReviewTTL, visit[h].until) OBVIOUS
<1>10. PICK x : x = [id |-> made + 1, digest |-> d, wall |-> clock.wall, until |-> u,
                     end |-> clock.tick + (u - clock.wall), known |-> Len(consents)] OBVIOUS
<1>11. held' = [held EXCEPT ![h] = x] BY <1>5, <1>7, <1>9, <1>10 DEF Show
<1>12. x.id = made + 1 /\ x.digest = d /\ x.wall = clock.wall /\ x.known = Len(consents)
  BY <1>10
<1>13. \A i \in Visits : held'[i] = IF i = h THEN x ELSE held[i]
  BY <1>11 DEF ConsentInv, ConsentType
<1>14. held' \in [Visits -> Challenges]
  <2>1. CASE h \in Visits
    <3>1. visit[h].until \in Int BY <2>1 DEF ConsentInv, ConsentType, VisitRows
    <3>2. clock.wall \in Int /\ clock.tick \in Nat /\ consents \in Seq(ConsentRows)
      BY DEF ConsentInv, ConsentType, Clocks
    <3>3. u \in Int BY <1>9, <3>1, <3>2, ConsentAssumption DEF Earlier
    <3>4. PICK e \in Int : e = clock.tick + (u - clock.wall) BY <3>2, <3>3
    <3>5. PICK m \in Nat, n \in Nat : m = made + 1 /\ n = Len(consents) BY <1>6, <3>2
    <3>6. x = [id |-> m, digest |-> d, wall |-> clock.wall, until |-> u, end |-> e, known |-> n]
      BY <1>10, <3>4, <3>5
    <3>7. x \in Challenges BY <1>8, <3>2, <3>3, <3>6 DEF Challenges
    <3> QED BY <1>11, <3>7 DEF ConsentInv, ConsentType
  <2>2. CASE h \notin Visits BY <1>11, <2>2 DEF ConsentInv, ConsentType
  <2> QED BY <2>1, <2>2
<1>15. ConsentType'
  <2>1. made' \in Nat BY <1>6
  <2> QED BY <1>1, <1>2, <1>4, <1>14, <2>1, Returning
          DEF ConsentInv, ConsentType, ClockRuns, Visits, Talks
<1>16. Undisturbed' => d.pref <= pin'.pref /\ d.stamp = pin'.stamp
  <2>1. Undisturbed' => Undisturbed BY <1>2 DEF ClockRuns, Undisturbed
  <2>2. PICK q : q = Pinned(talk[k].pref) OBVIOUS
  <2>3. Undisturbed => q.pref = talk[k].pref /\ Stamp(talk[k].pref) = q.stamp
    BY <1>1, <2>2, PinComesForward
  <2>4. talk[k].pref \in Nat BY DEF ConsentInv, ConsentType, TalkRows
  <2> QED BY <1>3, <1>8, <2>1, <2>2, <2>3, <2>4
<1>17. ShownTells(x)'
  <2>1. clock'.wall = clock.wall /\ clock.wall \in Int BY <1>2 DEF ConsentInv, ConsentType, Clocks
  <2>2. \A g \in DOMAIN consents' : ~(x.known < g)
    BY <1>1, <1>12 DEF ConsentInv, ConsentType
  <2>3. x.id <= made' /\ x.wall <= clock'.wall BY <1>6, <1>12, <2>1
  <2>5. x.digest # <<>> BY <1>8, <1>12, DigestShows
  <2>4. Undisturbed' => x.digest.pref <= pin'.pref /\ x.digest.stamp = pin'.stamp BY <1>12, <1>16
  <2> QED BY <2>2, <2>3, <2>4, <2>5 DEF ShownTells
<1>18. ASSUME NEW i \in Visits PROVE Known(held'[i]) \/ ShownTells(held[i])'
  <2>1. CASE i = h
    <3>1. held'[i] = x BY <1>13, <2>1
    <3> QED BY <1>17, <3>1 DEF ShownTells
  <2>2. CASE i # h BY <1>13, <2>2 DEF Known
  <2> QED BY <2>1, <2>2
<1>19. made <= made' BY <1>6
<1>20. Visits' = Visits /\ Talks' = Talks BY <1>1 DEF Visits, Talks
<1>21. Apart /\ BooksApart BY DEF ConsentInv
<1>22. \A j \in Talks : talk'[j].challenge.id \in {talk[j].challenge.id, 0} BY <1>1, Returning
<1>23. /\ \A i \in Visits : held[i].id \in Nat /\ held[i].id <= made
       /\ \A j \in Talks : talk[j].challenge.id \in Nat /\ talk[j].challenge.id <= made
  <2>1. ASSUME NEW c \in Challenges, ShownTells(c) PROVE c.id \in Nat /\ c.id <= made
    BY <1>6, <2>1 DEF ShownTells, Challenges
  <2>2. \A i \in Visits : held[i] \in Challenges /\ ShownTells(held[i])
    BY DEF ConsentInv, ConsentType
  <2>3. \A j \in Talks : talk[j].challenge \in Challenges /\ ShownTells(talk[j].challenge)
    BY DEF ConsentInv, ConsentType, TalkRows
  <2> QED BY <2>1, <2>2, <2>3
<1>24. \A i \in Visits : held'[i].id = IF i = h THEN made + 1 ELSE held[i].id BY <1>12, <1>13
<1>25. Apart'
  <2>1. \A i, j \in Visits : i # j => Shown(held'[i], held'[j])
    BY <1>6, <1>21, <1>23, <1>24 DEF Apart, Shown
  <2>2. \A i \in Visits, j \in Talks : Shown(held'[i], talk'[j].challenge)
    BY <1>6, <1>21, <1>22, <1>23, <1>24 DEF Apart, Shown
  <2>3. \A i, j \in Talks : i # j => Shown(talk'[i].challenge, talk'[j].challenge)
    BY <1>21, <1>22 DEF Apart, Shown
  <2> QED BY <1>20, <2>1, <2>2, <2>3 DEF Apart, Shown
<1>26. BooksApart'
  <2>1. ASSUME NEW g \in DOMAIN consents PROVE consents[g].of \in Nat /\ consents[g].of <= made
    <3>1. consents[g] \in ConsentRows BY DEF ConsentInv, ConsentType
    <3> QED BY <1>21, <3>1 DEF BooksApart, ConsentRows
  <2>2. \A g \in DOMAIN consents : consents[g].of <= made + 1 BY <1>6, <2>1
  <2>3. \A g \in DOMAIN consents, i \in Visits : consents[g].of # 0 => consents[g].of # held'[i].id
    BY <1>6, <1>21, <1>24, <2>1 DEF BooksApart
  <2>4. \A g \in DOMAIN consents, j \in Talks :
           consents[g].of # 0 => consents[g].of # talk'[j].challenge.id
    BY <1>21, <1>22 DEF BooksApart
  <2> QED BY <1>1, <1>6, <1>20, <1>21, <2>2, <2>3, <2>4 DEF BooksApart
<1>27. GrantsGrow BY <1>1, GrantsRest
<1>28. house'.pref = house.pref BY <1>1
<1>29. PinMoves(k) BY <1>3
<1> QED BY <1>1, <1>2, <1>15, <1>18, <1>19, <1>25, <1>26, <1>27, <1>28, <1>29, ReturnStep

LEMMA ConsentStays == ASSUME ConsentInv, [ConsentNext]_consentVars PROVE ConsentInv'
<1>1. CASE \E h \in Visits : OpenVisit(h) BY <1>1, OpenVisitKeeps
<1>2. CASE CloseConsent BY <1>2, CloseConsentKeeps
<1>3. CASE \E k \in Talks, h \in Visits : StartReview(k, h) BY <1>3, StartReviewKeeps
<1>4. CASE \E k \in Talks, h \in Visits, r \in Asks, act \in {"approve", "revoke", "reject"} :
             StartDecision(k, h, r, act)
  BY <1>4, StartDecisionKeeps
<1>5. CASE \E k \in Talks : ReadPlan(k) BY <1>5, ReadPlanKeeps
<1>6. CASE \E k \in Talks : ReadPreferences(k) BY <1>6, ReadPreferencesKeeps
<1>7. CASE \E k \in Talks : Show(k) BY <1>7, ShowKeeps
<1>8. CASE \E k \in Talks : Approve(k) BY <1>8, ApproveKeeps
<1>9. CASE \E k \in Talks : Revoke(k) BY <1>9, RevokeKeeps
<1>10. CASE \E k \in Talks : Stale(k) \/ FailTalk(k) BY <1>10, StaleKeeps
<1>11. CASE \E x \in {"plan", "pref"} : TurnOf(x) BY <1>11, TurnOfKeeps
<1>12. CASE IssuedElsewhere BY <1>12, IssuedElsewhereKeeps
<1>13. CASE \E g \in DOMAIN consents : SpentElsewhere(g) \/ RevokedElsewhere(g)
  BY <1>13, SpentElsewhereKeeps
<1>14. CASE HourPasses BY <1>14, HourPassesKeeps
<1>15. CASE WallJumps BY <1>15, WallJumpsKeeps
<1>16. CASE UNCHANGED consentVars
  <2>1. UNCHANGED <<limit, shut, clock, house, pin, visit, made, held, talk, line, consents, answers>>
    BY <1>16 DEF consentVars
  <2>2. ConsentType' BY <2>1 DEF ConsentInv, ConsentType, Visits, Talks
  <2>3. house.pref <= house'.pref BY <2>1 DEF ConsentInv, ConsentType, Houses
  <2>4. ClockRuns BY <2>1, SampledRuns
  <2> QED BY <2>1, <2>2, <2>3, <2>4, GrantsRest, HeldRests, TalkRests, IdsRest, QuietStep
<1> QED BY <1>1, <1>2, <1>3, <1>4, <1>5, <1>6, <1>7, <1>8, <1>9, <1>10, <1>11, <1>12, <1>13,
           <1>14, <1>15, <1>16 DEF ConsentNext

LEMMA PlacesAreApart == ConsentInv => DecidesOnce
<1> SUFFICES ASSUME ConsentInv PROVE DecidesOnce OBVIOUS
<1>1. Apart /\ BooksApart BY DEF ConsentInv
<1>2. InHand \cap InTalk = {} BY <1>1 DEF Apart, Shown, InHand, InTalk
<1>3. InHand \cap InBooks = {} BY <1>1 DEF BooksApart, InHand, InBooks
<1>4. InTalk \cap InBooks = {} BY <1>1 DEF BooksApart, InTalk, InBooks
<1>5. \A j, k \in Talks : j # k /\ talk[j].challenge.id # 0
                           => talk[j].challenge.id # talk[k].challenge.id
  BY <1>1 DEF Apart, Shown
<1>6. \A f, g \in DOMAIN consents : f # g /\ consents[f].of # 0 => consents[f].of # consents[g].of
  BY <1>1 DEF BooksApart
<1> QED BY <1>2, <1>3, <1>4, <1>5, <1>6 DEF DecidesOnce

LEMMA DecisionsAreInformed == ConsentInv => DecidesAsShown
<1> SUFFICES ASSUME ConsentInv PROVE DecidesAsShown OBVIOUS
<1>1. ASSUME NEW k \in Talks, Approve(k) \/ Revoke(k)
      PROVE  ~shut /\ AsShown(k) /\ Lives(visit[talk[k].visit])
  <2>1. Usable /\ Present(talk[k].visit) /\ Matches(k) BY <1>1 DEF Approve, Revoke
  <2>2. PICK d : d = talk[k].challenge.digest OBVIOUS
  <2>3. d.plan = talk[k].plan /\ d.pref = talk[k].pref /\ d.head = house.head
    BY <2>1, <2>2 DEF Matches, Projected
  <2>4. AsShown(k) BY <2>2, <2>3 DEF AsShown
  <2> QED BY <2>1, <2>4 DEF Usable, Present
<1>2. ASSUME NEW k \in Talks, NEW g \in DOMAIN consents,
             Revoke(k), consents'[g] # consents[g], clock.jumps = 0
      PROVE  g <= talk[k].challenge.known
  <2>1. PICK f \in DOMAIN consents, s \in {"revoked"} :
          /\ Candidates(talk[k].challenge) = {f}
          /\ consents' = [consents EXCEPT ![f] = [consents[f] EXCEPT !.st = s]]
    BY <1>2 DEF Revoke
  <2>2. f = g BY <1>2, <2>1, Restated
  <2>3. g \in Candidates(talk[k].challenge) BY <2>1, <2>2
  <2>4. consents[g].wall <= talk[k].challenge.wall BY <2>3 DEF Candidates, Reviewable
  <2>5. PICK c : c = talk[k].challenge OBVIOUS
  <2>6. c \in Challenges /\ ShownTells(c) BY <2>5 DEF ConsentInv, ConsentType, TalkRows
  <2>7. g \in Nat /\ consents[g].wall \in Int
    <3>1. g \in Nat /\ consents[g] \in ConsentRows BY DEF ConsentInv, ConsentType
    <3> QED BY <3>1 DEF ConsentRows
  <2>8. c.digest # <<>>
    <3>1. talk[k].challenge # NoChallenge BY <1>2 DEF Revoke, ConsentInv, Deciding
    <3> QED BY <2>5, <2>6, <3>1 DEF ShownTells
  <2>9. c.known < g => c.wall < consents[g].wall
    BY <1>2, <2>6, <2>8 DEF ShownTells, Undisturbed
  <2>10. c.known \in Nat /\ c.wall \in Int BY <2>6 DEF Challenges
  <2> QED BY <2>4, <2>5, <2>7, <2>9, <2>10
<1>3. ASSUME NEW k \in Talks, Stale(k), clock.jumps = 0 PROVE ~AsShown(k)
  <2> SUFFICES ASSUME AsShown(k) PROVE Matches(k) BY <1>3 DEF Stale
  <2>1. Back(k) /\ Undisturbed BY <1>3 DEF Stale, Undisturbed
  <2>2. PICK c : c = talk[k].challenge OBVIOUS
  <2>3. c \in Challenges /\ ShownTells(c) BY <2>2 DEF ConsentInv, ConsentType, TalkRows
  <2>4. PICK d : d = c.digest OBVIOUS
  <2>5. d.plan = talk[k].plan /\ d.pref = talk[k].pref /\ d.head = house.head
    BY <2>2, <2>4 DEF AsShown
  <2>6. d # <<>>
    <3>1. talk[k].challenge # NoChallenge BY <1>3 DEF Stale, ConsentInv, Deciding
    <3> QED BY <2>2, <2>3, <2>4, <3>1 DEF ShownTells
  <2>7. d \in Digests BY <2>3, <2>4, <2>6 DEF Challenges
  <2>8. d.pref <= pin.pref /\ (d.pref = pin.pref => d.stamp = pin.stamp)
    BY <2>1, <2>3, <2>4, <2>6 DEF ShownTells
  <2>9. PICK q : q = Pinned(talk[k].pref) OBVIOUS
  <2>10. q.pref = talk[k].pref /\ (q = pin \/ pin.pref < q.pref) /\ Stamp(talk[k].pref) = q.stamp
    BY <2>1, <2>9, PinComesForward
  <2>11. talk[k].pref \in Nat /\ pin.pref \in Nat BY DEF ConsentInv, ConsentType, TalkRows
  <2>12. d.stamp = Stamp(talk[k].pref) BY <2>5, <2>8, <2>10, <2>11
  <2>13. d = [plan |-> talk[k].plan, pref |-> talk[k].pref, stamp |-> Stamp(talk[k].pref),
              head |-> house.head]
    BY <2>5, <2>7, <2>12 DEF Digests
  <2> QED BY <2>2, <2>4, <2>13 DEF Matches, Projected
<1> QED BY <1>1, <1>2, <1>3 DEF DecidesAsShown

LEMMA ConsentInvariant == ConsentSpec => []ConsentInv
<1>1. ConsentInv /\ [ConsentNext]_consentVars => ConsentInv' BY ConsentStays
<1> QED BY <1>1, ConsentInitially, PTL DEF ConsentSpec

Informed == talk' # talk => DecidesAsShown /\ DecidesOnce'

\* What a resident decides is what the resident was shown: a challenge decides once, in
\* the session it was shown in, on exactly the plan, preferences and head on the screen;
\* a decision is refused as stale only if one of these changed (decide, Phases A to C).
THEOREM DecisionsStayInformed == ConsentSpec => ConsentIsInformed
<1>1. ConsentInv /\ ConsentInv' /\ [ConsentNext]_consentVars => [Informed]_consentVars
  <2> SUFFICES ASSUME ConsentInv, ConsentInv' PROVE Informed OBVIOUS
  <2>1. DecidesAsShown BY DecisionsAreInformed
  <2>2. DecidesOnce' BY PlacesAreApart, PTL
  <2> QED BY <2>1, <2>2 DEF Informed
<1>2. ConsentSpec => [][Informed]_consentVars BY <1>1, ConsentInvariant, PTL DEF ConsentSpec
<1>3. [][Informed]_consentVars => ConsentIsInformed BY DEF Informed, ConsentIsInformed
<1> QED BY <1>2, <1>3

-----------------------------------------------------------------------------
(* The stores side by side                                                  *)

LEMMA TeamStart == ASSUME TeamInit PROVE ApprovalInv
<1>1. PICK w : w = [Idle EXCEPT !.pc = "refused"] OBVIOUS
<1>2. Idle \in CallStates /\ Idle.pc = "idle" /\ w \in CallStates /\ w.pc = "refused"
  BY <1>1 DEF Idle, CallStates, CallPcs
<1>3. PICK T : call = [c \in Callers |-> IF c \in T THEN Idle ELSE w] BY <1>1 DEF TeamInit
<1>4. call \in [Callers -> CallStates] BY <1>2, <1>3
<1>5. \A c \in Callers : call[c].pc \in {"idle", "refused"} BY <1>2, <1>3
<1>6. LedgerInit BY DEF TeamInit
<1>7. issuing \in [Grants -> {"idle", "checked", "saved", "refused"}] BY DEF TeamInit
<1> QED BY <1>4, <1>5, <1>6, <1>7, LedgerStart

\* The bulk queue of the event pump holds each point once, exactly those with a
\* reading pending, so its put_nowait never finds it full.
QueueTallies ==
    /\ \A i, j \in 1 .. Len(bulk) : bulk[i] = bulk[j] => i = j
    /\ \A k \in Points : k \in Queued <=> \E i \in 1 .. Len(bulk) : bulk[i] = k
    /\ Len(bulk) = Cardinality(Queued) /\ Len(bulk) <= QueueMax

StateBounds ==
    /\ QueueTallies
    /\ linked \in BOOLEAN
    /\ job["reader"].kind \in {"none", "save"}

LEMMA QueuedIs == \A k : k \in Queued <=> k \in Points /\ pending[k] # NoReading
BY DEF Queued

LEMMA QueuedIsFinite == IsFiniteSet(Queued)
<1>1. Queued \subseteq Points BY DEF Queued
<1> QED BY <1>1, FS_Subset, StateAssumption

LEMMA EmptyQueue ==
    ASSUME NEW f, f = [k \in Points |-> NoReading], pending' = f, bulk' = <<>>
    PROVE  QueueTallies'
<1>1. PICK b : b = <<>> OBVIOUS
<1>2. bulk' = b /\ Len(b) = 0 BY <1>1
<1>3. Queued' = {} BY DEF Queued
<1>4. Cardinality({}) = 0 BY FS_EmptySet
<1> QED BY <1>2, <1>3, <1>4, StateAssumption DEF QueueTallies

LEMMA PumpTallies ==
    ASSUME StateType, QueueTallies, NEW k \in Points, NEW r \in Readings, Pump(k, r)
    PROVE  QueueTallies'
<1>1. pending \in ReadingSets /\ bulk \in Seq(Points) BY DEF StateType
<1>2. r # NoReading BY StateAssumption
<1>3. CASE k \in Queued
  <2>1. pending' = [pending EXCEPT ![k] = r] /\ bulk' = bulk BY <1>3 DEF Pump
  <2>2. \A j \in Points : pending'[j] = IF j = k THEN r ELSE pending[j] BY <1>1, <2>1 DEF ReadingSets
  <2>3. Queued' = Queued BY <1>2, <1>3, <2>2 DEF Queued
  <2> QED BY <2>1, <2>3 DEF QueueTallies
<1>4. CASE k \notin Queued /\ ~(Cardinality(Queued) < QueueMax)
  <2>1. pending' = pending /\ bulk' = bulk BY <1>4 DEF Pump
  <2>2. Queued' = Queued BY <2>1 DEF Queued
  <2> QED BY <2>1, <2>2 DEF QueueTallies
<1>5. CASE k \notin Queued /\ Cardinality(Queued) < QueueMax
  <2>1. pending' = [pending EXCEPT ![k] = r] /\ bulk' = Append(bulk, k) BY <1>5 DEF Pump
  <2>2. \A j \in Points : pending'[j] = IF j = k THEN r ELSE pending[j] BY <1>1, <2>1 DEF ReadingSets
  <2>3. Queued' = Queued \cup {k} BY <1>2, <2>2 DEF Queued
  <2>4. PICK n \in Nat : n = Len(bulk) BY <1>1
  <2>5. Cardinality(Queued \cup {k}) = n + 1
    <3>1. Cardinality(Queued \cup {k}) = Cardinality(Queued) + 1 BY <1>5, QueuedIsFinite, FS_AddElement
    <3> QED BY <2>4, <3>1 DEF QueueTallies
  <2>6. PICK b : b = Append(bulk, k) OBVIOUS
  <2>7. Len(b) = n + 1 /\ b[n + 1] = k /\ \A i \in 1 .. n : b[i] = bulk[i] BY <1>1, <2>4, <2>6
  <2>8. \A i \in 1 .. n : bulk[i] \in Queued
    <3>1. \A i \in 1 .. n : bulk[i] \in Points BY <1>1, <2>4
    <3> QED BY <2>4, <3>1 DEF QueueTallies
  <2>9. \A i, j \in 1 .. (n + 1) : b[i] = b[j] => i = j
    <3>1. \A i, j \in 1 .. n : bulk[i] = bulk[j] => i = j BY <2>4 DEF QueueTallies
    <3>2. \A i \in 1 .. n : bulk[i] # k BY <1>5, <2>8
    <3>3. \A i \in 1 .. (n + 1) : i \in 1 .. n \/ i = n + 1 OBVIOUS
    <3> QED BY <2>7, <3>1, <3>2, <3>3
  <2>10. \A j \in Points : j \in Queued \cup {k} <=> \E i \in 1 .. (n + 1) : b[i] = j
    <3>1. \A j \in Points : j \in Queued <=> \E i \in 1 .. n : bulk[i] = j BY <2>4 DEF QueueTallies
    <3>2. \A i \in 1 .. (n + 1) : i \in 1 .. n \/ i = n + 1 OBVIOUS
    <3>3. n + 1 \in 1 .. (n + 1) /\ \A i \in 1 .. n : i \in 1 .. (n + 1) OBVIOUS
    <3> QED BY <2>7, <3>1, <3>2, <3>3
  <2>11. n + 1 <= QueueMax
    <3>1. Cardinality(Queued) = n BY <2>4 DEF QueueTallies
    <3> QED BY <1>5, <3>1, StateAssumption
  <2> QED BY <2>1, <2>3, <2>5, <2>6, <2>7, <2>9, <2>10, <2>11 DEF QueueTallies
<1> QED BY <1>3, <1>4, <1>5

LEMMA TakenTallies ==
    ASSUME StateType, QueueTallies, bulk # <<>>, bulk' = Tail(bulk),
           pending' = [pending EXCEPT ![Head(bulk)] = NoReading]
    PROVE  QueueTallies'
<1>1. pending \in ReadingSets /\ bulk \in Seq(Points) BY DEF StateType
<1>2. PICK n \in Nat : n = Len(bulk) BY <1>1
<1>3. n # 0 BY <1>1, <1>2
<1>4. PICK m \in Nat : m = n - 1 BY <1>3
<1>5. PICK b : b = Tail(bulk) OBVIOUS
<1>6. Len(b) = m /\ \A i \in 1 .. m : b[i] = bulk[i + 1] BY <1>1, <1>2, <1>3, <1>4, <1>5
<1>7. PICK k \in Points : k = Head(bulk) /\ k = bulk[1] BY <1>1, <1>2, <1>3
<1>8. \A j \in Points : pending'[j] = IF j = k THEN NoReading ELSE pending[j]
  BY <1>1, <1>7 DEF ReadingSets
<1>9. Queued' = Queued \ {k} BY <1>8 DEF Queued
<1>10. \A i, j \in 1 .. n : bulk[i] = bulk[j] => i = j BY <1>2 DEF QueueTallies
<1>11. \A j \in Points : j \in Queued <=> \E i \in 1 .. n : bulk[i] = j BY <1>2 DEF QueueTallies
<1>12. 1 \in 1 .. n BY <1>3
<1>13. k \in Queued BY <1>7, <1>11, <1>12
<1>14. Cardinality(Queued \ {k}) = m
  <2>1. Cardinality(Queued \ {k}) = Cardinality(Queued) - 1 BY <1>13, QueuedIsFinite, FS_RemoveElement
  <2> QED BY <1>2, <1>4, <2>1 DEF QueueTallies
<1>15. \A i \in 1 .. m : i + 1 \in 1 .. n /\ i + 1 # 1 BY <1>4
<1>16. ASSUME NEW i \in 1 .. m, NEW j \in 1 .. m, b[i] = b[j] PROVE i = j
  <2>1. i + 1 \in 1 .. n /\ j + 1 \in 1 .. n /\ bulk[i + 1] = bulk[j + 1] BY <1>6, <1>15, <1>16
  <2>2. i + 1 = j + 1 BY <1>10, <2>1
  <2> QED BY <2>2
<1>17. \A j \in Points : j \in Queued \ {k} <=> \E i \in 1 .. m : b[i] = j
  <2>1. ASSUME NEW j \in Points, j \in Queued, j # k PROVE \E i \in 1 .. m : b[i] = j
    <3>1. PICK i \in 1 .. n : bulk[i] = j BY <1>11, <2>1
    <3>2. i # 1 BY <1>7, <2>1, <3>1
    <3>3. i - 1 \in 1 .. m /\ (i - 1) + 1 = i BY <1>4, <3>2
    <3>4. b[i - 1] = bulk[i] BY <1>6, <3>3
    <3> QED BY <3>1, <3>3, <3>4
  <2>2. ASSUME NEW j \in Points, NEW i \in 1 .. m, b[i] = j PROVE j \in Queued /\ j # k
    <3>1. bulk[i + 1] = j /\ i + 1 \in 1 .. n /\ i + 1 # 1 BY <1>6, <1>15, <2>2
    <3> QED BY <1>7, <1>10, <1>11, <1>12, <3>1
  <2> QED BY <2>1, <2>2
<1>18. m <= QueueMax
  <2>1. n <= QueueMax BY <1>2 DEF QueueTallies
  <2> QED BY <1>4, <2>1, StateAssumption
<1> QED BY <1>5, <1>6, <1>9, <1>14, <1>16, <1>17, <1>18 DEF QueueTallies

LEMMA QueueKeepsTally ==
    ASSUME StateType, QueueTallies, [StateNext]_stateVars
    PROVE  QueueTallies'
<1>1. CASE UNCHANGED <<pending, bulk>>
  <2>1. Queued' = Queued BY <1>1 DEF Queued
  <2> QED BY <1>1, <2>1 DEF QueueTallies
<1>2. ASSUME NEW k \in Points, Change(k) PROVE QueueTallies'
  <2>1. PICK n \in {world[j].value + 1 : j \in Points} :
          IF linked THEN Pump(k, [value |-> n, at |-> time]) ELSE UNCHANGED <<pending, bulk>>
    BY <1>2 DEF Change
  <2>2. PICK r : r = [value |-> n, at |-> time] OBVIOUS
  <2>3. r \in Readings BY <2>2 DEF Readings, StateType
  <2>4. CASE linked
    <3>1. Pump(k, r) BY <2>1, <2>2, <2>4
    <3> QED BY <2>3, <3>1, PumpTallies
  <2>5. CASE ~linked BY <1>1, <2>1, <2>5
  <2> QED BY <2>4, <2>5
<1>3. CASE ConsumeState BY <1>3, TakenTallies DEF ConsumeState
<1>4. CASE RestartRuntime BY <1>4, EmptyQueue DEF RestartRuntime
<1>5. CASE WriteFails
  <2>1. CASE commit.by = "consumer" BY <1>5, <2>1, EmptyQueue DEF WriteFails
  <2>2. CASE commit.by # "consumer" BY <1>1, <1>5, <2>2 DEF WriteFails
  <2> QED BY <2>1, <2>2
<1>6. \/ UNCHANGED <<pending, bulk>> \/ (\E k \in Points : Change(k))
      \/ ConsumeState \/ RestartRuntime \/ WriteFails
  BY DEF StateNext, stateVars, ReadbackPoint, LoseLink, Reconnect, ConsumePriority, BeginCommit, Land,
         LandLate, Install, CancelReader, TimePasses
<1> QED BY <1>1, <1>2, <1>3, <1>4, <1>5, <1>6

LEMMA ReaderSaves ==
    ASSUME StateType, job["reader"].kind \in {"none", "save"}, [StateNext]_stateVars
    PROVE  job'["reader"].kind \in {"none", "save"}
<1>1. job \in [Actors -> {NoJob, LostJob} \cup SaveJobs] BY DEF StateType
<1>2. "reader" \in Actors /\ "consumer" \in Actors /\ "reader" # "consumer" BY DEF Actors
<1>3. NoJob.kind = "none" BY DEF NoJob
<1>4. CASE job'["reader"] = job["reader"] BY <1>4
<1>5. ASSUME NEW x, job' = [job EXCEPT !["consumer"] = x] PROVE job'["reader"] = job["reader"]
  BY <1>1, <1>2, <1>5
<1>6. ASSUME NEW a \in Actors, job' = [job EXCEPT ![a] = NoJob] PROVE job'["reader"].kind \in {"none", "save"}
  BY <1>1, <1>2, <1>3, <1>6
<1>7. ASSUME NEW k \in Points, ReadbackPoint(k) PROVE job'["reader"].kind \in {"none", "save"}
  <2>1. PICK x : x = SaveJob(Only(k, ReadNow(k))) OBVIOUS
  <2>2. x.kind = "save" BY <2>1 DEF SaveJob
  <2>3. job' = [job EXCEPT !["reader"] = x] BY <1>7, <2>1 DEF ReadbackPoint, Give
  <2>4. job'["reader"] = x BY <1>1, <1>2, <2>3
  <2> QED BY <2>2, <2>4
<1>8. CASE ConsumePriority \/ ConsumeState
  <2>1. job' = job \/ \E x : job' = [job EXCEPT !["consumer"] = x]
    BY <1>8 DEF ConsumePriority, ConsumeState, Give
  <2> QED BY <1>4, <1>5, <2>1
<1>9. ASSUME NEW a \in Actors, BeginCommit(a) PROVE job'["reader"].kind \in {"none", "save"}
  <2>1. job' = job \/ job' = [job EXCEPT ![a] = NoJob] BY <1>9 DEF BeginCommit, Give
  <2> QED BY <1>4, <1>6, <2>1
<1>10. CASE Install
  <2>1. commit \in Commits BY <1>10 DEF Install, StateType
  <2>2. PICK a \in Actors : a = commit.by BY <2>1 DEF Commits
  <2>3. job' = [job EXCEPT ![a] = NoJob] BY <1>10, <2>2 DEF Install, Give
  <2> QED BY <1>6, <2>3
<1>11. CASE CancelReader \/ WriteFails
  <2>1. \/ job' = job \/ job' = [job EXCEPT !["reader"] = NoJob]
        \/ \E x : job' = [job EXCEPT !["consumer"] = x]
    BY <1>11 DEF CancelReader, WriteFails, Give
  <2> QED BY <1>2, <1>4, <1>5, <1>6, <2>1
<1>12. CASE RestartRuntime
  <2>1. job' = [a \in Actors |-> NoJob] BY <1>12 DEF RestartRuntime
  <2> QED BY <1>2, <1>3, <2>1
<1>13. \/ job' = job \/ (\E k \in Points : ReadbackPoint(k)) \/ ConsumePriority \/ ConsumeState
       \/ (\E a \in Actors : BeginCommit(a)) \/ Install \/ CancelReader \/ WriteFails \/ RestartRuntime
  BY DEF StateNext, stateVars, Change, LoseLink, Reconnect, Land, LandLate, TimePasses
<1> QED BY <1>4, <1>7, <1>8, <1>9, <1>10, <1>11, <1>12, <1>13

LEMMA StateBoundsStay == StateInv /\ StateBounds /\ [StateNext]_stateVars => StateBounds'
<1> SUFFICES ASSUME StateInv, StateBounds, [StateNext]_stateVars PROVE StateBounds' OBVIOUS
<1>1. StateType BY DEF StateInv
<1>2. QueueTallies' BY <1>1, QueueKeepsTally DEF StateBounds
<1>3. job'["reader"].kind \in {"none", "save"} BY <1>1, ReaderSaves DEF StateBounds
<1>4. linked' \in BOOLEAN
  <2>1. linked' = linked \/ linked' = TRUE \/ linked' = FALSE
    BY DEF StateNext, stateVars, Change, ReadbackPoint, LoseLink, Reconnect, ConsumePriority, ConsumeState,
           BeginCommit, Land, LandLate, Install, CancelReader, WriteFails, RestartRuntime, TimePasses
  <2> QED BY <2>1 DEF StateBounds
<1> QED BY <1>2, <1>3, <1>4 DEF StateBounds

LEMMA StateBoundsInitially == StateInit => StateBounds
<1> SUFFICES ASSUME StateInit PROVE StateBounds OBVIOUS
<1>1. Queued = {} BY DEF Queued, StateInit
<1>2. PICK b : b = <<>> OBVIOUS
<1>3. bulk = b /\ Len(b) = 0 BY <1>2 DEF StateInit
<1>4. QueueTallies BY <1>1, <1>3, FS_EmptySet, StateAssumption DEF QueueTallies
<1>5. job["reader"] = NoJob /\ NoJob.kind = "none" BY DEF StateInit, NoJob, Actors
<1>6. linked \in BOOLEAN BY DEF StateInit
<1> QED BY <1>4, <1>5, <1>6 DEF StateBounds

LEMMA StateTyped == StateInv /\ StateBounds => StateTypeOK
<1> SUFFICES ASSUME StateInv, StateBounds PROVE StateTypeOK OBVIOUS
<1>1. store.snap \in [Points -> Snapshots] /\ store.counter \in Nat BY DEF StateInv, StateType, StoreStates
<1>2. ASSUME NEW k \in Points
      PROVE  /\ store.snap[k].version \in 0 .. store.counter
             /\ store.snap[k].status \in {"current", "stale", "unavailable"}
  <2>1. store.snap[k] \in Snapshots BY <1>1
  <2>2. store.snap[k].version <= store.counter BY DEF StateInv, MemoryTells, Sound, Counted
  <2> QED BY <1>1, <2>1, <2>2 DEF Snapshots
<1>3. job["consumer"].kind \in {"none", "save", "lost"}
  <2>1. job["consumer"] \in {NoJob, LostJob} \cup SaveJobs BY DEF StateInv, StateType, Actors
  <2>2. NoJob.kind = "none" /\ LostJob.kind = "lost" BY DEF NoJob, LostJob
  <2>3. \A j \in SaveJobs : j.kind = "save" BY DEF SaveJobs
  <2> QED BY <2>1, <2>2, <2>3
<1> QED BY <1>2, <1>3 DEF StateInv, StateType, StateBounds, QueueTallies, StateTypeOK

-----------------------------------------------------------------------------
AdaptersBounds ==
    /\ trying \in BOOLEAN /\ unclean \subseteq Objects /\ left \subseteq Objects
    /\ muted \in Objects \cup {NoObject} /\ troubles \in 0 .. MaxTroubles

LEMMA TroublesBounded == ASSUME AdaptersBounds, [AdaptersNext]_adapterVars PROVE troubles' \in 0 .. MaxTroubles
<1>1. troubles' = troubles \/ Trouble
  <2>1. CASE Activate \/ Replace \/ (\E c \in {"old", "new"} : Reconfigure(c))
             \/ (\E op \in {"disable", "delete"} : Disable(op))
    BY <2>1 DEF Activate, Replace, Reconfigure, Disable, Wrote, Unwritten, Smooth
  <2>2. CASE Clean \/ Connect \/ ConnectFails \/ ConnectCancelled \/ Swap \/ SwapCancelled
    BY <2>2 DEF Clean, Connect, ConnectFails, ConnectCancelled, Swap, SwapCancelled, Smooth
  <2>3. CASE Enable \/ Refresh \/ Detach \/ DetachCancelled \/ Drop \/ Disenable \/ Restore \/ Erase
    BY <2>3 DEF Enable, Refresh, Detach, DetachCancelled, Drop, Disenable, Restore, Erase, Settled, Wrote, Unwritten, Smooth
  <2>4. CASE Subscribe \/ Unsubscribe \/ ReconnectSet \/ HealthFails \/ StreamFails \/ PumpReconnects
    BY <2>4 DEF Subscribe, Unsubscribe, ReconnectSet, HealthFails, StreamFails, PumpReconnects, Smooth
  <2>5. CASE UNCHANGED adapterVars BY <2>5 DEF adapterVars
  <2> QED BY <2>1, <2>2, <2>3, <2>4, <2>5 DEF AdaptersNext
<1> QED BY <1>1, AdaptersAssumption DEF Trouble, AdaptersBounds

LEMMA AdaptersBoundsStay == AdaptersInv /\ AdaptersBounds /\ [AdaptersNext]_adapterVars => AdaptersBounds'
<1> SUFFICES ASSUME AdaptersInv, AdaptersBounds, [AdaptersNext]_adapterVars PROVE AdaptersBounds' OBVIOUS
<1>0. /\ trying \in BOOLEAN /\ unclean \subseteq Objects /\ left \subseteq Objects
      /\ child \in Objects \cup {NoObject}
  BY DEF AdaptersBounds, AdaptersInv, AdaptersType
<1>1. /\ work.at \in {"connect", "swap"} => work.on \in Objects
      /\ work.at \in {"swap", "drop"} => child \in Objects
  BY <1>0 DEF AdaptersInv, WorkTells, Builders
<1>2. trying' \in BOOLEAN
  <2>1. \/ UNCHANGED trying \/ trying' = FALSE \/ trying' = TRUE \/ trying' = (trying /\ pump # NoObject)
    BY DEF AdaptersNext, adapterVars, Activate, Replace, Reconfigure, Disable, Clean, Connect, ConnectFails,
           ConnectCancelled, Swap, SwapCancelled, Enable, Refresh, Detach, DetachCancelled, Drop, Disenable,
           Restore, Erase, Settled, Subscribe, Unsubscribe, ReconnectSet, HealthFails, StreamFails, PumpReconnects,
           PublishChild
  <2> QED BY <1>0, <2>1
<1>3. unclean' \subseteq Objects
  <2>1. ASSUME NEW clean \in BOOLEAN, work.on \in Objects, unclean' = UncleanAfter(work.on, clean)
        PROVE  unclean' \subseteq Objects
    BY <1>0, <2>1 DEF UncleanAfter
  <2>2. CASE ConnectFails \/ ConnectCancelled \/ SwapCancelled
    BY <1>1, <2>1, <2>2 DEF ConnectFails, ConnectCancelled, SwapCancelled, DiscardUnpublished
  <2>3. CASE Clean BY <1>0, <2>3 DEF Clean
  <2>4. CASE unclean' = unclean BY <1>0, <2>4
  <2>5. unclean' = unclean \/ ConnectFails \/ ConnectCancelled \/ SwapCancelled \/ Clean
    BY DEF AdaptersNext, adapterVars, Activate, Replace, Reconfigure, Disable, Connect, Swap, Enable, Refresh,
           Detach, DetachCancelled, Drop, Disenable, Restore, Erase, Settled, Subscribe, Unsubscribe, ReconnectSet,
           HealthFails, StreamFails, PumpReconnects
  <2> QED BY <2>2, <2>3, <2>4, <2>5
<1>4. left' \subseteq Objects
  <2>1. CASE Swap \/ Drop
    <3>1. child \in Objects BY <1>1, <2>1 DEF Swap, Drop
    <3>2. left' = left \/ left' = left \cup {child} BY <2>1 DEF Swap, Drop
    <3> QED BY <1>0, <3>1, <3>2
  <2>2. CASE left' = left BY <1>0, <2>2
  <2>3. left' = left \/ Swap \/ Drop
    BY DEF AdaptersNext, adapterVars, Activate, Replace, Reconfigure, Disable, Clean, Connect, ConnectFails,
           ConnectCancelled, SwapCancelled, Enable, Refresh, Detach, DetachCancelled, Disenable, Restore, Erase,
           Settled, Subscribe, Unsubscribe, ReconnectSet, HealthFails, StreamFails, PumpReconnects
  <2> QED BY <2>1, <2>2, <2>3
<1>5. muted' \in Objects \cup {NoObject}
  <2>1. muted' = muted \/ DetachCancelled \/ Subscribe
    BY DEF AdaptersNext, adapterVars, Activate, Replace, Reconfigure, Disable, Clean, Connect, ConnectFails,
           ConnectCancelled, Swap, SwapCancelled, Enable, Refresh, Detach, Drop, Disenable, Restore, Erase,
           Settled, Unsubscribe, ReconnectSet, HealthFails, StreamFails, PumpReconnects
  <2>2. CASE DetachCancelled BY <1>0, <2>2 DEF DetachCancelled, AdaptersBounds
  <2>3. CASE Subscribe BY <2>3 DEF Subscribe
  <2> QED BY <2>1, <2>2, <2>3 DEF AdaptersBounds
<1> QED BY <1>2, <1>3, <1>4, <1>5, TroublesBounded DEF AdaptersBounds

LEMMA AdaptersBoundsInitially == AdaptersInit => AdaptersBounds
<1> SUFFICES ASSUME AdaptersInit PROVE AdaptersBounds OBVIOUS
<1>1. trying \in BOOLEAN BY DEF AdaptersInit
<1>2. unclean = {} /\ left = {} /\ muted = NoObject /\ troubles = 0 BY DEF AdaptersInit
<1> QED BY <1>1, <1>2, AdaptersAssumption DEF AdaptersBounds

LEMMA AdaptersTyped == AdaptersInv /\ AdaptersBounds => AdaptersTypeOK
<1> SUFFICES ASSUME AdaptersInv, AdaptersBounds PROVE AdaptersTypeOK OBVIOUS
<1>1. work \in Works BY DEF AdaptersInv, AdaptersType
<1>2. work.op \in Operations /\ work.on \in Objects \cup {NoObject} BY <1>1, WorkFields
<1>3. {child, pump} \subseteq Objects \cup {NoObject} BY DEF AdaptersInv, AdaptersType
<1>4. {online, trying, listening, crossed, halfway} \subseteq BOOLEAN
  BY DEF AdaptersInv, AdaptersType, AdaptersBounds
<1> QED BY <1>2, <1>3, <1>4 DEF AdaptersInv, AdaptersType, AdaptersBounds, AdaptersTypeOK, Rows, Operations

-----------------------------------------------------------------------------
\* The wall clock is ahead of its start by the hours and the settings at most.
ConsentBounds ==
    /\ limit \in Limits /\ shut \in BOOLEAN
    /\ clock.tick <= limit.hours /\ clock.jumps <= limit.jumps
    /\ clock.wall <= 1 + clock.tick + clock.jumps /\ clock.last <= 1 + clock.tick + clock.jumps
    /\ made <= limit.reviews
    /\ \A k \in Talks : talk[k].visit \in 0 .. limit.visits

LEMMA LimitsAre ==
    ASSUME limit \in Limits
    PROVE  limit.hours \in Nat /\ limit.jumps \in Nat /\ limit.reviews \in Nat /\ limit.visits \in Nat
BY ConsentAssumption DEF Limited

LEMMA ConsentBoundsInitially == ConsentInit => ConsentBounds
<1> SUFFICES ASSUME ConsentInit PROVE ConsentBounds OBVIOUS
<1>1. limit \in Limits BY DEF ConsentInit
<1>2. limit.hours \in Nat /\ limit.jumps \in Nat /\ limit.reviews \in Nat /\ limit.visits \in Nat
  BY <1>1, LimitsAre
<1>3. clock.wall = 1 /\ clock.tick = 0 /\ clock.last = 0 /\ clock.jumps = 0 BY DEF ConsentInit
<1>4. \A k \in Talks : talk[k].visit = 0 BY DEF ConsentInit, NoTalk
<1>5. shut \in BOOLEAN /\ made = 0 BY DEF ConsentInit
<1> QED BY <1>1, <1>2, <1>3, <1>4, <1>5 DEF ConsentBounds

\* What a step does to the adapter's own counters and clock.
LEMMA ConsentMoves ==
    ASSUME [ConsentNext]_consentVars
    PROVE  /\ limit' = limit /\ (shut' = shut \/ shut' = TRUE)
           /\ made' = made \/ (made < limit.reviews /\ made' = made + 1)
           /\ clock' = clock \/ Sampled \/ HourPasses \/ WallJumps
<1>1. ASSUME NEW k \in Talks, Show(k) \/ Approve(k) \/ Revoke(k) \/ Stale(k) \/ FailTalk(k)
      PROVE  /\ limit' = limit /\ shut' = shut /\ (clock' = clock \/ Sampled)
             /\ made' = made \/ (made < limit.reviews /\ made' = made + 1)
  BY <1>1 DEF Show, Approve, Revoke, Stale, FailTalk
<1>2. ASSUME NEW k \in Talks, ReadPlan(k) \/ ReadPreferences(k) \/ \E h \in Visits : StartReview(k, h)
      PROVE  limit' = limit /\ shut' = shut /\ clock' = clock /\ made' = made
  <2>1. CASE ReadPlan(k) BY <2>1 DEF ReadPlan
  <2>2. CASE ReadPreferences(k) BY <2>2 DEF ReadPreferences
  <2>3. CASE \E h \in Visits : StartReview(k, h) BY <2>3 DEF StartReview
  <2> QED BY <1>2, <2>1, <2>2, <2>3
<1>3. ASSUME NEW k \in Talks, NEW h \in Visits, NEW q \in Asks, NEW act \in {"approve", "revoke", "reject"},
             StartDecision(k, h, q, act)
      PROVE  limit' = limit /\ shut' = shut /\ Sampled /\ made' = made
  BY <1>3 DEF StartDecision
<1>4. ASSUME CloseConsent \/ \E h \in Visits : OpenVisit(h)
      PROVE  limit' = limit /\ (shut' = shut \/ shut' = TRUE) /\ (clock' = clock \/ Sampled) /\ made' = made
  BY <1>4 DEF CloseConsent, OpenVisit
<1>5. ASSUME \/ \E x \in {"plan", "pref"} : TurnOf(x)
             \/ IssuedElsewhere \/ \E g \in DOMAIN consents : SpentElsewhere(g) \/ RevokedElsewhere(g)
      PROVE  limit' = limit /\ shut' = shut /\ clock' = clock /\ made' = made
  <2>1. CASE \E x \in {"plan", "pref"} : TurnOf(x) BY <2>1 DEF TurnOf
  <2>2. CASE IssuedElsewhere BY <2>2 DEF IssuedElsewhere
  <2>3. CASE \E g \in DOMAIN consents : SpentElsewhere(g) \/ RevokedElsewhere(g)
    BY <2>3 DEF SpentElsewhere, RevokedElsewhere
  <2> QED BY <1>5, <2>1, <2>2, <2>3
<1>6. ASSUME HourPasses \/ WallJumps PROVE limit' = limit /\ shut' = shut /\ made' = made
  BY <1>6 DEF HourPasses, WallJumps
<1>7. CASE UNCHANGED consentVars BY <1>7 DEF consentVars
<1>8. CASE ConsentNext
  <2>1. CASE \E k \in Talks : Show(k) \/ Approve(k) \/ Revoke(k) \/ Stale(k) \/ FailTalk(k) BY <1>1, <2>1
  <2>2. CASE \E k \in Talks : ReadPlan(k) \/ ReadPreferences(k) \/ \E h \in Visits : StartReview(k, h)
    BY <1>2, <2>2
  <2>3. CASE \E k \in Talks, h \in Visits, q \in Asks, act \in {"approve", "revoke", "reject"} :
               StartDecision(k, h, q, act)
    BY <1>3, <2>3
  <2>4. CASE CloseConsent \/ \E h \in Visits : OpenVisit(h) BY <1>4, <2>4
  <2>5. CASE \/ \E x \in {"plan", "pref"} : TurnOf(x)
             \/ IssuedElsewhere \/ \E g \in DOMAIN consents : SpentElsewhere(g) \/ RevokedElsewhere(g)
    BY <1>5, <2>5
  <2>6. CASE HourPasses \/ WallJumps BY <1>6, <2>6
  <2> QED BY <1>8, <2>1, <2>2, <2>3, <2>4, <2>5, <2>6 DEF ConsentNext
<1> QED BY <1>7, <1>8

LEMMA ClockBounded ==
    ASSUME ConsentInv, ConsentBounds, [ConsentNext]_consentVars
    PROVE  /\ clock'.tick <= limit.hours /\ clock'.jumps <= limit.jumps
           /\ clock'.wall <= 1 + clock'.tick + clock'.jumps
           /\ clock'.last <= 1 + clock'.tick + clock'.jumps
<1>1. clock \in Clocks BY DEF ConsentInv, ConsentType
<1>2. PICK w \in Int, t \in Nat, l \in Int, j \in Nat :
        clock = [wall |-> w, tick |-> t, last |-> l, jumps |-> j]
  BY <1>1 DEF Clocks
<1>3. clock.wall = w /\ clock.tick = t /\ clock.last = l /\ clock.jumps = j BY <1>2
<1>4. limit.hours \in Nat /\ limit.jumps \in Nat BY LimitsAre DEF ConsentBounds
<1>5. t <= limit.hours /\ j <= limit.jumps /\ w <= 1 + t + j /\ l <= 1 + t + j BY <1>3 DEF ConsentBounds
<1>6. clock' = clock \/ Sampled \/ HourPasses \/ WallJumps BY ConsentMoves
<1>7. CASE clock' = clock BY <1>3, <1>5, <1>7
<1>8. CASE Sampled
  <2>1. clock' = [wall |-> w, tick |-> t, last |-> w, jumps |-> j] BY <1>2, <1>3, <1>8 DEF Sampled
  <2> QED BY <1>5, <2>1
<1>9. CASE HourPasses
  <2>1. clock' = [wall |-> w + 1, tick |-> t + 1, last |-> l, jumps |-> j] /\ t < limit.hours
    BY <1>2, <1>3, <1>9 DEF HourPasses
  <2>2. clock'.wall = w + 1 /\ clock'.tick = t + 1 /\ clock'.last = l /\ clock'.jumps = j BY <2>1
  <2> QED BY <1>4, <1>5, <2>1, <2>2
<1>10. CASE WallJumps
  <2>1. PICK v \in {w - 1, w + 1} : clock' = [clock EXCEPT !.wall = v, !.jumps = @ + 1]
    BY <1>3, <1>10 DEF WallJumps
  <2>2. clock' = [wall |-> v, tick |-> t, last |-> l, jumps |-> j + 1] BY <1>2, <1>3, <2>1
  <2>3. clock'.wall = v /\ clock'.tick = t /\ clock'.last = l /\ clock'.jumps = j + 1 BY <2>2
  <2>4. j < limit.jumps BY <1>3, <1>10 DEF WallJumps
  <2> QED BY <1>4, <1>5, <2>3, <2>4
<1> QED BY <1>6, <1>7, <1>8, <1>9, <1>10

LEMMA VisitsBounded ==
    ASSUME ConsentInv, ConsentBounds, [ConsentNext]_consentVars
    PROVE  \A k \in Talks : talk'[k].visit \in 0 .. limit.visits
<1>1. talk \in [Talks -> TalkRows] BY DEF ConsentInv, ConsentType
<1>2. limit.visits \in Nat /\ \A k \in Talks : talk[k].visit \in 0 .. limit.visits
  BY LimitsAre DEF ConsentBounds
<1>3. CASE talk' = talk BY <1>2, <1>3
<1>4. ASSUME NEW k \in Talks, NEW x, talk' = [talk EXCEPT ![k] = x], x.visit \in 0 .. limit.visits
      PROVE  \A j \in Talks : talk'[j].visit \in 0 .. limit.visits
  BY <1>1, <1>2, <1>4
<1>5. NoTalk.visit = 0 BY DEF NoTalk
<1>6. ASSUME NEW k \in Talks, Return(k) PROVE \A j \in Talks : talk'[j].visit \in 0 .. limit.visits
  <2>1. PICK x : x = NoTalk OBVIOUS
  <2>2. talk' = [talk EXCEPT ![k] = x] BY <1>6, <2>1 DEF Return
  <2>3. x.visit \in 0 .. limit.visits BY <1>2, <1>5, <2>1
  <2> QED BY <1>4, <2>2, <2>3
<1>7. ASSUME NEW k \in Talks, NEW h \in Visits,
             \/ StartReview(k, h)
             \/ \E q \in Asks, act \in {"approve", "revoke", "reject"} : StartDecision(k, h, q, act)
      PROVE  \A j \in Talks : talk'[j].visit \in 0 .. limit.visits
  <2>1. h \in 0 .. limit.visits BY <1>2 DEF Visits
  <2>2. PICK x : talk' = [talk EXCEPT ![k] = x] /\ x.visit = h
    <3>1. CASE StartReview(k, h)
      <4>1. PICK x : x = [NoTalk EXCEPT !.op = "review", !.at = "plan", !.visit = h] OBVIOUS
      <4>2. x.visit = h BY <4>1 DEF NoTalk
      <4>3. talk' = [talk EXCEPT ![k] = x] BY <3>1, <4>1 DEF StartReview
      <4> QED BY <4>2, <4>3
    <3>2. CASE ~StartReview(k, h)
      <4>1. PICK q \in Asks, act \in {"approve", "revoke", "reject"} : StartDecision(k, h, q, act)
        BY <1>7, <3>2
      <4>2. PICK x : x = [NoTalk EXCEPT !.op = act, !.at = IF act = "reject" THEN "done" ELSE "plan",
                                        !.visit = h, !.challenge = held[h], !.ask = q] OBVIOUS
      <4>3. x.visit = h BY <4>2 DEF NoTalk
      <4>4. talk' = [talk EXCEPT ![k] = x] BY <4>1, <4>2 DEF StartDecision
      <4> QED BY <4>3, <4>4
    <3> QED BY <3>1, <3>2
  <2> QED BY <1>4, <2>1, <2>2
<1>8. ASSUME NEW k \in Talks, ReadPlan(k) \/ ReadPreferences(k)
      PROVE  \A j \in Talks : talk'[j].visit \in 0 .. limit.visits
  <2>1. talk[k] \in TalkRows BY <1>1
  <2>2. PICK x : talk' = [talk EXCEPT ![k] = x] /\ x.visit = talk[k].visit
    BY <1>8, <2>1 DEF ReadPlan, ReadPreferences, TalkRows
  <2>3. x.visit \in 0 .. limit.visits BY <1>2, <2>2
  <2> QED BY <1>4, <2>2, <2>3
<1>9. \/ talk' = talk \/ (\E k \in Talks : Return(k) \/ ReadPlan(k) \/ ReadPreferences(k))
      \/ \E k \in Talks, h \in Visits :
           \/ StartReview(k, h)
           \/ \E q \in Asks, act \in {"approve", "revoke", "reject"} : StartDecision(k, h, q, act)
  BY DEF ConsentNext, consentVars, OpenVisit, CloseConsent, Show, Approve, Revoke, Stale, FailTalk, TurnOf,
         IssuedElsewhere, SpentElsewhere, RevokedElsewhere, HourPasses, WallJumps
<1> QED BY <1>3, <1>6, <1>7, <1>8, <1>9

LEMMA ConsentBoundsStay == ConsentInv /\ ConsentBounds /\ [ConsentNext]_consentVars => ConsentBounds'
<1> SUFFICES ASSUME ConsentInv, ConsentBounds, [ConsentNext]_consentVars PROVE ConsentBounds' OBVIOUS
<1>1. limit' = limit BY ConsentMoves
<1>2. shut' = shut \/ shut' = TRUE BY ConsentMoves
<1>3. made' = made \/ (made < limit.reviews /\ made' = made + 1) BY ConsentMoves
<1>4. made \in Nat /\ limit.reviews \in Nat /\ made <= limit.reviews
  BY LimitsAre DEF ConsentInv, ConsentType, ConsentBounds
<1>5. made' <= limit.reviews BY <1>3, <1>4
<1>6. shut' \in BOOLEAN BY <1>2 DEF ConsentBounds
<1>7. Talks' = Talks BY <1>1 DEF Talks
<1>8. limit \in Limits BY DEF ConsentBounds
<1>9. \A k \in Talks : talk'[k].visit \in 0 .. limit.visits BY VisitsBounded
<1>10. /\ clock'.tick <= limit.hours /\ clock'.jumps <= limit.jumps
       /\ clock'.wall <= 1 + clock'.tick + clock'.jumps
       /\ clock'.last <= 1 + clock'.tick + clock'.jumps
  BY ClockBounded
<1> QED BY <1>1, <1>5, <1>6, <1>7, <1>8, <1>9, <1>10 DEF ConsentBounds

LEMMA ConsentTyped == ConsentInv /\ ConsentBounds => ConsentTypeOK
<1> SUFFICES ASSUME ConsentInv, ConsentBounds PROVE ConsentTypeOK OBVIOUS
<1>1. limit.hours \in Nat /\ limit.jumps \in Nat /\ limit.reviews \in Nat BY LimitsAre DEF ConsentBounds
<1>2. clock.tick \in Nat /\ clock.last \in Int /\ clock.jumps \in Nat BY DEF ConsentInv, ConsentType, Clocks
<1>3. clock.tick \in 0 .. limit.hours /\ clock.last <= limit.hours + limit.jumps + 1
  BY <1>1, <1>2 DEF ConsentBounds
<1>4. made \in 0 .. limit.reviews /\ made \in Nat BY <1>1 DEF ConsentInv, ConsentType, ConsentBounds
<1>5. ASSUME NEW h \in Visits PROVE held[h].id \in 0 .. made
  <2>1. held[h] \in Challenges BY DEF ConsentInv, ConsentType
  <2>2. held[h].id <= made BY DEF ConsentInv, ShownTells
  <2> QED BY <1>4, <2>1, <2>2 DEF Challenges
<1>6. ASSUME NEW k \in Talks PROVE talk[k].at \in {"idle", "plan", "prefs", "back", "done"}
  <2>1. talk[k] \in TalkRows BY DEF ConsentInv, ConsentType
  <2> QED BY <2>1 DEF TalkRows
<1>7. \A k \in Talks : \A j \in line[k] : talk[j].at = "back" BY DEF ConsentInv, BackTells
<1>8. ASSUME NEW g \in DOMAIN consents PROVE consents[g].st \in {"pending", "consumed", "revoked"}
  <2>1. consents[g] \in ConsentRows BY DEF ConsentInv, ConsentType
  <2> QED BY <2>1 DEF ConsentRows
<1> QED BY <1>3, <1>4, <1>5, <1>6, <1>7, <1>8 DEF ConsentBounds, ConsentTypeOK

-----------------------------------------------------------------------------
StoresInv ==
    /\ focus \in {"approvals", "automation", "state", "secrets", "adapters", "consent"}
    /\ ApprovalInv /\ AutomationInv /\ SecretsInv
    /\ StateInv /\ StateBounds /\ AdaptersInv /\ AdaptersBounds /\ ConsentInv /\ ConsentBounds

\* Each store keeps to its own types whichever of them moves (approval_store.py,
\* local_automation.py, state_store.py, connection_secrets.py, managed_adapter_set.py,
\* resident_consent.py): rows stay in the states the code can store, no version is
\* above its counter, the bulk queue stays within event_queue_max_size though only
\* the pending readings are counted, and what waits for a read waits for a live one.
THEOREM StoresStayTyped == StoresSpec => []StoresTypeOK
<1>1. StoresInit => StoresInv
  BY TeamStart, AutomationInitially, StateInitially, StateBoundsInitially, SecretsStart, AdaptersStart,
     AdaptersBoundsInitially, ConsentInitially, ConsentBoundsInitially
     DEF StoresInit, StoresInv
<1>2. StoresInv /\ [StoresNext]_storesVars => StoresInv'
  <2> SUFFICES ASSUME StoresInv, [StoresNext]_storesVars PROVE StoresInv' OBVIOUS
  <2>1. /\ [ApprovalNext]_approvalVars /\ [AutomationNext]_automationVars /\ [StateNext]_stateVars
        /\ [SecretsNext]_secretVars /\ [AdaptersNext]_adapterVars /\ [ConsentNext]_consentVars
        /\ focus' = focus
    BY DEF StoresNext, storesVars, ApprovalsRest, AutomationRest, StateRests, SecretsRest, AdaptersRest,
           ConsentRests
  <2>2. ApprovalInv' BY <2>1, ApprovalStep, ApprovalStutter DEF StoresInv
  <2>3. AutomationInv' BY <2>1, AutomationKeeps DEF StoresInv
  <2>4. StateInv' BY <2>1, StateSteps, StateStutters DEF StoresInv
  <2>5. StateBounds' BY <2>1, StateBoundsStay DEF StoresInv
  <2>6. SecretsInv' BY <2>1, SecretsStep DEF StoresInv
  <2>7. AdaptersInv' BY <2>1, AdaptersStep DEF StoresInv
  <2>8. AdaptersBounds' BY <2>1, AdaptersBoundsStay DEF StoresInv
  <2>9. ConsentInv' BY <2>1, ConsentStays DEF StoresInv
  <2>10. ConsentBounds' BY <2>1, ConsentBoundsStay DEF StoresInv
  <2> QED BY <2>1, <2>2, <2>3, <2>4, <2>5, <2>6, <2>7, <2>8, <2>9, <2>10 DEF StoresInv
<1>3. StoresInv => StoresTypeOK
  <2> SUFFICES ASSUME StoresInv PROVE StoresTypeOK OBVIOUS
  <2>1. ApprovalTypeOK BY DEF StoresInv, ApprovalInv
  <2>2. AutomationTypeOK BY AutomationInvTells DEF StoresInv
  <2>3. StateTypeOK BY StateTyped DEF StoresInv
  <2>4. SecretsTypeOK BY SecretsTold DEF StoresInv
  <2>5. AdaptersTypeOK BY AdaptersTyped DEF StoresInv
  <2>6. ConsentTypeOK BY ConsentTyped DEF StoresInv
  <2>7. CASE focus = "approvals" BY <2>1, <2>7 DEF StoresTypeOK
  <2>8. CASE focus = "automation" BY <2>2, <2>8 DEF StoresTypeOK
  <2>9. CASE focus = "state" BY <2>3, <2>9 DEF StoresTypeOK
  <2>10. CASE focus = "secrets" BY <2>4, <2>10 DEF StoresTypeOK
  <2>11. CASE focus = "adapters" BY <2>5, <2>11 DEF StoresTypeOK
  <2>12. CASE focus = "consent" BY <2>6, <2>12 DEF StoresTypeOK
  <2> QED BY <2>7, <2>8, <2>9, <2>10, <2>11, <2>12 DEF StoresInv
<1> QED BY <1>1, <1>2, <1>3, PTL DEF StoresSpec
=============================================================================
