---------------------------- MODULE ControlProofs ----------------------------
(***************************************************************************)
(* What is proved of the one host that controls devices: that a latched    *)
(* actuator is known to be on (ControlTakeover), for every number of plans *)
(* and commands, every lease length and every number of restarts; and that *)
(* the inventory plans are validated against is sound (DeviceInventory),   *)
(* for all sources, entities and reports.                                  *)
(***************************************************************************)
EXTENDS ControlTakeover, DeviceInventory, FiniteSetTheorems, WellFoundedInduction, TLAPS

Stops == [of : Stoppers, step : {"none", "write", "read", "judge"}, saw : BOOLEAN]

TakeoverType ==
    /\ power \in BOOLEAN /\ touched \in BOOLEAN /\ raced \in BOOLEAN
    /\ control \in [Orders -> [status : Statuses, left : 0..LeaseLength]]
    /\ order \in [Orders -> Stages] /\ done \in [Orders -> 0..Commands]
    /\ stopping \in [Stoppers -> Stops]
    /\ startup \in {"begin", "look", "stop", "verify", "reconciled", "failed"}

\* A plan that has not been answered has no entry, and nobody stops it.
Unanswered(o) == order[o] \in {"idle", "acquiring"}

EntriesFollow ==
    /\ \A o \in Orders : Unanswered(o) => control[o].status = "none"
    /\ \A s \in Stoppers : stopping[s].step # "none" =>
         stopping[s].of \in Orders /\ ~Unanswered(stopping[s].of)

\* A stop that has read the actuator off and is about to say so.
Clears(s, q) == stopping[s].step = "judge" /\ ~stopping[s].saw /\ stopping[s].of = q

\* The entry that tells of an actuator that is on: not released, nor about to be.
Tells(q) ==
    /\ control[q].status \in {"acquired", "expired", "unknown"}
    /\ \A s \in Stoppers : ~Clears(s, q)

Witnessed == power /\ startup = "reconciled" /\ ~raced => \E q \in Orders : Tells(q)

TakeoverInv == TakeoverType /\ EntriesFollow /\ Witnessed /\ RestartClearsLatch

-----------------------------------------------------------------------------
(* Operators *)

\* The entry an order leaves, and where a command leaves its plan.
LEMMA StatusSet ==
    ASSUME TakeoverType, NEW o \in Orders, NEW st \in Statuses, SetStatus(o, st)
    PROVE  /\ control' \in [Orders -> [status : Statuses, left : 0..LeaseLength]]
           /\ control'[o].status = st
           /\ \A q \in Orders \ {o} : control'[q] = control[q]
BY TakeoverAssumption DEF TakeoverType, SetStatus

LEMMA Entered ==
    ASSUME TakeoverType, NEW o \in Orders, NEW st \in Stages, Enter(o, st)
    PROVE  /\ order' \in [Orders -> Stages] /\ order'[o] = st
           /\ \A q \in Orders \ {o} : order'[q] = order[q]
BY DEF TakeoverType, Enter

LEMMA CommandLeft ==
    ASSUME TakeoverType, NEW o \in Orders, NEW c \in BOOLEAN, AfterCommand(o, c)
    PROVE  /\ order' \in [Orders -> Stages] /\ order'[o] \in {"ready", "releasing"}
           /\ \A q \in Orders \ {o} : order'[q] = order[q]
           /\ done' \in [Orders -> 0..Commands]
<1> DEFINE more == done[o] + 1 < Commands /\ (done[o] > 0 \/ c)
<1>1. done[o] \in 0..Commands BY DEF TakeoverType
<1>2. (IF more THEN done[o] + 1 ELSE 0) \in 0..Commands BY <1>1, TakeoverAssumption
<1>3. done' = [done EXCEPT ![o] = IF more THEN done[o] + 1 ELSE 0]
  BY DEF AfterCommand, TakeoverType
<1>4. Enter(o, IF more THEN "ready" ELSE "releasing") BY DEF AfterCommand
<1>5. PICK st \in {"ready", "releasing"} : Enter(o, st) BY <1>4
<1>6. st \in Stages BY DEF Stages
<1>7. done' \in [Orders -> 0..Commands] BY <1>2, <1>3 DEF TakeoverType
<1> HIDE DEF more
<1> QED BY <1>5, <1>6, <1>7, Entered

LEMMA StopBegun ==
    ASSUME TakeoverType, NEW s \in Stoppers, NEW o \in Orders, BeginStop(s, o)
    PROVE  /\ stopping' \in [Stoppers -> Stops]
           /\ stopping'[s] = [of |-> o, step |-> "write", saw |-> FALSE]
           /\ \A t \in Stoppers \ {s} : stopping'[t] = stopping[t]
BY DEF TakeoverType, BeginStop, Stops, Stoppers

\* A stop that ends gives its entry a status, and lets its plan go on.
LEMMA StopEnded ==
    ASSUME TakeoverType, EntriesFollow, NEW s \in Stoppers, stopping[s].step # "none",
           NEW st \in Statuses, EndStop(s, st)
    PROVE  /\ control' \in [Orders -> [status : Statuses, left : 0..LeaseLength]]
           /\ order' \in [Orders -> Stages] /\ done' \in [Orders -> 0..Commands]
           /\ stopping' \in [Stoppers -> Stops]
           /\ stopping[s].of \in Orders
           /\ control'[stopping[s].of].status = st
           /\ \A q \in Orders \ {stopping[s].of} : control'[q] = control[q]
           /\ stopping'[s].step = "none"
           /\ \A t \in Stoppers \ {s} : stopping'[t] = stopping[t]
           /\ \A q \in Orders : order'[q] = order[q] \/ order'[q] \in {"ready", "releasing", "ended"}
<1>1. stopping[s].of \in Orders BY DEF EntriesFollow
<1>2. PICK q \in Orders : q = stopping[s].of BY <1>1
<1>3. SetStatus(q, st) BY <1>2 DEF EndStop
<1>4. NoStop \in Stops BY DEF NoStop, Stops, Stoppers
<1>5. /\ stopping' \in [Stoppers -> Stops] /\ stopping'[s].step = "none"
      /\ \A t \in Stoppers \ {s} : stopping'[t] = stopping[t]
  BY <1>4 DEF EndStop, TakeoverType, NoStop
<1>6. /\ order' \in [Orders -> Stages] /\ done' \in [Orders -> 0..Commands]
      /\ \A p \in Orders : order'[p] = order[p] \/ order'[p] \in {"ready", "releasing", "ended"}
  <2>1. CASE s = Supervisor BY <2>1 DEF EndStop, TakeoverType
  <2>2. CASE s # Supervisor /\ order[s] = "stopping"
    <3>1. s \in Orders /\ AfterCommand(s, FALSE) BY <2>2 DEF EndStop, Stoppers
    <3> QED BY <3>1, CommandLeft
  <2>3. CASE s # Supervisor /\ order[s] # "stopping"
    <3>1. s \in Orders /\ Enter(s, "ended") /\ UNCHANGED done BY <2>3 DEF EndStop, Stoppers
    <3>2. "ended" \in Stages BY DEF Stages
    <3> QED BY <3>1, <3>2, Entered DEF TakeoverType
  <2> QED BY <2>1, <2>2, <2>3
<1> QED BY <1>1, <1>2, <1>3, <1>5, <1>6, StatusSet

-----------------------------------------------------------------------------
(* Steps *)

LEMMA TakeoverInitially == TakeoverInit => TakeoverInv
<1> SUFFICES ASSUME TakeoverInit PROVE TakeoverInv OBVIOUS
<1>1. NoControl \in [status : Statuses, left : 0..LeaseLength] /\ 0 \in 0..Commands
  BY TakeoverAssumption DEF NoControl, Statuses
<1>2. NoStop \in Stops /\ "idle" \in Stages BY DEF NoStop, Stops, Stoppers, Stages
<1>3. TakeoverType BY <1>1, <1>2 DEF TakeoverInit, TakeoverType
<1>4. EntriesFollow BY DEF TakeoverInit, EntriesFollow, NoControl, NoStop
<1> QED BY <1>3, <1>4 DEF TakeoverInit, TakeoverInv, Witnessed, RestartClearsLatch

\* The startup confirms an actuator it sees off, and no other.
LEMMA StartupKeeps == ASSUME TakeoverInv, StartupStep PROVE TakeoverInv'
<1>1. UNCHANGED <<control, order, done, stopping, touched, raced>> /\ power' \in {power, FALSE}
      /\ startup' \in {"look", "stop", "verify", "reconciled", "failed"}
  BY DEF StartupStep, BeginStartup, StartupLook, StartupStop, StartupVerify
<1>2. TakeoverType' BY <1>1 DEF TakeoverInv, TakeoverType
<1>3. EntriesFollow' BY <1>1 DEF TakeoverInv, EntriesFollow, Unanswered
<1>4. startup' = "reconciled" => ~power'
  BY DEF StartupStep, BeginStartup, StartupLook, StartupStop, StartupVerify, LooksSafe,
         TakeoverInv, TakeoverType
<1> QED BY <1>2, <1>3, <1>4 DEF TakeoverInv, Witnessed, RestartClearsLatch

\* What the other steps leave of an actuator that is on.
LEMMA ToldAgain ==
    ASSUME TakeoverInv, UNCHANGED <<startup, touched, raced>>, power' \in {power, FALSE},
           power' => \A q \in Orders : Tells(q) => Tells(q)'
    PROVE  Witnessed' /\ RestartClearsLatch'
<1>1. power' => power BY DEF TakeoverInv, TakeoverType
<1>2. RestartClearsLatch' BY <1>1 DEF TakeoverInv, RestartClearsLatch
<1>3. ASSUME power', startup' = "reconciled", ~raced' PROVE \E q \in Orders : Tells(q)'
  <2>1. PICK q \in Orders : Tells(q) BY <1>1, <1>3 DEF TakeoverInv, Witnessed
  <2> QED BY <1>3, <2>1
<1> QED BY <1>2, <1>3 DEF Witnessed

LEMMA AcquireKeeps == ASSUME TakeoverInv, NEW o \in Orders, Acquire(o) PROVE TakeoverInv'
<1>1. UNCHANGED <<power, done, stopping, startup, touched, raced>> BY DEF Acquire
<1>2. PICK st \in {"ended", "acquiring"} : Enter(o, st) BY DEF Acquire
<1>3. order[o] = "idle" BY DEF Acquire
<1>4. \A q \in Orders : control'[q] = control[q]
                        \/ (control[q].status = "acquired" /\ control'[q] = [status |-> "expired", left |-> 0])
  BY DEF Acquire
<1>5. control' \in [Orders -> [status : Statuses, left : 0..LeaseLength]]
  BY TakeoverAssumption DEF Acquire, TakeoverInv, TakeoverType, Statuses
<1>6. st \in Stages BY DEF Stages
<1>7. /\ order' \in [Orders -> Stages] /\ order'[o] = st
      /\ \A q \in Orders \ {o} : order'[q] = order[q]
  BY <1>2, <1>6, Entered DEF TakeoverInv
<1>8. TakeoverType' BY <1>1, <1>5, <1>7 DEF TakeoverInv, TakeoverType
<1>9. EntriesFollow'
  <2>1. \A q \in Orders : Unanswered(q)' => control'[q].status = "none"
    BY <1>3, <1>4, <1>7 DEF TakeoverInv, EntriesFollow, Unanswered
  <2>2. \A q \in Orders : Unanswered(q)' => Unanswered(q)
    BY <1>3, <1>7 DEF Unanswered
  <2>3. stopping' = stopping BY <1>1
  <2> QED BY <2>1, <2>2, <2>3 DEF TakeoverInv, EntriesFollow
<1>10. \A q \in Orders : Tells(q) => Tells(q)' BY <1>1, <1>4 DEF Tells, Clears
<1> QED BY <1>1, <1>8, <1>9, <1>10, ToldAgain DEF TakeoverInv

LEMMA AcquiredKeeps == ASSUME TakeoverInv, NEW o \in Orders, Acquired(o) PROVE TakeoverInv'
<1>1. UNCHANGED <<power, done, stopping, startup, touched, raced>> BY DEF Acquired
<1>2. order[o] = "acquiring" BY DEF Acquired
<1>3. PICK st \in {"ready", "ended"} : Enter(o, st) BY DEF Acquired
<1>4. /\ control' \in [Orders -> [status : Statuses, left : 0..LeaseLength]]
      /\ \A q \in Orders \ {o} : control'[q] = control[q]
  BY TakeoverAssumption DEF Acquired, SetStatus, TakeoverInv, TakeoverType, Statuses
<1>5. st \in Stages BY DEF Stages
<1>6. /\ order' \in [Orders -> Stages] /\ order'[o] = st
      /\ \A q \in Orders \ {o} : order'[q] = order[q]
  BY <1>3, <1>5, Entered DEF TakeoverInv
<1>7. TakeoverType' BY <1>1, <1>4, <1>6 DEF TakeoverInv, TakeoverType
<1>8. EntriesFollow'
  <2>1. \A q \in Orders : Unanswered(q)' => Unanswered(q) /\ q # o
    BY <1>6 DEF Unanswered
  <2> QED BY <2>1, <1>1, <1>4 DEF TakeoverInv, EntriesFollow
<1>9. \A q \in Orders : Tells(q) => q # o
  BY <1>2 DEF TakeoverInv, EntriesFollow, Unanswered, Tells
<1>10. \A q \in Orders : Tells(q) => Tells(q)' BY <1>1, <1>4, <1>9 DEF Tells, Clears
<1> QED BY <1>1, <1>7, <1>8, <1>10, ToldAgain DEF TakeoverInv

\* A plan that begins a stop, or goes on, leaves every entry that tells.
LEMMA SendKeeps == ASSUME TakeoverInv, NEW o \in Orders, SendOrder(o) PROVE TakeoverInv'
<1>1. UNCHANGED <<power, done, startup, touched, raced>> BY DEF SendOrder
<1>2. PICK st \in {"sending", "stopping"} : Enter(o, st) BY DEF SendOrder
<1>3. order[o] = "ready" BY DEF SendOrder
<1>4. /\ control' \in [Orders -> [status : Statuses, left : 0..LeaseLength]]
      /\ \A q \in Orders \ {o} : control'[q] = control[q]
      /\ control'[o] = control[o] \/ control'[o].status = "expired"
  BY TakeoverAssumption DEF SendOrder, SetStatus, TakeoverInv, TakeoverType, Statuses
<1>5. /\ stopping' \in [Stoppers -> Stops]
      /\ \A s \in Stoppers : stopping'[s] = stopping[s]
                             \/ stopping'[s] = [of |-> o, step |-> "write", saw |-> FALSE]
  <2>1. CASE UNCHANGED stopping BY <2>1 DEF TakeoverInv, TakeoverType
  <2>2. CASE BeginStop(o, o)
    <3>1. o \in Stoppers BY DEF Stoppers
    <3> QED BY <2>2, <3>1, StopBegun DEF TakeoverInv
  <2> QED BY <2>1, <2>2 DEF SendOrder
<1>6. st \in Stages BY DEF Stages
<1>7. /\ order' \in [Orders -> Stages] /\ order'[o] = st
      /\ \A q \in Orders \ {o} : order'[q] = order[q]
  BY <1>2, <1>6, Entered DEF TakeoverInv
<1>8. TakeoverType' BY <1>1, <1>4, <1>5, <1>7 DEF TakeoverInv, TakeoverType
<1>9. \A q \in Orders : Unanswered(q)' <=> Unanswered(q) /\ q # o BY <1>3, <1>7 DEF Unanswered
<1>10. EntriesFollow' BY <1>4, <1>5, <1>9 DEF TakeoverInv, EntriesFollow
<1>11. \A q \in Orders : Tells(q) => Tells(q)' BY <1>4, <1>5 DEF Tells, Clears
<1> QED BY <1>1, <1>8, <1>10, <1>11, ToldAgain DEF TakeoverInv

\* A command that arrives is told by its own entry, unless that is being given up.
LEMMA EffectKeeps == ASSUME TakeoverInv, NEW o \in Orders, TakeEffect(o) PROVE TakeoverInv'
<1>1. UNCHANGED <<control, done, stopping, startup>> /\ power' = TRUE /\ touched' = TRUE
      /\ Enter(o, "sent") /\ order[o] = "sending"
      /\ raced' = (raced \/ control[o].status # "acquired"
                     \/ \E s \in Stoppers : stopping[s].step # "none" /\ stopping[s].of = o)
  BY DEF TakeEffect
<1>2. "sent" \in Stages BY DEF Stages
<1>3. /\ order' \in [Orders -> Stages] /\ order'[o] = "sent"
      /\ \A q \in Orders \ {o} : order'[q] = order[q]
  BY <1>1, <1>2, Entered DEF TakeoverInv
<1>4. raced' \in BOOLEAN BY <1>1 DEF TakeoverInv, TakeoverType
<1>5. TakeoverType' BY <1>1, <1>3, <1>4 DEF TakeoverInv, TakeoverType
<1>6. EntriesFollow' BY <1>1, <1>3 DEF TakeoverInv, EntriesFollow, Unanswered
<1>7. ~raced' => Tells(o)' BY <1>1 DEF Tells, Clears
<1> QED BY <1>1, <1>5, <1>6, <1>7 DEF TakeoverInv, Witnessed, RestartClearsLatch

LEMMA SettleKeeps == ASSUME TakeoverInv, NEW o \in Orders, SettleOrder(o) PROVE TakeoverInv'
<1>1. UNCHANGED <<power, control, stopping, startup, touched, raced>> BY DEF SettleOrder
<1>2. PICK c \in BOOLEAN : AfterCommand(o, c) BY DEF SettleOrder
<1>3. order[o] \in {"sending", "sent"} BY DEF SettleOrder
<1>4. /\ order' \in [Orders -> Stages] /\ order'[o] \in {"ready", "releasing"}
      /\ \A q \in Orders \ {o} : order'[q] = order[q]
      /\ done' \in [Orders -> 0..Commands]
  BY <1>2, CommandLeft DEF TakeoverInv
<1>5. TakeoverType' BY <1>1, <1>4 DEF TakeoverInv, TakeoverType
<1>6. EntriesFollow' BY <1>1, <1>3, <1>4 DEF TakeoverInv, EntriesFollow, Unanswered
<1>7. \A q \in Orders : Tells(q) => Tells(q)' BY <1>1 DEF Tells, Clears
<1> QED BY <1>1, <1>5, <1>6, <1>7, ToldAgain DEF TakeoverInv

LEMMA ReleaseKeeps == ASSUME TakeoverInv, NEW o \in Orders, ReleaseControl(o) PROVE TakeoverInv'
<1>1. UNCHANGED <<power, control, done, startup, touched, raced>> BY DEF ReleaseControl
<1>2. PICK st \in {"yielding", "ended"} : Enter(o, st) BY DEF ReleaseControl
<1>3. order[o] = "releasing" BY DEF ReleaseControl
<1>4. /\ stopping' \in [Stoppers -> Stops]
      /\ \A s \in Stoppers : stopping'[s] = stopping[s]
                             \/ stopping'[s] = [of |-> o, step |-> "write", saw |-> FALSE]
  <2>1. CASE UNCHANGED stopping BY <2>1 DEF TakeoverInv, TakeoverType
  <2>2. CASE BeginStop(o, o)
    <3>1. o \in Stoppers BY DEF Stoppers
    <3> QED BY <2>2, <3>1, StopBegun DEF TakeoverInv
  <2> QED BY <2>1, <2>2 DEF ReleaseControl
<1>5. st \in Stages BY DEF Stages
<1>6. /\ order' \in [Orders -> Stages] /\ order'[o] = st
      /\ \A q \in Orders \ {o} : order'[q] = order[q]
  BY <1>2, <1>5, Entered DEF TakeoverInv
<1>7. TakeoverType' BY <1>1, <1>4, <1>6 DEF TakeoverInv, TakeoverType
<1>8. \A q \in Orders : Unanswered(q)' <=> Unanswered(q) /\ q # o BY <1>3, <1>6 DEF Unanswered
<1>9. EntriesFollow' BY <1>1, <1>4, <1>8 DEF TakeoverInv, EntriesFollow
<1>10. \A q \in Orders : Tells(q) => Tells(q)' BY <1>1, <1>4 DEF Tells, Clears
<1> QED BY <1>1, <1>7, <1>9, <1>10, ToldAgain DEF TakeoverInv

LEMMA SuperviseKeeps == ASSUME TakeoverInv, NEW o \in Orders, Supervise(o) PROVE TakeoverInv'
<1>1. UNCHANGED <<power, control, order, done, startup, touched, raced>>
      /\ control[o].status = "acquired" /\ BeginStop(Supervisor, o)
  BY DEF Supervise
<1>2. /\ stopping' \in [Stoppers -> Stops]
      /\ \A s \in Stoppers : stopping'[s] = stopping[s]
                             \/ stopping'[s] = [of |-> o, step |-> "write", saw |-> FALSE]
  <2>1. Supervisor \in Stoppers BY DEF Stoppers
  <2> QED BY <1>1, <2>1, StopBegun DEF TakeoverInv
<1>3. TakeoverType' BY <1>1, <1>2 DEF TakeoverInv, TakeoverType
<1>4. ~Unanswered(o) BY <1>1 DEF TakeoverInv, EntriesFollow
<1>5. EntriesFollow' BY <1>1, <1>2, <1>4 DEF TakeoverInv, EntriesFollow, Unanswered
<1>6. \A q \in Orders : Tells(q) => Tells(q)' BY <1>1, <1>2 DEF Tells, Clears
<1> QED BY <1>1, <1>3, <1>5, <1>6, ToldAgain DEF TakeoverInv

\* A stop that ends without having seen the actuator off leaves an entry that
\* tells; one that has seen it off takes an entry that does not.
LEMMA EndKeeps ==
    ASSUME TakeoverInv, NEW s \in Stoppers, stopping[s].step # "none",
           NEW st \in {"unknown", "released"}, EndStop(s, st),
           st = "released" => Clears(s, stopping[s].of),
           power' \in {power, FALSE}, UNCHANGED <<startup, touched, raced>>
    PROVE  TakeoverInv'
<1>1. /\ control' \in [Orders -> [status : Statuses, left : 0..LeaseLength]]
      /\ order' \in [Orders -> Stages] /\ done' \in [Orders -> 0..Commands]
      /\ stopping' \in [Stoppers -> Stops]
      /\ stopping[s].of \in Orders
      /\ control'[stopping[s].of].status = st
      /\ \A q \in Orders \ {stopping[s].of} : control'[q] = control[q]
      /\ stopping'[s].step = "none"
      /\ \A t \in Stoppers \ {s} : stopping'[t] = stopping[t]
      /\ \A q \in Orders : order'[q] = order[q] \/ order'[q] \in {"ready", "releasing", "ended"}
  <2>1. st \in Statuses BY DEF Statuses
  <2> QED BY <2>1, StopEnded DEF TakeoverInv
<1>2. TakeoverType' BY <1>1 DEF TakeoverInv, TakeoverType
<1>3. \A q \in Orders : Unanswered(q)' => Unanswered(q) BY <1>1 DEF Unanswered
<1>4. ~Unanswered(stopping[s].of) BY DEF TakeoverInv, EntriesFollow
<1>5. EntriesFollow'
  <2>1. \A q \in Orders : Unanswered(q)' => control'[q].status = "none"
    BY <1>1, <1>3, <1>4 DEF TakeoverInv, EntriesFollow
  <2>2. \A t \in Stoppers : stopping'[t].step # "none" =>
          stopping'[t].of \in Orders /\ order'[stopping'[t].of] \notin {"idle", "acquiring"}
    <3>1. TAKE t \in Stoppers
    <3>2. HAVE stopping'[t].step # "none"
    <3>3. stopping'[t] = stopping[t] BY <1>1, <3>2
    <3>4. stopping[t].of \in Orders /\ ~Unanswered(stopping[t].of)
      BY <3>2, <3>3 DEF TakeoverInv, EntriesFollow
    <3> QED BY <1>3, <3>3, <3>4 DEF Unanswered
  <2> QED BY <2>1, <2>2 DEF EntriesFollow, Unanswered
<1>6. \A q \in Orders : Tells(q) => Tells(q)'
  <2>1. TAKE q \in Orders
  <2>2. HAVE Tells(q)
  <2>3. control'[q].status \in {"acquired", "expired", "unknown"}
    BY <1>1, <2>2 DEF Tells
  <2>4. \A t \in Stoppers : ~Clears(t, q)' BY <1>1, <2>2 DEF Tells, Clears
  <2> QED BY <2>3, <2>4 DEF Tells
<1> QED BY <1>2, <1>5, <1>6, ToldAgain DEF TakeoverInv

LEMMA StopKeeps == ASSUME TakeoverInv, NEW s \in Stoppers, StopStep(s) PROVE TakeoverInv'
<1>1. CASE EndStop(s, "unknown") /\ stopping[s].step # "none"
           /\ power' \in {power, FALSE} /\ UNCHANGED <<startup, touched, raced>>
  BY <1>1, EndKeeps
<1>2. CASE StopJudge(s)
  <2>1. PICK st \in {"unknown", "released"} :
          EndStop(s, st) /\ (st = "released" => ~stopping[s].saw)
    BY <1>2 DEF StopJudge, StopProven
  <2>2. stopping[s].step = "judge" /\ UNCHANGED <<power, startup, touched, raced>>
    BY <1>2 DEF StopJudge
  <2>3. st = "released" => Clears(s, stopping[s].of) BY <2>1, <2>2 DEF Clears
  <2> QED BY <2>1, <2>2, <2>3, EndKeeps
<1>3. CASE /\ UNCHANGED <<control, order, done, startup, touched, raced>>
           /\ \/ /\ stopping' = [stopping EXCEPT ![s].step = "read"]
                 /\ stopping[s].step = "write" /\ power' \in {power, FALSE}
              \/ /\ stopping' = [stopping EXCEPT ![s] = [of |-> @.of, step |-> "judge", saw |-> power]]
                 /\ stopping[s].step = "read" /\ power' = power
  <2>1. power \in BOOLEAN /\ stopping \in [Stoppers -> Stops] BY DEF TakeoverInv, TakeoverType
  <2>2. stopping[s].step # "none" BY <1>3
  <2>3. PICK st \in {"read", "judge"}, b \in BOOLEAN :
          /\ stopping' = [stopping EXCEPT ![s] = [of |-> stopping[s].of, step |-> st, saw |-> b]]
          /\ st = "judge" => b = power /\ power' = power
    <3>1. stopping[s].saw \in BOOLEAN /\ stopping[s] \in Stops BY <2>1 DEF Stops
    <3>2. [stopping[s] EXCEPT !.step = "read"]
            = [of |-> stopping[s].of, step |-> "read", saw |-> stopping[s].saw]
      BY <3>1 DEF Stops
    <3> QED BY <1>3, <2>1, <3>1, <3>2
  <2>4. /\ stopping' \in [Stoppers -> Stops]
        /\ \A t \in Stoppers : stopping'[t].of = stopping[t].of
        /\ \A t \in Stoppers \ {s} : stopping'[t] = stopping[t]
        /\ stopping'[s].step = "judge" => stopping'[s].saw = power /\ power' = power
    <3>1. stopping[s].of \in Stoppers BY <2>1 DEF Stops
    <3>2. [of |-> stopping[s].of, step |-> st, saw |-> b] \in Stops BY <3>1 DEF Stops
    <3> QED BY <2>1, <2>3, <3>2
  <2>5. TakeoverType' BY <1>3, <2>1, <2>4 DEF TakeoverInv, TakeoverType
  <2>6. EntriesFollow'
    <3>1. \A t \in Stoppers : stopping'[t].step # "none" => stopping[t].step # "none"
      BY <2>2, <2>4
    <3> QED BY <1>3, <2>4, <3>1 DEF TakeoverInv, EntriesFollow, Unanswered
  <2>7. power' => \A q \in Orders : Tells(q) => Tells(q)' BY <1>3, <2>1, <2>4 DEF Tells, Clears
  <2> QED BY <1>3, <2>1, <2>5, <2>6, <2>7, ToldAgain DEF TakeoverInv
<1> QED BY <1>1, <1>2, <1>3 DEF StopStep, StopWrite, StopRead

LEMMA TickKeeps == ASSUME TakeoverInv, TakeoverTick PROVE TakeoverInv'
<1>1. UNCHANGED <<power, order, done, stopping, startup, touched, raced>> BY DEF TakeoverTick
<1>2. /\ control' \in [Orders -> [status : Statuses, left : 0..LeaseLength]]
      /\ \A q \in Orders : control'[q].status = control[q].status
  BY TakeoverAssumption DEF TakeoverTick, TakeoverInv, TakeoverType
<1>3. TakeoverType' BY <1>1, <1>2 DEF TakeoverInv, TakeoverType
<1>4. EntriesFollow' BY <1>1, <1>2 DEF TakeoverInv, EntriesFollow, Unanswered
<1>5. \A q \in Orders : Tells(q) => Tells(q)' BY <1>1, <1>2 DEF Tells, Clears
<1> QED BY <1>1, <1>3, <1>4, <1>5, ToldAgain DEF TakeoverInv

LEMMA RebootKeeps == ASSUME TakeoverInv, Reboot PROVE TakeoverInv'
<1>1. TakeoverType'
  <2>1. NoControl \in [status : Statuses, left : 0..LeaseLength] /\ 0 \in 0..Commands
    BY TakeoverAssumption DEF NoControl, Statuses
  <2>2. NoStop \in Stops BY DEF NoStop, Stops, Stoppers
  <2>3. order' \in [Orders -> Stages] BY DEF Reboot, Stages
  <2>4. power' \in BOOLEAN BY DEF Reboot, TakeoverInv, TakeoverType
  <2> QED BY <2>1, <2>2, <2>3, <2>4 DEF Reboot, TakeoverType
<1>2. EntriesFollow' BY DEF EntriesFollow, Reboot, NoControl, NoStop, Unanswered
<1> QED BY <1>1, <1>2 DEF TakeoverInv, Reboot, Witnessed, RestartClearsLatch

LEMMA TakeoverKeeps == TakeoverInv /\ [TakeoverNext]_takeoverVars => TakeoverInv'
<1> SUFFICES ASSUME TakeoverInv, [TakeoverNext]_takeoverVars PROVE TakeoverInv' OBVIOUS
<1>1. CASE UNCHANGED takeoverVars
  BY <1>1 DEF takeoverVars, TakeoverInv, TakeoverType, EntriesFollow, Unanswered, Witnessed, Tells,
              Clears, RestartClearsLatch
<1>2. CASE TakeoverNext
  BY <1>2, StartupKeeps, AcquireKeeps, AcquiredKeeps, SendKeeps, EffectKeeps, SettleKeeps,
     ReleaseKeeps, SuperviseKeeps, StopKeeps, TickKeeps, RebootKeeps
     DEF TakeoverNext
<1> QED BY <1>1, <1>2

-----------------------------------------------------------------------------
\* An actuator that is on is known to be on: an entry that is live, run out or
\* unknown tells of it at every moment, and after a restart no lease is given
\* before this process saw it off (acquire_for_plan, emergency_stop,
\* reconcile_startup).
THEOREM ActuatorIsKnown == TakeoverSpec => []LatchIsKnown
<1>1. TakeoverInv => LatchIsKnown
  BY DEF TakeoverInv, TakeoverType, TakeoverTypeOK, Stops, Witnessed, Tells, LatchIsKnown,
         LatchIsAccountedFor
<1>2. TakeoverInit => TakeoverInv BY TakeoverInitially
<1>3. TakeoverInv /\ [TakeoverNext]_takeoverVars => TakeoverInv' BY TakeoverKeeps
<1> QED BY <1>1, <1>2, <1>3, PTL DEF TakeoverSpec

-----------------------------------------------------------------------------
(* The inventory *)

Routes == [id : Ids, e : Entities, up : BOOLEAN]

Registries == [devs : [Ids -> Devices], ids : [Entities -> Ids \cup {NoId}],
               anchors : [Anchors -> Ids \cup {NoId}], routes : SUBSET Routes]

\* What holds of every registry value, halfway through a snapshot too.

NothingLeft(devs) == \A d \in Ids : devs[d].refs = {} => devs[d] = NoDevice

\* All of RegistryOK but the availability of devices.
Indexed(r) ==
    /\ r \in Registries /\ NothingLeft(r.devs)
    /\ \A t \in r.routes : r.ids[t.e] = t.id /\ t.e \in r.devs[t.id].refs
    /\ \A e \in Entities, d \in Ids : r.ids[e] = d => e \in r.devs[d].refs
    /\ \A t \in r.routes : r.devs[t.id].cap

AvailabilityTold(r) ==
    \A d \in Known(r) : RoutesOf(r, d) # {} =>
        (r.devs[d].avail <=> \E t \in RoutesOf(r, d) : t.up)

RegistryOK(r) == Indexed(r) /\ AvailabilityTold(r)

Single(r) == \A e \in Entities, d \in Ids : e \in r.devs[d].refs => r.ids[e] = d

\* Two source devices may be one when a source has named an entity (in N) of either.
May(x, y, N) == x = y \/ \E g \in N : DeviceOf[g] \in {x, y}

PairsTold(dev, N) == \A e, f \in dev.refs : May(DeviceOf[e], DeviceOf[f], N)

SourceAnchor(x) == <<"source", x>>
Origins == {DeviceOf[e] : e \in Entities}

\* Devices, and the identities that lead to them, join only what was said to be one.
MergesTold(r, N) ==
    /\ \A d \in Ids : PairsTold(r.devs[d], N)
    /\ \A x \in Origins, d \in Ids : r.anchors[SourceAnchor(x)] = d =>
         /\ \A f \in r.devs[d].refs : May(x, DeviceOf[f], N)
         /\ \A y \in Origins : r.anchors[SourceAnchor(y)] = d => May(x, y, N)

Live(r, L) == \A t \in r.routes : t.up => SourceOf[t.e] \in L

-----------------------------------------------------------------------------
(* What holds of the state *)

PendingDown == {s \in Sources : \E i \in DOMAIN notices : notices[i] = [src |-> s, up |-> FALSE]}
Reachable == linked \cup hushed \cup PendingDown

TaskType ==
    /\ task.op \in {"none", "refresh", "down", "up"}
    /\ task.at \in {"none", "ask", "prune", "states", "rows", "metadata", "read", "mark", "mutate"}
    /\ task.op = "none" <=> task.at = "none"
    /\ task.op = "refresh" => task.at \in {"ask", "prune", "states", "rows", "metadata"}
    /\ task.at = "ask" => task.op = "refresh"
    /\ task.asked \subseteq Sources /\ task.src \subseteq Sources
    /\ task.changed \in BOOLEAN
    /\ DOMAIN task = {"op", "at", "src", "asked", "digest", "changed", "todo"}

MetaType ==
    /\ meta.rev \in Nat /\ disk.rev \in Nat
    /\ before = << >> \/ (Len(before) = 1 /\ before[1].rev \in Nat)
    /\ commit.by \in {"nobody", "reader", "task"} /\ commit.meta.rev \in Nat

SourcesType ==
    /\ linked \subseteq Sources /\ hushed \subseteq Sources
    /\ notices \in Seq([src : Sources, up : BOOLEAN])

RowsTold ==
    /\ rows \in [Ids -> Devices] /\ NothingLeft(rows)
    /\ \A d \in Ids : PairsTold(rows[d], named)
    /\ \A t \in task.todo : /\ t \in Ids \X Devices /\ t[2].refs # {}
                            /\ PairsTold(t[2], named)

RegistryTold ==
    /\ RegistryOK(reg) /\ MergesTold(reg, named) /\ named \subseteq Entities
    /\ ~torn => Single(reg)

RoutesReach ==
    /\ Live(reg, Reachable)
    /\ task.at = "ask" => task.asked \subseteq Reachable

\* The route that a digest implies.
RouteIn(digest) ==
    LET able == {t \in digest.routes : t.e \in Writers} IN
    IF digest.dev.write /\ Cardinality(able) = 1 /\ \A t \in able : t.up
      THEN (CHOOSE t \in able : TRUE).e
      ELSE NoEntity

EvidenceTells ==
    evidence # NoEvidence =>
        /\ evidence.dev \in Ids /\ evidence.digest.dev.cap
        /\ evidence.max = evidence.digest.dev.max
        /\ evidence.route = RouteIn(evidence.digest)

Settled ==
    /\ meta.digest = InventoryDigest(reg) /\ rows = reg.devs /\ disk = meta /\ before = << >>
    /\ commit.by # "nobody" => commit.meta = meta

\* How far a refresh in which nothing has failed has come.
Settling ==
    /\ clean => task.at # "mutate"
    /\ clean /\ task.at \in {"none", "read", "mark"} => Settled
    /\ clean /\ task.at = "mark" => ~task.changed
    /\ clean /\ task.at \in {"states", "rows", "metadata"} =>
         /\ meta.digest = InventoryDigest(reg)
         /\ commit.by = "task" => commit.meta = meta
    /\ clean /\ task.at = "rows" =>
         /\ \A d \in Ids : rows[d] # reg.devs[d] => <<d, reg.devs[d]>> \in task.todo
         /\ \A t \in task.todo : t[2] = reg.devs[t[1]]
    /\ clean /\ task.at = "metadata" => rows = reg.devs
    /\ commit.by = "task" => task.at \in {"prune", "states", "mark", "metadata"}

InventoryInv ==
    /\ TaskType /\ MetaType /\ SourcesType
    /\ RegistryTold /\ RowsTold /\ RoutesReach /\ EvidenceTells /\ Settling
-----------------------------------------------------------------------------
(* What the registry's operators keep *)

LEMMA LeastNatural == ASSUME NEW S \in SUBSET Nat, S # {} PROVE \E m \in S : \A n \in S : m <= n
<1>1. \E R : R = OpToRel(<, Nat) /\ IsWellFoundedOn(R, Nat) BY NatLessThanWellFounded, Zenon
<1>2. PICK R : R = {ss \in Nat \X Nat : ss[1] < ss[2]} /\ IsWellFoundedOn(R, Nat)
  BY <1>1, Zenon DEF OpToRel
<1>3. PICK x \in S : \A y \in S : <<y, x>> \notin R BY <1>2, WFMin
<1>4. \A y \in S : y \in Nat /\ x \in Nat /\ ~(y < x) BY <1>2, <1>3
<1> QED BY <1>4

LEMMA NoDeviceIsOne == NoDevice \in Devices /\ NoDevice.refs = {} /\ ~NoDevice.cap
BY DEF NoDevice, Devices

LEMMA RegistryParts ==
    ASSUME NEW r \in Registries
    PROVE  /\ r.devs \in [Ids -> Devices] /\ r.ids \in [Entities -> Ids \cup {NoId}]
           /\ r.anchors \in [Anchors -> Ids \cup {NoId}] /\ r.routes \in SUBSET Routes
BY DEF Registries

\* Recomputing the availability changes nothing else.
LEMMA AvailabilityOnly ==
    ASSUME NEW r \in Registries, NEW q, q = WithAvailability(r)
    PROVE  /\ q \in Registries
           /\ q.ids = r.ids /\ q.anchors = r.anchors /\ q.routes = r.routes
           /\ \A d \in Ids : /\ q.devs[d].refs = r.devs[d].refs /\ q.devs[d].cap = r.devs[d].cap
                             /\ r.devs[d].refs = {} => q.devs[d] = r.devs[d]
           /\ AvailabilityTold(q)
<1> DEFINE new(d) == IF d \in Known(r) /\ RoutesOf(r, d) # {}
                       THEN [r.devs[d] EXCEPT !.avail = \E t \in RoutesOf(r, d) : t.up]
                       ELSE r.devs[d]
<1>0. r.devs \in [Ids -> Devices] BY RegistryParts
<1>1. ASSUME NEW d \in Ids
      PROVE  /\ new(d) \in Devices /\ new(d).refs = r.devs[d].refs /\ new(d).cap = r.devs[d].cap
             /\ r.devs[d].refs = {} => new(d) = r.devs[d]
             /\ r.devs[d].refs # {} /\ RoutesOf(r, d) # {} =>
                  (new(d).avail <=> \E t \in RoutesOf(r, d) : t.up)
  <2>1. r.devs[d] \in Devices BY <1>0
  <2>2. PICK b \in BOOLEAN : b = \E t \in RoutesOf(r, d) : t.up OBVIOUS
  <2>3. CASE d \in Known(r) /\ RoutesOf(r, d) # {}
    <3>1. new(d) = [r.devs[d] EXCEPT !.avail = b] BY <2>2, <2>3
    <3>2. r.devs[d].refs # {} BY <2>3 DEF Known
    <3> HIDE DEF new
    <3>3. new(d) \in Devices /\ new(d).refs = r.devs[d].refs /\ new(d).cap = r.devs[d].cap
          /\ new(d).avail = b
      BY <2>1, <3>1 DEF Devices
    <3> QED BY <2>2, <3>2, <3>3
  <2>4. CASE ~(d \in Known(r) /\ RoutesOf(r, d) # {})
    BY <2>1, <2>4 DEF Known
  <2> QED BY <2>3, <2>4
<1>2. q = [r EXCEPT !.devs = [d \in Ids |-> new(d)]] BY DEF WithAvailability
<1> HIDE DEF new
<1>3. PICK f : f = [d \in Ids |-> new(d)] OBVIOUS
<1>4. f \in [Ids -> Devices] /\ \A d \in Ids : f[d] = new(d) BY <1>1, <1>3
<1>5. q = [r EXCEPT !.devs = f] BY <1>2, <1>3
<1>6. q \in Registries /\ q.ids = r.ids /\ q.anchors = r.anchors /\ q.routes = r.routes /\ q.devs = f
  BY <1>4, <1>5 DEF Registries
<1>7. \A d \in Ids : RoutesOf(q, d) = RoutesOf(r, d) BY <1>6 DEF RoutesOf
<1>8. AvailabilityTold(q) BY <1>1, <1>4, <1>6, <1>7 DEF AvailabilityTold, Known
<1> QED BY <1>1, <1>4, <1>6, <1>8

LEMMA AvailabilityIndexed ==
    ASSUME NEW r, Indexed(r), NEW q, q = WithAvailability(r)
    PROVE  RegistryOK(q)
<1>1. r \in Registries BY DEF Indexed
<1>2. /\ q \in Registries
      /\ q.ids = r.ids /\ q.anchors = r.anchors /\ q.routes = r.routes
      /\ \A d \in Ids : /\ q.devs[d].refs = r.devs[d].refs /\ q.devs[d].cap = r.devs[d].cap
                        /\ r.devs[d].refs = {} => q.devs[d] = r.devs[d]
      /\ AvailabilityTold(q)
  BY <1>1, AvailabilityOnly
<1>3. \A t \in r.routes : t.id \in Ids BY <1>1, RegistryParts DEF Routes
<1> QED BY <1>2, <1>3 DEF RegistryOK, Indexed, NothingLeft

LEMMA AvailabilityRest ==
    ASSUME NEW r \in Registries, NEW N, NEW L, NEW q, q = WithAvailability(r)
    PROVE  /\ MergesTold(r, N) => MergesTold(q, N)
           /\ Single(r) => Single(q)
           /\ Live(r, L) => Live(q, L)
<1>2. /\ q.ids = r.ids /\ q.anchors = r.anchors /\ q.routes = r.routes
      /\ \A d \in Ids : q.devs[d].refs = r.devs[d].refs
  BY AvailabilityOnly
<1>3. MergesTold(r, N) => MergesTold(q, N) BY <1>2 DEF MergesTold, PairsTold
<1>4. Single(r) => Single(q) BY <1>2 DEF Single
<1>5. Live(r, L) => Live(q, L) BY <1>2 DEF Live
<1> QED BY <1>3, <1>4, <1>5

LEMMA MarkedKeeps ==
    ASSUME NEW r, RegistryOK(r), NEW S, NEW b \in BOOLEAN, NEW N, NEW L, NEW q, q = Marked(r, S, b)
    PROVE  /\ RegistryOK(q)
           /\ MergesTold(r, N) => MergesTold(q, N)
           /\ Single(r) => Single(q)
           /\ Live(r, L) /\ ~b => Live(q, L \ S)
           /\ Live(r, L) => Live(q, L \cup S)
<1> DEFINE new(t) == IF SourceOf[t.e] \in S THEN [t EXCEPT !.up = b] ELSE t
<1>1. r \in Registries /\ r.routes \in SUBSET Routes BY RegistryParts DEF RegistryOK, Indexed
<1>2. PICK R : R = {new(t) : t \in r.routes} OBVIOUS
<1>3. ASSUME NEW t \in r.routes
      PROVE  /\ new(t) \in Routes /\ new(t).id = t.id /\ new(t).e = t.e
             /\ SourceOf[t.e] \in S => new(t).up = b
             /\ SourceOf[t.e] \notin S => new(t).up = t.up
  <2>1. t \in Routes BY <1>1
  <2>2. CASE SourceOf[t.e] \in S
    <3>1. new(t) = [t EXCEPT !.up = b] BY <2>2
    <3> HIDE DEF new
    <3> QED BY <2>1, <2>2, <3>1 DEF Routes
  <2>3. CASE SourceOf[t.e] \notin S BY <2>1, <2>3
  <2> QED BY <2>2, <2>3
<1>4. PICK m : m = [r EXCEPT !.routes = R] OBVIOUS
<1>5. q = WithAvailability(m) BY <1>2, <1>4 DEF Marked
<1> HIDE DEF new
<1>6. R \in SUBSET Routes BY <1>2, <1>3
<1>7. m \in Registries /\ m.ids = r.ids /\ m.anchors = r.anchors /\ m.devs = r.devs /\ m.routes = R
  BY <1>1, <1>4, <1>6 DEF Registries
<1>8. Indexed(m)
  <2>1. \A t \in r.routes : r.ids[t.e] = t.id /\ t.e \in r.devs[t.id].refs /\ r.devs[t.id].cap
    BY DEF RegistryOK, Indexed
  <2>2. \A t \in R : r.ids[t.e] = t.id /\ t.e \in r.devs[t.id].refs /\ r.devs[t.id].cap
    BY <1>2, <1>3, <2>1
  <2> QED BY <1>7, <2>2 DEF RegistryOK, Indexed
<1>9. RegistryOK(q) BY <1>5, <1>8, AvailabilityIndexed
<1>10. MergesTold(r, N) => MergesTold(m, N) BY <1>7 DEF MergesTold
<1>11. Single(r) => Single(m) BY <1>7 DEF Single
<1>12. Live(r, L) /\ ~b => Live(m, L \ S) BY <1>2, <1>3, <1>7 DEF Live
<1>13. Live(r, L) => Live(m, L \cup S) BY <1>2, <1>3, <1>7 DEF Live
<1>14. /\ MergesTold(m, N) => MergesTold(q, N)
       /\ Single(m) => Single(q)
       /\ Live(m, L \ S) => Live(q, L \ S)
       /\ Live(m, L \cup S) => Live(q, L \cup S)
  BY <1>5, <1>7, AvailabilityRest
<1> QED BY <1>9, <1>10, <1>11, <1>12, <1>13, <1>14

LEMMA WithoutRefsKeeps ==
    ASSUME NEW r, RegistryOK(r), NEW gone, NEW N, NEW L, NEW q, q = WithoutRefs(r, gone)
    PROVE  /\ RegistryOK(q)
           /\ MergesTold(r, N) => MergesTold(q, N)
           /\ Single(r) => Single(q)
           /\ Live(r, L) => Live(q, L)
<1>1. /\ r \in Registries /\ r.routes \in SUBSET Routes /\ r.devs \in [Ids -> Devices]
      /\ r.ids \in [Entities -> Ids \cup {NoId}]
  BY RegistryParts DEF RegistryOK, Indexed
<1> DEFINE new(d) == IF r.devs[d].refs \subseteq gone THEN NoDevice
                     ELSE [r.devs[d] EXCEPT !.refs = r.devs[d].refs \ gone]
<1>2. PICK R : R = {t \in r.routes : t.e \notin gone} OBVIOUS
<1>3. PICK I : I = [e \in Entities |-> IF e \in gone THEN NoId ELSE r.ids[e]] OBVIOUS
<1>4. PICK D : D = [d \in Ids |-> new(d)] OBVIOUS
<1>5. PICK m : m = [r EXCEPT !.ids = I, !.routes = R, !.devs = D] OBVIOUS
<1>6. q = WithAvailability(m) BY <1>2, <1>3, <1>4, <1>5 DEF WithoutRefs
<1>7. ASSUME NEW d \in Ids
      PROVE  /\ new(d) \in Devices /\ new(d).refs = r.devs[d].refs \ gone
             /\ new(d).refs = {} => new(d) = NoDevice
             /\ new(d).refs # {} => new(d).cap = r.devs[d].cap
  <2>1. r.devs[d] \in Devices BY <1>1
  <2>2. CASE r.devs[d].refs \subseteq gone BY <2>2, NoDeviceIsOne
  <2>3. CASE ~(r.devs[d].refs \subseteq gone)
    <3>1. new(d) = [r.devs[d] EXCEPT !.refs = r.devs[d].refs \ gone] BY <2>3
    <3> HIDE DEF new
    <3>2. new(d) \in Devices /\ new(d).refs = r.devs[d].refs \ gone /\ new(d).cap = r.devs[d].cap
      BY <2>1, <3>1 DEF Devices
    <3> QED BY <2>3, <3>2
  <2> QED BY <2>2, <2>3
<1> HIDE DEF new
<1>8. D \in [Ids -> Devices] /\ \A d \in Ids : D[d] = new(d) BY <1>4, <1>7
<1>9. I \in [Entities -> Ids \cup {NoId}]
      /\ \A e \in Entities : I[e] = IF e \in gone THEN NoId ELSE r.ids[e]
  BY <1>1, <1>3
<1>10. R \in SUBSET Routes BY <1>1, <1>2
<1>11. m \in Registries /\ m.ids = I /\ m.anchors = r.anchors /\ m.devs = D /\ m.routes = R
  BY <1>1, <1>5, <1>8, <1>9, <1>10 DEF Registries
<1>12. Indexed(m)
  <2>1. NothingLeft(D) BY <1>7, <1>8 DEF NothingLeft
  <2>2. ASSUME NEW t \in R PROVE I[t.e] = t.id /\ t.e \in D[t.id].refs /\ D[t.id].cap
    <3>1. t \in r.routes /\ t.e \notin gone /\ t.id \in Ids /\ t.e \in Entities
      BY <1>2, <1>10 DEF Routes
    <3>2. r.ids[t.e] = t.id /\ t.e \in r.devs[t.id].refs /\ r.devs[t.id].cap
      BY <3>1 DEF RegistryOK, Indexed
    <3> QED BY <1>7, <1>8, <1>9, <3>1, <3>2
  <2>3. ASSUME NEW e \in Entities, NEW d \in Ids, I[e] = d PROVE e \in D[d].refs
    <3>1. e \notin gone /\ r.ids[e] = d BY <1>9, <2>3, InventoryAssumption
    <3>2. e \in r.devs[d].refs BY <3>1 DEF RegistryOK, Indexed
    <3> QED BY <1>7, <1>8, <3>1, <3>2
  <2> QED BY <1>11, <2>1, <2>2, <2>3 DEF Indexed
<1>13. RegistryOK(q) BY <1>6, <1>12, AvailabilityIndexed
<1>14. \A d \in Ids : D[d].refs = r.devs[d].refs \ gone BY <1>7, <1>8
<1>15. MergesTold(r, N) => MergesTold(m, N)
  BY <1>11, <1>14 DEF MergesTold, PairsTold
<1>16. Single(r) => Single(m) BY <1>9, <1>11, <1>14 DEF Single
<1>17. Live(r, L) => Live(m, L) BY <1>2, <1>11 DEF Live
<1>18. /\ MergesTold(m, N) => MergesTold(q, N)
       /\ Single(m) => Single(q)
       /\ Live(m, L) => Live(q, L)
  BY <1>6, <1>11, AvailabilityRest
<1> QED BY <1>13, <1>15, <1>16, <1>17, <1>18

LEMMA AnchorIsOne ==
    ASSUME NEW e \in Entities, NEW said \in Reports
    PROVE  /\ AnchorOf(e, said) \in Anchors
           /\ said.canon = NoName => AnchorOf(e, said) = SourceAnchor(DeviceOf[e])
           /\ said.canon # NoName => \A x \in Origins : AnchorOf(e, said) # SourceAnchor(x)
<1>1. said.canon \in Names \cup {NoName} BY DEF Reports
<1>2. CASE said.canon = NoName
  BY <1>2 DEF AnchorOf, Anchors, SourceAnchor, Origins
<1>3. CASE said.canon # NoName
  <2>1. AnchorOf(e, said) = <<"canonical", said.canon>> BY <1>3 DEF AnchorOf
  <2>2. \A x \in Origins : <<"canonical", said.canon>> # <<"source", x>> OBVIOUS
  <2>3. <<"canonical", said.canon>> \in Anchors BY <1>1, <1>3 DEF Anchors
  <2> QED BY <1>3, <2>1, <2>2, <2>3 DEF SourceAnchor
<1> QED BY <1>2, <1>3

LEMMA SourceAnchors == \A x \in Origins : SourceAnchor(x) \in Anchors
BY DEF SourceAnchor, Origins, Anchors

\* Where the identifier of an entity comes from.
Sought(r, e, said, d) ==
    \/ r.ids[e] = d
    \/ r.ids[e] = NoId /\ (said.canon # NoName \/ r.anchors[AnchorOf(e, said)] = d)
    \/ /\ r.ids[e] = NoId /\ r.devs[d].refs = {}
       /\ \A k \in Anchors : k # AnchorOf(e, said) => r.anchors[k] # d

LEMMA IdFound ==
    ASSUME NEW r \in Registries, NEW e \in Entities, NEW said \in Reports,
           NEW d, d = CanonicalId(r, e, said), d # NoId
    PROVE  d \in Ids /\ Sought(r, e, said, d)
<1>1. /\ r.devs \in [Ids -> Devices] /\ r.ids \in [Entities -> Ids \cup {NoId}]
      /\ r.anchors \in [Anchors -> Ids \cup {NoId}]
  BY RegistryParts
<1>2. PICK a \in Anchors : a = AnchorOf(e, said) BY AnchorIsOne
<1>3. CASE r.ids[e] # NoId
  <2>1. d = r.ids[e] BY <1>3 DEF CanonicalId
  <2> QED BY <1>1, <1>3, <2>1 DEF Sought
<1>4. CASE r.ids[e] = NoId /\ r.anchors[a] # NoId
  <2>1. d = r.anchors[a] BY <1>2, <1>4 DEF CanonicalId
  <2> QED BY <1>1, <1>2, <1>4, <2>1 DEF Sought
<1>5. CASE r.ids[e] = NoId /\ r.anchors[a] = NoId /\ said.canon # NoName
  <2>1. d = <<said.canon, 1>> BY <1>2, <1>5 DEF CanonicalId
  <2>2. said.canon \in Names BY <1>5 DEF Reports
  <2>3. 1 \in 1 .. MaxSuffix BY InventoryAssumption
  <2> QED BY <1>5, <2>1, <2>2, <2>3 DEF Sought, Ids
<1>6. CASE r.ids[e] = NoId /\ r.anchors[a] = NoId /\ said.canon = NoName
  <2>1. d = FirstFree(r, NameOf[e], a) BY <1>2, <1>6 DEF CanonicalId
  <2>2. PICK free : free = {n \in 1 .. MaxSuffix : <<NameOf[e], n>> \notin Taken(r, a)} OBVIOUS
  <2>3. free # {} /\ d = <<NameOf[e], Min(free)>> BY <2>1, <2>2 DEF FirstFree
  <2>4. free \in SUBSET Nat BY <2>2
  <2>5. PICK m \in free : \A n \in free : m <= n BY <2>3, <2>4, LeastNatural
  <2>6. Min(free) \in free BY <2>5, Zenon DEF Min
  <2>7. d \notin Taken(r, a) /\ Min(free) \in 1 .. MaxSuffix BY <2>2, <2>3, <2>6
  <2>8. d \in Ids BY <2>3, <2>7 DEF Ids, Names
  <2>9. d \notin Known(r) /\ \A k \in Anchors \ {a} : r.anchors[k] # d BY <2>7 DEF Taken
  <2>10. r.devs[d].refs = {} BY <2>8, <2>9 DEF Known
  <2> QED BY <1>2, <1>6, <2>8, <2>9, <2>10 DEF Sought
<1> QED BY <1>3, <1>4, <1>5, <1>6

\* Entity e may join device d.
JoinTold(r, d, e, N) ==
    /\ \A f \in r.devs[d].refs : May(DeviceOf[e], DeviceOf[f], N)
    /\ \A x \in Origins : r.anchors[SourceAnchor(x)] = d => May(x, DeviceOf[e], N)

LEMMA IdentityKept ==
    ASSUME NEW r, RegistryOK(r), NEW e \in Entities, NEW said \in Reports, NEW d \in Ids,
           Sought(r, e, said, d), NEW N, said.canon # NoName => e \in N, MergesTold(r, N), NEW L,
           NEW k, k = [r EXCEPT !.anchors = [r.anchors EXCEPT ![AnchorOf(e, said)] = d]]
    PROVE  /\ k.devs = r.devs /\ k.ids = r.ids /\ k.routes = r.routes
           /\ RegistryOK(k) /\ MergesTold(k, N) /\ JoinTold(k, d, e, N)
           /\ Single(r) => Single(k)
           /\ Live(r, L) => Live(k, L)
<1>1. /\ r \in Registries /\ r.anchors \in [Anchors -> Ids \cup {NoId}]
      /\ r.ids \in [Entities -> Ids \cup {NoId}] /\ r.devs \in [Ids -> Devices]
  BY RegistryParts DEF RegistryOK, Indexed
<1>2. PICK a \in Anchors : a = AnchorOf(e, said) BY AnchorIsOne
<1>3. PICK A : A = [r.anchors EXCEPT ![a] = d] OBVIOUS
<1>4. A \in [Anchors -> Ids \cup {NoId}] /\ A[a] = d /\ \A c \in Anchors : c # a => A[c] = r.anchors[c]
  BY <1>1, <1>3
<1>5. k = [r EXCEPT !.anchors = A] BY <1>2, <1>3
<1>6. k \in Registries /\ k.anchors = A /\ k.devs = r.devs /\ k.ids = r.ids /\ k.routes = r.routes
  BY <1>1, <1>4, <1>5 DEF Registries
<1>7. RegistryOK(k)
  <2>1. Indexed(k) BY <1>6 DEF RegistryOK, Indexed
  <2>2. AvailabilityTold(k) BY <1>6 DEF RegistryOK, AvailabilityTold, Known, RoutesOf
  <2> QED BY <2>1, <2>2 DEF RegistryOK
<1>8. DeviceOf[e] \in Origins BY DEF Origins
<1>9. \A x, y : May(x, y, N) => May(y, x, N) BY DEF May
<1>10. JoinTold(k, d, e, N)
  <2>1. CASE said.canon # NoName
    <3>1. e \in N BY <2>1
    <3> QED BY <3>1 DEF JoinTold, May
  <2>2. CASE said.canon = NoName
    <3>1. a = SourceAnchor(DeviceOf[e]) BY <1>2, <2>2, AnchorIsOne
    <3>2. \A x \in Origins : x # DeviceOf[e] => SourceAnchor(x) # a /\ SourceAnchor(x) \in Anchors
      BY <3>1, SourceAnchors DEF SourceAnchor
    <3>3. SUFFICES /\ \A f \in r.devs[d].refs : May(DeviceOf[e], DeviceOf[f], N)
                   /\ \A x \in Origins : x # DeviceOf[e] /\ r.anchors[SourceAnchor(x)] = d
                                           => May(x, DeviceOf[e], N)
      <4>1. \A x \in Origins : k.anchors[SourceAnchor(x)] = d => May(x, DeviceOf[e], N)
        <5>1. SUFFICES ASSUME NEW x \in Origins, k.anchors[SourceAnchor(x)] = d
                       PROVE  May(x, DeviceOf[e], N)
          OBVIOUS
        <5>2. CASE x = DeviceOf[e] BY <5>2 DEF May
        <5>3. CASE x # DeviceOf[e] BY <1>4, <1>6, <3>2, <3>3, <5>1, <5>3
        <5> QED BY <5>2, <5>3
      <4> QED BY <1>6, <3>3, <4>1 DEF JoinTold
    <3>4. CASE r.ids[e] = d
      <4>1. e \in r.devs[d].refs BY <3>4 DEF RegistryOK, Indexed
      <4> QED BY <4>1 DEF MergesTold, PairsTold
    <3>5. CASE r.anchors[a] = d
      BY <1>8, <1>9, <3>1, <3>5 DEF MergesTold
    <3>6. CASE r.devs[d].refs = {} /\ \A c \in Anchors : c # a => r.anchors[c] # d
      BY <3>2, <3>6
    <3> QED BY <1>2, <2>2, <3>4, <3>5, <3>6 DEF Sought
  <2> QED BY <2>1, <2>2
<1>11. MergesTold(k, N)
  <2>1. \A c \in Ids : PairsTold(k.devs[c], N) BY <1>6 DEF MergesTold
  <2>2. SUFFICES ASSUME NEW x \in Origins, NEW c \in Ids, k.anchors[SourceAnchor(x)] = c
                 PROVE  /\ \A f \in k.devs[c].refs : May(x, DeviceOf[f], N)
                        /\ \A y \in Origins : k.anchors[SourceAnchor(y)] = c => May(x, y, N)
    BY <2>1 DEF MergesTold
  <2>3. CASE said.canon # NoName
    <3>1. \A y \in Origins : SourceAnchor(y) # a /\ SourceAnchor(y) \in Anchors
      BY <1>2, <2>3, AnchorIsOne, SourceAnchors
    <3>2. \A y \in Origins : k.anchors[SourceAnchor(y)] = r.anchors[SourceAnchor(y)] BY <1>4, <1>6, <3>1
    <3> QED BY <1>6, <2>2, <3>2 DEF MergesTold
  <2>4. CASE said.canon = NoName
    <3>1. a = SourceAnchor(DeviceOf[e]) BY <1>2, <2>4, AnchorIsOne
    <3>2. \A y \in Origins : y # DeviceOf[e] => SourceAnchor(y) # a /\ SourceAnchor(y) \in Anchors
      BY <3>1, SourceAnchors DEF SourceAnchor
    <3>3. \A y \in Origins : y # DeviceOf[e] => k.anchors[SourceAnchor(y)] = r.anchors[SourceAnchor(y)]
      BY <1>4, <1>6, <3>2
    <3>4. k.anchors[SourceAnchor(DeviceOf[e])] = d BY <1>4, <1>6, <3>1
    <3>5. CASE x = DeviceOf[e]
      <4>1. c = d BY <2>2, <3>4, <3>5
      <4> QED BY <1>9, <1>10, <3>5, <4>1 DEF JoinTold
    <3>6. CASE x # DeviceOf[e]
      <4>1. r.anchors[SourceAnchor(x)] = c BY <2>2, <3>3, <3>6
      <4>2. \A f \in k.devs[c].refs : May(x, DeviceOf[f], N) BY <1>6, <4>1 DEF MergesTold
      <4>3. \A y \in Origins : y # DeviceOf[e] /\ k.anchors[SourceAnchor(y)] = c => May(x, y, N)
        BY <3>3, <4>1 DEF MergesTold
      <4>4. k.anchors[SourceAnchor(DeviceOf[e])] = c => May(x, DeviceOf[e], N)
        BY <1>10, <2>2, <3>4 DEF JoinTold
      <4> QED BY <4>2, <4>3, <4>4
    <3> QED BY <3>5, <3>6
  <2> QED BY <2>3, <2>4
<1>12. Single(r) => Single(k) BY <1>6 DEF Single
<1>13. Live(r, L) => Live(k, L) BY <1>6 DEF Live
<1> QED BY <1>6, <1>7, <1>10, <1>11, <1>12, <1>13

\* The registry without the entity's surface on d; the entity stays with d.
LEMMA SurfaceGone ==
    ASSUME NEW k, Indexed(k), NEW d \in Ids, NEW e \in Entities, NEW N, NEW L, NEW b,
           b = IF e \in k.devs[d].refs THEN WithoutSurface(k, d, e) ELSE k
    PROVE  /\ Indexed(b) /\ b.ids = k.ids /\ b.anchors = k.anchors
           /\ \A c \in Ids : b.devs[c].refs = k.devs[c].refs
           /\ b.routes = {t \in k.routes : ~(t.id = d /\ t.e = e)}
<1>1. /\ k \in Registries /\ k.devs \in [Ids -> Devices] /\ k.routes \in SUBSET Routes
  BY RegistryParts DEF Indexed
<1>2. PICK R : R = {t \in k.routes : ~(t.id = d /\ t.e = e)} OBVIOUS
<1>3. CASE e \notin k.devs[d].refs
  <2>1. b = k BY <1>3
  <2>2. \A t \in k.routes : ~(t.id = d /\ t.e = e) BY <1>3 DEF Indexed
  <2>3. b.routes = R BY <1>2, <2>1, <2>2
  <2> QED BY <1>2, <2>1, <2>3
<1>4. CASE e \in k.devs[d].refs /\ \E t \in R : t.id = d
  <2>1. b = [k EXCEPT !.routes = R, !.devs = k.devs] BY <1>2, <1>4 DEF WithoutSurface
  <2>2. b \in Registries /\ b.devs = k.devs /\ b.ids = k.ids /\ b.anchors = k.anchors /\ b.routes = R
    BY <1>1, <1>2, <2>1 DEF Registries
  <2>3. Indexed(b) BY <1>2, <2>2 DEF Indexed
  <2> QED BY <1>2, <2>2, <2>3
<1>5. CASE e \in k.devs[d].refs /\ ~\E t \in R : t.id = d
  <2>1. PICK v : v = [k.devs[d] EXCEPT !.cap = FALSE, !.max = 0, !.write = FALSE] OBVIOUS
  <2>2. v \in Devices /\ v.refs = k.devs[d].refs BY <1>1, <2>1 DEF Devices
  <2>3. PICK D : D = [k.devs EXCEPT ![d] = v] OBVIOUS
  <2>4. D \in [Ids -> Devices] /\ D[d] = v /\ \A c \in Ids : c # d => D[c] = k.devs[c]
    BY <1>1, <2>2, <2>3
  <2>5. b = [k EXCEPT !.routes = R, !.devs = D] BY <1>2, <1>5, <2>1, <2>3 DEF WithoutSurface
  <2>6. b \in Registries /\ b.devs = D /\ b.ids = k.ids /\ b.anchors = k.anchors /\ b.routes = R
    BY <1>1, <1>2, <2>4, <2>5 DEF Registries
  <2>7. \A c \in Ids : D[c].refs = k.devs[c].refs BY <2>2, <2>4
  <2>8. NothingLeft(D) BY <1>5, <2>2, <2>4 DEF Indexed, NothingLeft
  <2>9. \A t \in R : t.id \in Ids /\ t.id # d /\ t \in k.routes BY <1>1, <1>2, <1>5 DEF Routes
  <2>10. \A t \in R : k.ids[t.e] = t.id /\ t.e \in D[t.id].refs /\ D[t.id].cap
    BY <2>4, <2>9 DEF Indexed
  <2>11. \A f \in Entities, c \in Ids : k.ids[f] = c => f \in D[c].refs BY <2>7 DEF Indexed
  <2>12. Indexed(b) BY <2>6, <2>8, <2>10, <2>11 DEF Indexed
  <2> QED BY <1>2, <2>6, <2>7, <2>12
<1> QED BY <1>3, <1>4, <1>5

LEMMA MergedIsOne ==
    ASSUME NEW dev \in Devices, NEW e \in Entities, NEW said \in Reports
    PROVE  Merged(dev, e, said) \in Devices /\ Merged(dev, e, said).cap
<1>0. (e \in Writers) \in BOOLEAN BY SMT
<1>1. PICK w \in BOOLEAN : w = (e \in Writers) BY <1>0, Zenon
<1>2. PICK u \in BOOLEAN : u = (dev.write \/ e \in Writers) OBVIOUS
<1>3. said.max \in Nat /\ dev.max \in Nat BY DEF Reports, Devices
<1>4. PICK m \in Nat : m = IF dev.max # 0 THEN dev.max ELSE said.max BY <1>3
<1>5. CASE ~dev.cap
  <2>1. Merged(dev, e, said) = [dev EXCEPT !.cap = TRUE, !.max = said.max, !.write = w]
    BY <1>1, <1>5 DEF Merged
  <2> QED BY <1>3, <2>1 DEF Devices
<1>6. CASE dev.cap /\ Merged(dev, e, said) = dev BY <1>6
<1>7. CASE dev.cap /\ Merged(dev, e, said) # dev
  <2>1. Merged(dev, e, said) = [dev EXCEPT !.max = m, !.write = u] BY <1>2, <1>4, <1>7 DEF Merged
  <2> QED BY <1>7, <2>1 DEF Devices
<1> QED BY <1>5, <1>6, <1>7

LEMMA JoinedKeeps ==
    ASSUME NEW b, Indexed(b), NEW d \in Ids, NEW e \in Entities, NEW said \in Reports,
           b.ids[e] \in {d, NoId}, NEW N, MergesTold(b, N), JoinTold(b, d, e, N), NEW L,
           NEW j, j = Joined(b, d, e, said)
    PROVE  /\ Indexed(j) /\ MergesTold(j, N)
           /\ Single(b) => Single(j)
           /\ Live(b, L) /\ SourceOf[e] \in L => Live(j, L)
<1>1. /\ b \in Registries /\ b.devs \in [Ids -> Devices] /\ b.routes \in SUBSET Routes
      /\ b.ids \in [Entities -> Ids \cup {NoId}]
  BY RegistryParts DEF Indexed
<1>2. PICK m \in Devices : m = Merged(b.devs[d], e, said) /\ m.cap BY <1>1, MergedIsOne
<1>3. PICK F : F = b.devs[d].refs \cup {e} OBVIOUS
<1>4. PICK v : v = [m EXCEPT !.refs = F] OBVIOUS
<1>5. b.devs[d].refs \in SUBSET Entities BY <1>1 DEF Devices
<1>6. v \in Devices /\ v.refs = F /\ v.cap BY <1>2, <1>3, <1>4, <1>5 DEF Devices
<1>7. PICK D : D = [b.devs EXCEPT ![d] = v] OBVIOUS
<1>8. D \in [Ids -> Devices] /\ D[d] = v /\ \A c \in Ids : c # d => D[c] = b.devs[c]
  BY <1>1, <1>6, <1>7
<1>9. PICK I : I = [b.ids EXCEPT ![e] = d] OBVIOUS
<1>10. I \in [Entities -> Ids \cup {NoId}] /\ I[e] = d /\ \A f \in Entities : f # e => I[f] = b.ids[f]
  BY <1>1, <1>9
<1>11. PICK n : n = [id |-> d, e |-> e, up |-> said.up] OBVIOUS
<1>12. n \in Routes /\ n.id = d /\ n.e = e /\ n.up = said.up BY <1>11 DEF Routes, Reports
<1>13. PICK R : R = {t \in b.routes : ~(t.id = d /\ t.e = e)} \cup {n} OBVIOUS
<1>14. j = [b EXCEPT !.ids = I, !.devs = D, !.routes = R]
  BY <1>2, <1>3, <1>4, <1>7, <1>9, <1>11, <1>13 DEF Joined
<1>15. R \in SUBSET Routes BY <1>1, <1>12, <1>13
<1>16. j \in Registries /\ j.ids = I /\ j.devs = D /\ j.routes = R /\ j.anchors = b.anchors
  BY <1>1, <1>8, <1>10, <1>14, <1>15 DEF Registries
<1>17. Indexed(j)
  <2>1. NothingLeft(D) BY <1>3, <1>6, <1>8 DEF Indexed, NothingLeft
  <2>2. ASSUME NEW t \in R PROVE I[t.e] = t.id /\ t.e \in D[t.id].refs /\ D[t.id].cap
    <3>1. CASE t = n BY <1>3, <1>6, <1>8, <1>10, <1>12, <3>1
    <3>2. CASE t # n
      <4>1. t \in b.routes /\ ~(t.id = d /\ t.e = e) /\ t.id \in Ids /\ t.e \in Entities
        BY <1>1, <1>13, <3>2 DEF Routes
      <4>2. b.ids[t.e] = t.id /\ t.e \in b.devs[t.id].refs /\ b.devs[t.id].cap BY <4>1 DEF Indexed
      <4>3. t.e # e BY <4>1, <4>2, InventoryAssumption
      <4>4. CASE t.id = d BY <1>3, <1>6, <1>8, <1>10, <4>1, <4>2, <4>3, <4>4
      <4>5. CASE t.id # d BY <1>8, <1>10, <4>1, <4>2, <4>3, <4>5
      <4> QED BY <4>4, <4>5
    <3> QED BY <3>1, <3>2
  <2>3. ASSUME NEW f \in Entities, NEW c \in Ids, I[f] = c PROVE f \in D[c].refs
    <3>1. CASE f = e BY <1>3, <1>6, <1>8, <1>10, <2>3, <3>1
    <3>2. CASE f # e
      <4>1. f \in b.devs[c].refs BY <1>10, <2>3, <3>2 DEF Indexed
      <4> QED BY <1>3, <1>6, <1>8, <4>1
    <3> QED BY <3>1, <3>2
  <2> QED BY <1>16, <2>1, <2>2, <2>3 DEF Indexed
<1>18. \A x, y : May(x, y, N) => May(y, x, N) BY DEF May
<1>19. MergesTold(j, N)
  <2>1. PairsTold(v, N)
    <3>1. SUFFICES ASSUME NEW f \in F, NEW g \in F PROVE May(DeviceOf[f], DeviceOf[g], N)
      BY <1>6 DEF PairsTold
    <3>2. CASE f = e /\ g = e BY <3>2 DEF May
    <3>3. CASE f = e /\ g # e BY <1>3, <3>3 DEF JoinTold
    <3>4. CASE f # e /\ g = e BY <1>3, <1>18, <3>4 DEF JoinTold
    <3>5. CASE f # e /\ g # e BY <1>3, <3>5 DEF MergesTold, PairsTold
    <3> QED BY <3>2, <3>3, <3>4, <3>5
  <2>2. \A c \in Ids : PairsTold(D[c], N) BY <1>8, <2>1 DEF MergesTold
  <2>3. ASSUME NEW x \in Origins, NEW c \in Ids, b.anchors[SourceAnchor(x)] = c, NEW f \in D[c].refs
        PROVE  May(x, DeviceOf[f], N)
    <3>1. CASE f \in b.devs[c].refs BY <2>3, <3>1 DEF MergesTold
    <3>2. CASE f \notin b.devs[c].refs
      <4>1. c = d /\ f = e BY <1>3, <1>6, <1>8, <2>3, <3>2
      <4> QED BY <2>3, <4>1 DEF JoinTold
    <3> QED BY <3>1, <3>2
  <2>4. \A x, y \in Origins, c \in Ids :
           b.anchors[SourceAnchor(x)] = c /\ b.anchors[SourceAnchor(y)] = c => May(x, y, N)
    BY DEF MergesTold
  <2> QED BY <1>16, <2>2, <2>3, <2>4 DEF MergesTold
<1>20. ASSUME Single(b) PROVE Single(j)
  <2>1. SUFFICES ASSUME NEW f \in Entities, NEW c \in Ids, f \in D[c].refs PROVE I[f] = c
    BY <1>16 DEF Single
  <2>2. CASE f \in b.devs[c].refs
    <3>1. b.ids[f] = c BY <1>20, <2>2 DEF Single
    <3>2. f = e => c = d BY <3>1, InventoryAssumption
    <3> QED BY <1>10, <3>1, <3>2
  <2>3. CASE f \notin b.devs[c].refs
    <3>1. c = d /\ f = e BY <1>3, <1>6, <1>8, <2>1, <2>3
    <3> QED BY <1>10, <3>1
  <2> QED BY <2>2, <2>3
<1>21. Live(b, L) /\ SourceOf[e] \in L => Live(j, L) BY <1>12, <1>13, <1>16 DEF Live
<1> QED BY <1>17, <1>19, <1>20, <1>21

LEMMA UpsertKeeps ==
    ASSUME NEW r, RegistryOK(r), NEW e \in Entities, NEW said \in Reports,
           CanonicalId(r, e, said) # NoId,
           NEW N, said.canon # NoName => e \in N, MergesTold(r, N),
           NEW L, Live(r, L), SourceOf[e] \in L,
           NEW q, q = Upsert(r, e, said)
    PROVE  RegistryOK(q) /\ MergesTold(q, N) /\ Live(q, L) /\ (Single(r) => Single(q))
<1>1. PICK d : d = CanonicalId(r, e, said) OBVIOUS
<1>2. r \in Registries BY DEF RegistryOK, Indexed
<1>3. d \in Ids /\ Sought(r, e, said, d) BY <1>1, <1>2, IdFound
<1>4. PICK k : k = [r EXCEPT !.anchors = [r.anchors EXCEPT ![AnchorOf(e, said)] = d]] OBVIOUS
<1>5. /\ k.devs = r.devs /\ k.ids = r.ids /\ k.routes = r.routes
      /\ RegistryOK(k) /\ MergesTold(k, N) /\ JoinTold(k, d, e, N)
      /\ Single(r) => Single(k)
      /\ Live(k, L)
  BY <1>3, <1>4, IdentityKept
<1>6. CASE ~said.wellFormed
  <2>1. q = k BY <1>1, <1>4, <1>6 DEF Upsert
  <2> QED BY <1>5, <2>1
<1>7. CASE said.wellFormed
  <2>1. PICK b : b = IF e \in k.devs[d].refs THEN WithoutSurface(k, d, e) ELSE k OBVIOUS
  <2>2. Indexed(k) BY <1>5 DEF RegistryOK
  <2>3. /\ Indexed(b) /\ b.ids = k.ids /\ b.anchors = k.anchors
        /\ \A c \in Ids : b.devs[c].refs = k.devs[c].refs
        /\ b.routes = {t \in k.routes : ~(t.id = d /\ t.e = e)}
    BY <1>3, <2>1, <2>2, SurfaceGone
  <2>4. b.ids[e] \in {d, NoId} BY <1>3, <1>5, <2>3 DEF Sought
  <2>5. MergesTold(b, N) BY <1>5, <2>3 DEF MergesTold, PairsTold
  <2>6. JoinTold(b, d, e, N) BY <1>3, <1>5, <2>3 DEF JoinTold
  <2>7. Single(r) => Single(b) BY <1>5, <2>3 DEF Single
  <2>8. Live(b, L) BY <1>5, <2>3 DEF Live
  <2>9. PICK j : j = Joined(b, d, e, said) OBVIOUS
  <2>10. Indexed(j) /\ MergesTold(j, N) /\ (Single(b) => Single(j)) /\ Live(j, L)
    BY <1>3, <2>3, <2>4, <2>5, <2>6, <2>8, <2>9, JoinedKeeps
  <2>11. q = WithAvailability(j) BY <1>1, <1>4, <1>5, <1>7, <2>1, <2>9 DEF Upsert
  <2>12. RegistryOK(q) BY <2>10, <2>11, AvailabilityIndexed
  <2>13. j \in Registries BY <2>10 DEF Indexed
  <2>14. MergesTold(q, N) /\ (Single(j) => Single(q)) /\ Live(q, L)
    BY <2>10, <2>11, <2>13, AvailabilityRest
  <2> QED BY <2>7, <2>10, <2>12, <2>14
<1> QED BY <1>6, <1>7

\* The registry after i entities, from the one after i - 1.
After(f, i, r, said) ==
    IF i = 0 THEN r
    ELSE IF EntityOrder[i] \in DOMAIN said THEN Upsert(f[i - 1], EntityOrder[i], said[EntityOrder[i]])
    ELSE f[i - 1]

LEMMA FoldExists ==
    ASSUME NEW r, NEW said, NEW m \in Nat
    PROVE  \E f : f = [i \in 0 .. m |-> After(f, i, r, said)]
<1> DEFINE Missing == {n \in Nat : ~\E f : f = [i \in 0 .. n |-> After(f, i, r, said)]}
<1>1. SUFFICES Missing = {} OBVIOUS
<1>2. SUFFICES ASSUME Missing # {} PROVE FALSE OBVIOUS
<1>3. Missing \in SUBSET Nat OBVIOUS
<1>4. PICK n \in Missing : \A k \in Missing : n <= k BY <1>2, <1>3, LeastNatural
<1>5. n \in Nat /\ ~\E f : f = [i \in 0 .. n |-> After(f, i, r, said)] OBVIOUS
<1>6. CASE n = 0
  <2>1. PICK f : f = [i \in 0 .. n |-> r] OBVIOUS
  <2>2. \A i \in 0 .. n : After(f, i, r, said) = r BY <1>6 DEF After
  <2>3. f = [i \in 0 .. n |-> After(f, i, r, said)] BY <2>1, <2>2
  <2> QED BY <1>5, <2>3
<1>7. CASE n # 0
  <2>1. PICK k \in Nat : n = k + 1
    <3>1. n - 1 \in Nat /\ n = (n - 1) + 1 BY <1>5, <1>7
    <3> QED BY <3>1
  <2>2. k \notin Missing BY <1>4, <2>1
  <2>3. PICK f : f = [i \in 0 .. k |-> After(f, i, r, said)] BY <2>2
  <2> HIDE DEF Missing
  <2>4. PICK v : v = After(f, n, r, said) OBVIOUS
  <2>5. PICK g : g = [i \in 0 .. n |-> IF i = n THEN v ELSE f[i]] OBVIOUS
  <2>6. ASSUME NEW i \in 0 .. n PROVE After(g, i, r, said) = g[i]
    <3>1. CASE i = 0
      <4>1. 0 \in 0 .. k /\ i # n BY <2>1, <3>1
      <4>2. f[i] = After(f, i, r, said) BY <2>3, <3>1, <4>1
      <4> QED BY <2>5, <3>1, <4>1, <4>2 DEF After
    <3>2. CASE i # 0
      <4>1. i - 1 \in 0 .. n /\ i - 1 # n /\ i - 1 \in 0 .. k BY <2>1, <3>2
      <4>2. g[i - 1] = f[i - 1] BY <2>5, <4>1
      <4>3. After(g, i, r, said) = After(f, i, r, said) BY <3>2, <4>2 DEF After
      <4>4. CASE i = n BY <2>4, <2>5, <4>3, <4>4
      <4>5. CASE i # n
        <5>1. i \in 0 .. k BY <2>1, <4>5
        <5>2. f[i] = After(f, i, r, said) BY <2>3, <5>1
        <5> QED BY <2>5, <4>3, <4>5, <5>2
      <4> QED BY <4>4, <4>5
    <3> QED BY <3>1, <3>2
  <2>7. g = [i \in 0 .. n |-> After(g, i, r, said)] BY <2>5, <2>6
  <2> QED BY <1>5, <2>7
<1> QED BY <1>6, <1>7

LEMMA UpsertedIs ==
    ASSUME NEW r, NEW said
    PROVE  Upserted(r, said) = [i \in 0 .. Len(EntityOrder) |-> After(Upserted(r, said), i, r, said)]
<1>1. Len(EntityOrder) \in Nat BY InventoryAssumption
<1>2. \E f : f = [i \in 0 .. Len(EntityOrder) |-> After(f, i, r, said)] BY <1>1, FoldExists
<1>3. Upserted(r, said) = CHOOSE f : f = [i \in 0 .. Len(EntityOrder) |-> After(f, i, r, said)]
  BY Zenon DEF Upserted, After
<1> QED BY <1>2, <1>3, Zenon

LEMMA UpsertedKeeps ==
    ASSUME NEW r, RegistryOK(r), NEW said, DOMAIN said \subseteq Entities,
           \A e \in DOMAIN said : said[e] \in Reports, Numbered(r, said),
           NEW N, \A e \in DOMAIN said : said[e].canon # NoName => e \in N, MergesTold(r, N),
           NEW L, Live(r, L), \A e \in DOMAIN said : SourceOf[e] \in L,
           NEW q, q = Upserted(r, said)[Len(EntityOrder)]
    PROVE  RegistryOK(q) /\ MergesTold(q, N) /\ Live(q, L) /\ (Single(r) => Single(q))
<1> DEFINE Good(p) == RegistryOK(p) /\ MergesTold(p, N) /\ Live(p, L) /\ (Single(r) => Single(p))
<1>1. PICK m \in Nat : m = Len(EntityOrder) BY InventoryAssumption
<1>2. PICK f : f = Upserted(r, said) OBVIOUS
<1>3. f = [i \in 0 .. m |-> After(f, i, r, said)] BY <1>1, <1>2, UpsertedIs
<1> DEFINE Bad == {i \in 0 .. m : ~Good(f[i])}
<1>4. SUFFICES Bad = {}
  <2>1. m \in 0 .. m BY <1>1
  <2> QED BY <1>1, <1>2, <1>4, <2>1
<1>5. SUFFICES ASSUME Bad # {} PROVE FALSE OBVIOUS
<1>6. Bad \in SUBSET Nat OBVIOUS
<1>7. PICK i \in Bad : \A k \in Bad : i <= k BY <1>5, <1>6, LeastNatural
<1>8. i \in 0 .. m /\ ~Good(f[i]) OBVIOUS
<1>9. f[i] = After(f, i, r, said) BY <1>3, <1>8
<1>10. CASE i = 0
  <2>1. f[i] = r BY <1>9, <1>10 DEF After
  <2> QED BY <1>8, <2>1
<1>11. CASE i # 0
  <2>1. i - 1 \in 0 .. m /\ i - 1 < i /\ i \in 1 .. m BY <1>8, <1>11
  <2>2. i - 1 \notin Bad BY <1>7, <2>1
  <2>3. Good(f[i - 1]) BY <2>1, <2>2
  <2> HIDE DEF Bad
  <2>4. PICK e : e = EntityOrder[i] OBVIOUS
  <2>5. CASE e \notin DOMAIN said
    <3>1. f[i] = f[i - 1] BY <1>9, <1>11, <2>4, <2>5 DEF After
    <3> QED BY <1>8, <2>3, <3>1
  <2>6. CASE e \in DOMAIN said
    <3>1. f[i] = Upsert(f[i - 1], e, said[e]) BY <1>9, <1>11, <2>4, <2>6 DEF After
    <3>2. e \in Entities /\ said[e] \in Reports /\ SourceOf[e] \in L
          /\ (said[e].canon # NoName => e \in N)
      BY <2>6
    <3>3. CanonicalId(f[i - 1], e, said[e]) # NoId BY <1>1, <1>2, <2>1, <2>4, <2>6 DEF Numbered
    <3>4. PICK p : p = f[i - 1] OBVIOUS
    <3>5. PICK w : w = Upsert(p, e, said[e]) OBVIOUS
    <3>6. RegistryOK(p) /\ MergesTold(p, N) /\ Live(p, L) /\ (Single(r) => Single(p)) BY <2>3, <3>4
    <3>7. CanonicalId(p, e, said[e]) # NoId BY <3>3, <3>4
    <3>8. RegistryOK(w) /\ MergesTold(w, N) /\ Live(w, L) /\ (Single(p) => Single(w))
      BY <3>2, <3>5, <3>6, <3>7, UpsertKeeps
    <3>9. f[i] = w BY <3>1, <3>4, <3>5
    <3> QED BY <1>8, <3>6, <3>8, <3>9
  <2> QED BY <2>5, <2>6
<1> QED BY <1>10, <1>11

LEMMA AppliedKeeps ==
    ASSUME NEW r, RegistryOK(r), NEW said, DOMAIN said \subseteq Entities,
           \A e \in DOMAIN said : said[e] \in Reports, Numbered(r, said),
           NEW N, \A e \in DOMAIN said : said[e].canon # NoName => e \in N, MergesTold(r, N),
           NEW L, Live(r, L), \A e \in DOMAIN said : SourceOf[e] \in L,
           NEW failed, NEW q, q = Applied(r, [said |-> said, failed |-> failed])
    PROVE  RegistryOK(q) /\ MergesTold(q, N) /\ Live(q, L) /\ (Single(r) => Single(q))
<1>1. PICK w : w = Upserted(r, said)[Len(EntityOrder)] OBVIOUS
<1>2. RegistryOK(w) /\ MergesTold(w, N) /\ Live(w, L) /\ (Single(r) => Single(w))
  BY <1>1, UpsertedKeeps
<1>3. PICK answer : answer = [said |-> said, failed |-> failed] OBVIOUS
<1>4. q = Reconciled(w, answer) BY <1>1, <1>3 DEF Applied
<1>5. \E gone : q = w \/ q = WithoutRefs(w, gone) BY <1>4 DEF Reconciled
<1> QED BY <1>2, <1>5, WithoutRefsKeeps

LEMMA LoadedKeeps ==
    ASSUME NEW saved \in [Ids -> Devices], NothingLeft(saved), NEW N,
           \A d \in Ids : PairsTold(saved[d], N), NEW L, NEW q, q = Loaded(saved)
    PROVE  /\ RegistryOK(q) /\ MergesTold(q, N) /\ Live(q, L)
           /\ (\A e \in Entities : \A d, c \in Holders(saved, e) : c = d) => Single(q)
<1>1. ASSUME NEW e \in Entities, Holders(saved, e) # {}
      PROVE  HolderOf(saved, e) \in Ids /\ e \in saved[HolderOf(saved, e)].refs
  <2>1. HolderOf(saved, e) \in Holders(saved, e) BY <1>1 DEF HolderOf
  <2> QED BY <2>1 DEF Holders
<1>2. PICK I : I = [e \in Entities |-> IF Holders(saved, e) = {} THEN NoId ELSE HolderOf(saved, e)]
  OBVIOUS
<1>3. I \in [Entities -> Ids \cup {NoId}] BY <1>1, <1>2
<1>4. \A e \in Entities, d \in Ids : I[e] = d => e \in saved[d].refs
  BY <1>1, <1>2, InventoryAssumption
<1> DEFINE of(x) == CHOOSE e \in SavedOf(saved, x) : TRUE
           anchor(k) == IF k[1] = "source" /\ SavedOf(saved, k[2]) # {}
                          THEN HolderOf(saved, of(k[2])) ELSE NoId
<1>5. PICK A : A = [k \in Anchors |-> anchor(k)] OBVIOUS
<1>6. ASSUME NEW x, SavedOf(saved, x) # {}
      PROVE  of(x) \in Entities /\ DeviceOf[of(x)] = x /\ Holders(saved, of(x)) # {}
  <2>1. of(x) \in SavedOf(saved, x) BY <1>6
  <2> HIDE DEF of
  <2> QED BY <2>1 DEF SavedOf
<1> HIDE DEF of
<1>7. A \in [Anchors -> Ids \cup {NoId}] BY <1>1, <1>5, <1>6
<1>8. q = [devs |-> saved, ids |-> I, anchors |-> A, routes |-> {}] BY <1>2, <1>5 DEF Loaded, of
<1>9. q \in Registries /\ q.devs = saved /\ q.ids = I /\ q.anchors = A /\ q.routes = {}
  BY <1>3, <1>7, <1>8 DEF Registries
<1>10. RegistryOK(q)
  <2>1. Indexed(q) BY <1>4, <1>9 DEF Indexed
  <2>2. AvailabilityTold(q) BY <1>9 DEF AvailabilityTold, RoutesOf
  <2> QED BY <2>1, <2>2 DEF RegistryOK
<1>11. ASSUME NEW x \in Origins, NEW d \in Ids, A[SourceAnchor(x)] = d
       PROVE  of(x) \in saved[d].refs /\ DeviceOf[of(x)] = x
  <2>1. SourceAnchor(x) \in Anchors /\ SourceAnchor(x)[1] = "source" /\ SourceAnchor(x)[2] = x
    BY SourceAnchors DEF SourceAnchor
  <2>2. A[SourceAnchor(x)] = IF SavedOf(saved, x) # {} THEN HolderOf(saved, of(x)) ELSE NoId
    BY <1>5, <2>1
  <2>3. SavedOf(saved, x) # {} /\ d = HolderOf(saved, of(x)) BY <1>11, <2>2, InventoryAssumption
  <2> QED BY <1>1, <1>6, <2>3
<1>12. MergesTold(q, N)
  <2>1. ASSUME NEW x \in Origins, NEW d \in Ids, A[SourceAnchor(x)] = d, NEW f \in saved[d].refs
        PROVE  May(x, DeviceOf[f], N)
    <3>1. of(x) \in saved[d].refs /\ DeviceOf[of(x)] = x BY <1>11, <2>1
    <3>2. May(DeviceOf[of(x)], DeviceOf[f], N) BY <2>1, <3>1 DEF PairsTold
    <3> QED BY <3>1, <3>2
  <2>2. ASSUME NEW x \in Origins, NEW y \in Origins, NEW d \in Ids,
               A[SourceAnchor(x)] = d, A[SourceAnchor(y)] = d
        PROVE  May(x, y, N)
    <3>1. of(y) \in saved[d].refs /\ DeviceOf[of(y)] = y BY <1>11, <2>2
    <3>2. May(x, DeviceOf[of(y)], N) BY <2>1, <2>2, <3>1
    <3> QED BY <3>1, <3>2
  <2> QED BY <1>9, <2>1, <2>2 DEF MergesTold
<1>13. Live(q, L) BY <1>9 DEF Live
<1>14. ASSUME \A e \in Entities : \A d, c \in Holders(saved, e) : c = d PROVE Single(q)
  <2>1. SUFFICES ASSUME NEW e \in Entities, NEW d \in Ids, e \in saved[d].refs PROVE I[e] = d
    BY <1>9 DEF Single
  <2>2. d \in Holders(saved, e) BY <2>1 DEF Holders
  <2>3. HolderOf(saved, e) \in Holders(saved, e) BY <2>2 DEF HolderOf
  <2>4. HolderOf(saved, e) = d BY <1>14, <2>2, <2>3
  <2> QED BY <1>2, <2>2, <2>4
<1> QED BY <1>10, <1>12, <1>13, <1>14

-----------------------------------------------------------------------------
(* Sources *)

LEMMA SourcesFinite == IsFiniteSet(Sources)
<1>1. PICK m \in Nat : m = Len(EntityOrder) /\ DOMAIN EntityOrder = 1 .. m BY InventoryAssumption
<1>2. IsFiniteSet(1 .. m) BY <1>1, FS_Interval
<1>3. PICK f : f = [i \in 1 .. m |-> SourceOf[EntityOrder[i]]] OBVIOUS
<1>4. \A s \in Sources : \E i \in 1 .. m : f[i] = s BY <1>1, <1>3 DEF Sources, Entities
<1>5. f \in [1 .. m -> Sources] BY <1>1, <1>3 DEF Sources, Entities
<1>6. f \in Surjection(1 .. m, Sources) BY <1>4, <1>5 DEF Surjection
<1> QED BY <1>2, <1>6, FS_Surjection

LEMMA IsSequence ==
    ASSUME NEW M, NEW n \in Nat, NEW f \in [1 .. n -> M] PROVE f \in Seq(M) /\ DOMAIN f = 1 .. n
OBVIOUS

\* A consumer that failed tells of every source that it is down.
LEMMA AllDown ==
    ASSUME NEW S, S = {[src |-> s, up |-> FALSE] : s \in Sources}, NEW q, q = SetToSeq(S)
    PROVE  /\ q \in Seq([src : Sources, up : BOOLEAN])
           /\ \A s \in Sources : \E i \in DOMAIN q : q[i] = [src |-> s, up |-> FALSE]
<1>1. IsFiniteSet(S)
  <2>1. PICK f : f = [s \in Sources |-> [src |-> s, up |-> FALSE]] OBVIOUS
  <2>2. f \in Surjection(Sources, S) BY <2>1 DEF Surjection
  <2> QED BY <2>2, SourcesFinite, FS_Surjection
<1>2. PICK n \in Nat : n = Cardinality(S) BY <1>1, FS_CardinalityType
<1>3. ExistsBijection(1 .. n, S) BY <1>1, <1>2, FS_CardinalityType
<1>4. \E f \in [1 .. n -> S] : IsInjective(f)
  BY <1>3, Zenon DEF ExistsBijection, Bijection, Injection
<1>5. q \in [1 .. n -> S] /\ IsInjective(q) BY <1>2, <1>4, Zenon DEF SetToSeq
<1>6. q \in Injection(1 .. n, S) BY <1>5 DEF Injection
<1>7. Cardinality(1 .. n) = n BY <1>2, FS_Interval
<1>8. q \in Surjection(1 .. n, S) BY <1>1, <1>2, <1>6, <1>7, FS_Injection
<1>9. \A t \in S : \E i \in 1 .. n : q[i] = t BY <1>8 DEF Surjection
<1>10. S \subseteq [src : Sources, up : BOOLEAN]
  <2>1. ASSUME NEW s \in Sources PROVE [src |-> s, up |-> FALSE] \in [src : Sources, up : BOOLEAN]
    OBVIOUS
  <2> QED BY <2>1
<1>11. q \in [1 .. n -> [src : Sources, up : BOOLEAN]] BY <1>5, <1>10
<1>12. PICK M : M = [src : Sources, up : BOOLEAN] OBVIOUS
<1>13. q \in Seq(M) /\ DOMAIN q = 1 .. n
  <2>1. q \in [1 .. n -> M] BY <1>11, <1>12
  <2> QED BY <1>2, <2>1, IsSequence
<1>14. ASSUME NEW s \in Sources PROVE \E i \in DOMAIN q : q[i] = [src |-> s, up |-> FALSE]
  <2>1. [src |-> s, up |-> FALSE] \in S OBVIOUS
  <2> QED BY <1>9, <1>13, <2>1
<1> QED BY <1>12, <1>13, <1>14

-----------------------------------------------------------------------------
(* What a step leaves alone *)

LEMMA TaskWent ==
    ASSUME TaskType, NEW at, task' = [task EXCEPT !.at = at]
    PROVE  /\ DOMAIN task' = DOMAIN task /\ task'.at = at /\ task'.op = task.op /\ task'.src = task.src
           /\ task'.asked = task.asked /\ task'.changed = task.changed /\ task'.todo = task.todo
           /\ task'.digest = task.digest
BY DEF TaskType

LEMMA Resting == /\ NoTask.op = "none" /\ NoTask.at = "none" /\ NoTask.src = {} /\ NoTask.asked = {}
                 /\ NoTask.changed = FALSE /\ NoTask.todo = {}
                 /\ DOMAIN NoTask = {"op", "at", "src", "asked", "digest", "changed", "todo"}
BY DEF NoTask

LEMMA TaskRests == ASSUME task' = NoTask PROVE TaskType'
BY Resting DEF TaskType

LEMMA PairsGrow ==
    ASSUME NEW dev, NEW N, NEW M, N \subseteq M, PairsTold(dev, N) PROVE PairsTold(dev, M)
BY DEF PairsTold, May

LEMMA RegistryStays ==
    ASSUME RegistryTold, UNCHANGED <<reg, named, torn>> PROVE RegistryTold'
BY DEF RegistryTold

LEMMA RowsStay ==
    ASSUME RowsTold, rows' = rows, task'.todo \subseteq task.todo, named \subseteq named'
    PROVE  RowsTold'
<1>1. \A d \in Ids : PairsTold(rows[d], named) => PairsTold(rows[d], named') BY PairsGrow
<1>2. \A t \in task.todo : PairsTold(t[2], named) => PairsTold(t[2], named') BY PairsGrow
<1> QED BY <1>1, <1>2 DEF RowsTold

LEMMA LiveGrows == ASSUME NEW r, NEW L, NEW M, L \subseteq M, Live(r, L) PROVE Live(r, M)
BY DEF Live

LEMMA ReachStays ==
    ASSUME RoutesReach, reg' = reg, UNCHANGED <<linked, hushed, notices>>,
           task'.at = "ask" => task.at = "ask" /\ task'.asked = task.asked
    PROVE  RoutesReach'
<1>1. Reachable' = Reachable BY DEF Reachable, PendingDown
<1> QED BY <1>1 DEF RoutesReach

LEMMA EvidenceStays == ASSUME EvidenceTells, evidence' = evidence PROVE EvidenceTells'
BY DEF EvidenceTells

LEMMA MetaStays == ASSUME MetaType, UNCHANGED <<meta, disk, before, commit>> PROVE MetaType'
BY DEF MetaType

LEMMA SourcesStay == ASSUME SourcesType, UNCHANGED <<linked, hushed, notices>> PROVE SourcesType'
BY DEF SourcesType

-----------------------------------------------------------------------------
(* The reader's saves *)

LEMMA InventoryInitially == InventoryInit => InventoryInv
<1> SUFFICES ASSUME InventoryInit PROVE InventoryInv OBVIOUS
<1>1. TaskType BY Resting DEF InventoryInit, TaskType
<1>2. MetaType BY DEF InventoryInit, MetaType, NoCommitment
<1>3. SourcesType BY DEF InventoryInit, SourcesType
<1>4. rows \in [Ids -> Devices] /\ \A d \in Ids : rows[d] = NoDevice
  BY NoDeviceIsOne DEF InventoryInit
<1>5. RowsTold BY <1>4, Resting, NoDeviceIsOne DEF RowsTold, NothingLeft, PairsTold, InventoryInit
<1>6. /\ reg \in Registries /\ reg.devs = [d \in Ids |-> NoDevice] /\ reg.routes = {}
      /\ reg.ids = [e \in Entities |-> NoId] /\ reg.anchors = [k \in Anchors |-> NoId]
  BY NoDeviceIsOne DEF InventoryInit, EmptyRegistry, Registries
<1>7. RegistryOK(reg)
  <2>1. Indexed(reg) BY <1>6, InventoryAssumption, NoDeviceIsOne DEF Indexed, NothingLeft
  <2>2. AvailabilityTold(reg) BY <1>6 DEF AvailabilityTold, RoutesOf
  <2> QED BY <2>1, <2>2 DEF RegistryOK
<1>8. MergesTold(reg, named) BY <1>6, InventoryAssumption, NoDeviceIsOne, SourceAnchors
        DEF MergesTold, PairsTold
<1>9. Single(reg) BY <1>6, NoDeviceIsOne DEF Single
<1>10. RegistryTold BY <1>7, <1>8, <1>9 DEF RegistryTold, InventoryInit
<1>11. RoutesReach BY <1>6, Resting DEF RoutesReach, Live, InventoryInit
<1>12. EvidenceTells BY DEF EvidenceTells, InventoryInit
<1>13. Settling BY DEF Settling, InventoryInit, NoCommitment
<1> QED BY <1>1, <1>2, <1>3, <1>5, <1>10, <1>11, <1>12, <1>13 DEF InventoryInv

LEMMA ReaderSavesKeeps == ASSUME InventoryInv, ReaderSaves PROVE InventoryInv'
<1>1. UNCHANGED <<reg, meta, before, disk, rows, task, linked, notices, hushed, evidence,
                  named, clean, torn>>
  BY DEF ReaderSaves
<1>2. commit' = [by |-> "reader", meta |-> meta] BY DEF ReaderSaves, StartCommit
<1>3. TaskType' BY <1>1 DEF InventoryInv, TaskType
<1>4. MetaType' BY <1>1, <1>2 DEF InventoryInv, MetaType
<1>5. SourcesType' BY <1>1, SourcesStay DEF InventoryInv
<1>6. RegistryTold' BY <1>1, RegistryStays DEF InventoryInv
<1>7. RowsTold' BY <1>1, RowsStay DEF InventoryInv
<1>8. RoutesReach' BY <1>1, ReachStays DEF InventoryInv
<1>9. EvidenceTells' BY <1>1, EvidenceStays DEF InventoryInv
<1>10. Settling' BY <1>1, <1>2 DEF InventoryInv, Settling, Settled
<1> QED BY <1>3, <1>4, <1>5, <1>6, <1>7, <1>8, <1>9, <1>10 DEF InventoryInv

\* The end of a mutation, whoever began it.
LEMMA MetaEnds ==
    ASSUME MetaType, Installed \/ (RolledBack /\ UNCHANGED disk)
    PROVE  MetaType' /\ commit'.by = "nobody" /\ before' = << >>
<1>1. commit' = NoCommitment /\ before' = << >> BY DEF Installed, RolledBack
<1>2. commit'.by = "nobody" /\ commit'.meta.rev \in Nat BY <1>1 DEF NoCommitment
<1>3. meta'.rev \in Nat /\ disk'.rev \in Nat
  <2>1. CASE Installed BY <2>1 DEF Installed, MetaType
  <2>2. CASE RolledBack /\ UNCHANGED disk BY <2>2 DEF RolledBack, MetaType
  <2> QED BY <2>1, <2>2
<1> QED BY <1>1, <1>2, <1>3 DEF MetaType

LEMMA ReaderSavedKeeps == ASSUME InventoryInv, ReaderSaved PROVE InventoryInv'
<1>1. /\ UNCHANGED <<reg, rows, task, linked, notices, hushed, evidence, named, torn>>
      /\ commit.by = "reader" /\ clean' = (clean /\ meta' = meta)
      /\ Installed \/ (RolledBack /\ UNCHANGED disk)
  BY DEF ReaderSaved
<1>2. MetaType' /\ commit'.by = "nobody" /\ before' = << >> BY <1>1, MetaEnds DEF InventoryInv
<1>3. TaskType' BY <1>1 DEF InventoryInv, TaskType
<1>5. SourcesType' BY <1>1, SourcesStay DEF InventoryInv
<1>6. RegistryTold' BY <1>1, RegistryStays DEF InventoryInv
<1>7. RowsTold' BY <1>1, RowsStay DEF InventoryInv
<1>8. RoutesReach' BY <1>1, ReachStays DEF InventoryInv
<1>9. EvidenceTells' BY <1>1, EvidenceStays DEF InventoryInv
<1>10. ASSUME clean', Settled PROVE Settled'
  <2>1. meta' = meta BY <1>1, <1>10
  <2>2. disk' = meta
    <3>1. CASE Installed BY <1>1, <1>10, <3>1 DEF Installed, Settled
    <3>2. CASE UNCHANGED disk BY <1>10, <3>2 DEF Settled
    <3> QED BY <1>1, <3>1, <3>2
  <2> QED BY <1>1, <1>2, <1>10, <2>1, <2>2 DEF Settled
<1>11. clean' => clean /\ meta' = meta BY <1>1
<1>12. Settling' BY <1>1, <1>2, <1>10, <1>11 DEF InventoryInv, Settling
<1> QED BY <1>2, <1>3, <1>5, <1>6, <1>7, <1>8, <1>9, <1>12 DEF InventoryInv

-----------------------------------------------------------------------------
(* The refresh *)

LEMMA StartRefreshKeeps == ASSUME InventoryInv, StartRefresh PROVE InventoryInv'
<1>1. /\ UNCHANGED <<reg, meta, before, commit, disk, rows, linked, notices, hushed, evidence,
                     named, torn>>
      /\ task.op = "none" /\ clean'
      /\ task' = [NoTask EXCEPT !.op = "refresh", !.at = "ask", !.asked = linked]
  BY DEF StartRefresh
<1>2. /\ task'.op = "refresh" /\ task'.at = "ask" /\ task'.asked = linked /\ task'.src = {}
      /\ task'.todo = {} /\ task'.changed = FALSE
      /\ DOMAIN task' = {"op", "at", "src", "asked", "digest", "changed", "todo"}
  BY <1>1, Resting
<1>3. TaskType' BY <1>1, <1>2 DEF InventoryInv, TaskType, SourcesType
<1>4. MetaType' BY <1>1, MetaStays DEF InventoryInv
<1>5. SourcesType' BY <1>1, SourcesStay DEF InventoryInv
<1>6. RegistryTold' BY <1>1, RegistryStays DEF InventoryInv
<1>7. RowsTold' BY <1>1, <1>2, RowsStay DEF InventoryInv
<1>8. RoutesReach'
  <2>1. Reachable' = Reachable /\ linked \subseteq Reachable BY <1>1 DEF Reachable, PendingDown
  <2> QED BY <1>1, <1>2, <2>1 DEF InventoryInv, RoutesReach
<1>9. EvidenceTells' BY <1>1, EvidenceStays DEF InventoryInv
<1>10. commit.by # "task" BY <1>1 DEF InventoryInv, Settling, TaskType
<1>11. Settling' BY <1>1, <1>2, <1>10 DEF Settling
<1> QED BY <1>3, <1>4, <1>5, <1>6, <1>7, <1>8, <1>9, <1>11 DEF InventoryInv

LEMMA TaskSavesKeeps == ASSUME InventoryInv, TaskSaves PROVE InventoryInv'
<1>1. /\ UNCHANGED <<reg, meta, before, disk, rows, task, linked, notices, hushed, evidence,
                     named, clean, torn>>
      /\ commit' = [by |-> "task", meta |-> meta]
      /\ task.at \in {"prune", "states", "mark", "metadata"}
  BY DEF TaskSaves, StartCommit
<1>3. TaskType' BY <1>1 DEF InventoryInv, TaskType
<1>4. MetaType' BY <1>1 DEF InventoryInv, MetaType
<1>5. SourcesType' BY <1>1, SourcesStay DEF InventoryInv
<1>6. RegistryTold' BY <1>1, RegistryStays DEF InventoryInv
<1>7. RowsTold' BY <1>1, RowsStay DEF InventoryInv
<1>8. RoutesReach' BY <1>1, ReachStays DEF InventoryInv
<1>9. EvidenceTells' BY <1>1, EvidenceStays DEF InventoryInv
<1>10. Settling' BY <1>1 DEF InventoryInv, Settling, Settled
<1> QED BY <1>3, <1>4, <1>5, <1>6, <1>7, <1>8, <1>9, <1>10 DEF InventoryInv

\* A task that raises.
LEMMA EndTaskKeeps ==
    ASSUME InventoryInv, EndTask, UNCHANGED <<reg, linked, hushed, rows, named>>
    PROVE  /\ TaskType' /\ SourcesType' /\ RowsTold' /\ RoutesReach'
           /\ clean' = FALSE /\ task' = NoTask
<1>1. task' = NoTask /\ clean' = FALSE BY DEF EndTask
<1>2. TaskType' BY <1>1, TaskRests
<1>3. RowsTold' BY <1>1, Resting, RowsStay DEF InventoryInv
<1>4. SourcesType' /\ PendingDown \subseteq PendingDown'
  <2>1. CASE task.op = "refresh"
    <3>1. notices' = notices BY <2>1 DEF EndTask
    <3> QED BY <3>1 DEF InventoryInv, SourcesType, PendingDown
  <2>2. CASE task.op # "refresh"
    <3>1. PICK S : S = {[src |-> s, up |-> FALSE] : s \in Sources} OBVIOUS
    <3>2. PICK q : q = SetToSeq(S) OBVIOUS
    <3>3. notices' = q BY <2>2, <3>1, <3>2 DEF EndTask
    <3>4. /\ q \in Seq([src : Sources, up : BOOLEAN])
          /\ \A s \in Sources : \E i \in DOMAIN q : q[i] = [src |-> s, up |-> FALSE]
      BY <3>1, <3>2, AllDown
    <3> QED BY <3>3, <3>4 DEF InventoryInv, SourcesType, PendingDown
  <2> QED BY <2>1, <2>2
<1>5. Reachable \subseteq Reachable' BY <1>4 DEF Reachable
<1>6. Live(reg, Reachable) BY DEF InventoryInv, RoutesReach
<1>7. Live(reg, Reachable') BY <1>5, <1>6, LiveGrows
<1>8. RoutesReach' BY <1>1, <1>7, Resting DEF RoutesReach
<1> QED BY <1>1, <1>2, <1>3, <1>4, <1>8

LEMMA TaskFailsKeeps == ASSUME InventoryInv, TaskFails PROVE InventoryInv'
<1>1. /\ UNCHANGED <<reg, meta, before, commit, disk, rows, linked, hushed, evidence, named, torn>>
      /\ EndTask /\ commit.by # "task"
  BY DEF TaskFails
<1>2. /\ TaskType' /\ SourcesType' /\ RowsTold' /\ RoutesReach' /\ clean' = FALSE /\ task' = NoTask
  BY <1>1, EndTaskKeeps
<1>4. MetaType' BY <1>1, MetaStays DEF InventoryInv
<1>6. RegistryTold' BY <1>1, RegistryStays DEF InventoryInv
<1>9. EvidenceTells' BY <1>1, EvidenceStays DEF InventoryInv
<1>10. Settling' BY <1>1, <1>2 DEF Settling
<1> QED BY <1>2, <1>4, <1>6, <1>9, <1>10 DEF InventoryInv

LEMMA TaskSavedKeeps == ASSUME InventoryInv, TaskSaved PROVE InventoryInv'
<1>1. /\ UNCHANGED <<reg, rows, linked, hushed, evidence, named, torn>> /\ commit.by = "task"
      /\ Installed \/ (RolledBack /\ UNCHANGED disk)
  BY DEF TaskSaved
<1>2. MetaType' /\ commit'.by = "nobody" /\ before' = << >> BY <1>1, MetaEnds DEF InventoryInv
<1>6. RegistryTold' BY <1>1, RegistryStays DEF InventoryInv
<1>9. EvidenceTells' BY <1>1, EvidenceStays DEF InventoryInv
<1>10. CASE EndTask
  <2>1. /\ TaskType' /\ SourcesType' /\ RowsTold' /\ RoutesReach' /\ clean' = FALSE
    BY <1>1, <1>10, EndTaskKeeps
  <2>2. Settling' BY <1>2, <2>1 DEF Settling
  <2> QED BY <1>2, <1>6, <1>9, <2>1, <2>2 DEF InventoryInv
<1>11. CASE ~EndTask
  <2>1. /\ Installed /\ UNCHANGED <<clean, notices>>
        /\ task' = IF task.at = "metadata" \/ (task.at = "mark" /\ ~task.changed) THEN NoTask
                   ELSE IF task.at = "mark" THEN [task EXCEPT !.at = "mutate"]
                   ELSE task
    BY <1>11 DEF TaskSaved
  <2>2. meta' = commit.meta /\ disk' = commit.meta BY <2>1 DEF Installed
  <2>3. SourcesType' BY <1>1, <2>1, SourcesStay DEF InventoryInv
  <2>4. task.at \in {"prune", "states", "mark", "metadata"} /\ TaskType /\ Settling
    BY <1>1 DEF InventoryInv, Settling
  <2>5. CASE task' = NoTask /\ (task.at = "metadata" \/ (task.at = "mark" /\ ~task.changed))
    <3>1. TaskType' BY <2>5, TaskRests
    <3>2. RowsTold' BY <1>1, <2>5, Resting, RowsStay DEF InventoryInv
    <3>3. RoutesReach' BY <1>1, <2>1, <2>5, Resting, ReachStays DEF InventoryInv
    <3>4. ASSUME clean PROVE Settled'
      <4>1. meta.digest = InventoryDigest(reg) /\ rows = reg.devs /\ commit.meta = meta
        BY <1>1, <2>4, <2>5, <3>4 DEF Settling, Settled
      <4> QED BY <1>1, <1>2, <2>2, <4>1 DEF Settled
    <3>5. Settling' BY <1>2, <2>1, <2>5, <3>4, Resting DEF Settling
    <3> QED BY <1>2, <1>6, <1>9, <2>3, <3>1, <3>2, <3>3, <3>5 DEF InventoryInv
  <2>6. CASE task' = [task EXCEPT !.at = "mutate"] /\ task.at = "mark" /\ task.changed
    <3>1. PICK at : at = "mutate" OBVIOUS
    <3>2. /\ DOMAIN task' = DOMAIN task /\ task'.at = "mutate" /\ task'.op = task.op
          /\ task'.src = task.src /\ task'.asked = task.asked /\ task'.changed = task.changed
          /\ task'.todo = task.todo
      BY <2>4, <2>6, <3>1, TaskWent
    <3>3. TaskType' BY <2>4, <2>6, <3>2 DEF TaskType
    <3>4. RowsTold' BY <1>1, <3>2, RowsStay DEF InventoryInv
    <3>5. RoutesReach' BY <1>1, <2>1, <3>2, ReachStays DEF InventoryInv
    <3>6. ~clean BY <2>4, <2>6 DEF Settling
    <3>7. Settling' BY <1>2, <2>1, <3>6 DEF Settling
    <3> QED BY <1>2, <1>6, <1>9, <2>3, <3>3, <3>4, <3>5, <3>7 DEF InventoryInv
  <2>7. CASE task' = task /\ task.at \in {"prune", "states"}
    <3>1. TaskType' BY <2>4, <2>7 DEF TaskType
    <3>2. RowsTold' BY <1>1, <2>7, RowsStay DEF InventoryInv
    <3>3. RoutesReach' BY <1>1, <2>1, <2>7, ReachStays DEF InventoryInv
    <3>4. clean /\ task.at = "states" => meta' = meta BY <1>1, <2>2, <2>4 DEF Settling
    <3>5. clean /\ task.at = "states" => meta.digest = InventoryDigest(reg) BY <2>4 DEF Settling
    <3>6. Settling' BY <1>1, <1>2, <2>1, <2>7, <3>4, <3>5 DEF Settling
    <3> QED BY <1>2, <1>6, <1>9, <2>3, <3>1, <3>2, <3>3, <3>6 DEF InventoryInv
  <2> QED
    <3>1. task.changed \in BOOLEAN BY <2>4 DEF TaskType
    <3> QED BY <2>1, <2>4, <2>5, <2>6, <2>7, <3>1
<1> QED BY <1>10, <1>11

LEMMA MergesGrow ==
    ASSUME NEW r, NEW N, NEW M, N \subseteq M, MergesTold(r, N) PROVE MergesTold(r, M)
<1>1. \A x, y : May(x, y, N) => May(x, y, M) BY DEF May
<1> QED BY <1>1 DEF MergesTold, PairsTold

\* What a source says arrives as it was said.
LEMMA AnswerHeard ==
    ASSUME NEW failed, NEW said \in Answers(failed)
    PROVE  /\ DOMAIN said \subseteq Entities
           /\ \A e \in DOMAIN said : said[e] \in Reports /\ SourceOf[e] \in task.asked \ failed
<1>1. PICK full \in Snapshots : said = Restrict(full, {e \in DOMAIN full : SourceOf[e] \in task.asked \ failed})
  BY DEF Answers
<1>2. DOMAIN full \subseteq Entities /\ \A e \in DOMAIN full : full[e] \in Reports
  BY InventoryAssumption
<1>3. PICK S : S = {e \in DOMAIN full : SourceOf[e] \in task.asked \ failed} OBVIOUS
<1>4. said = [x \in S |-> full[x]] BY <1>1, <1>3 DEF Restrict
<1> QED BY <1>2, <1>3, <1>4

LEMMA AnsweredKeeps == ASSUME InventoryInv, Answered PROVE InventoryInv'
<1>1. /\ UNCHANGED <<meta, before, commit, disk, rows, notices, hushed, evidence, torn>>
      /\ task.op = "refresh" /\ task.at = "ask"
  BY DEF Answered
<1>2. PICK failed \in SUBSET task.asked :
         /\ linked' = linked \ failed
         /\ IF failed = task.asked
              THEN /\ reg' = Marked(reg, failed, FALSE)
                   /\ task' = NoTask /\ clean' = FALSE
                   /\ UNCHANGED named
              ELSE \E said \in Answers(failed) :
                     /\ Numbered(Marked(reg, failed, FALSE), said)
                     /\ reg' = Applied(Marked(reg, failed, FALSE), [said |-> said, failed |-> failed])
                     /\ named' = named \cup {e \in DOMAIN said : said[e].canon # NoName}
                     /\ task' = [task EXCEPT !.at = "prune",
                                   !.digest = IF meta.digest = NoDigest THEN InventoryDigest(reg) ELSE meta.digest]
                     /\ UNCHANGED clean
  BY DEF Answered
<1>3. PICK m : m = Marked(reg, failed, FALSE) OBVIOUS
<1>4. RegistryOK(reg) /\ MergesTold(reg, named) /\ named \subseteq Entities /\ (~torn => Single(reg))
      /\ Live(reg, Reachable) /\ task.asked \subseteq Reachable
  BY <1>1 DEF InventoryInv, RegistryTold, RoutesReach
<1>5. RegistryOK(m) /\ MergesTold(m, named) /\ (Single(reg) => Single(m)) /\ Live(m, Reachable \ failed)
  BY <1>3, <1>4, MarkedKeeps
<1>6. Reachable \ failed \subseteq Reachable' BY <1>1, <1>2 DEF Reachable, PendingDown
<1>7. Live(m, Reachable') BY <1>5, <1>6, LiveGrows
<1>8. MetaType' BY <1>1, MetaStays DEF InventoryInv
<1>9. SourcesType' BY <1>1, <1>2 DEF InventoryInv, SourcesType
<1>10. EvidenceTells' BY <1>1, EvidenceStays DEF InventoryInv
<1>11. commit.by # "task" BY <1>1 DEF InventoryInv, Settling
<1>12. CASE failed = task.asked
  <2>1. reg' = m /\ task' = NoTask /\ clean' = FALSE /\ named' = named BY <1>2, <1>3, <1>12
  <2>2. TaskType' BY <2>1, TaskRests
  <2>3. RowsTold' BY <1>1, <2>1, Resting, RowsStay DEF InventoryInv
  <2>4. RegistryTold' BY <1>1, <1>4, <1>5, <2>1 DEF RegistryTold
  <2>5. RoutesReach' BY <1>7, <2>1, Resting DEF RoutesReach
  <2>6. Settling' BY <1>1, <1>11, <2>1 DEF Settling
  <2> QED BY <1>8, <1>9, <1>10, <2>2, <2>3, <2>4, <2>5, <2>6 DEF InventoryInv
<1>13. CASE failed # task.asked
  <2>1. PICK said \in Answers(failed) :
           /\ Numbered(m, said)
           /\ reg' = Applied(m, [said |-> said, failed |-> failed])
           /\ named' = named \cup {e \in DOMAIN said : said[e].canon # NoName}
           /\ task' = [task EXCEPT !.at = "prune",
                         !.digest = IF meta.digest = NoDigest THEN InventoryDigest(reg) ELSE meta.digest]
           /\ UNCHANGED clean
    BY <1>2, <1>3, <1>13
  <2>2. /\ DOMAIN said \subseteq Entities
        /\ \A e \in DOMAIN said : said[e] \in Reports /\ SourceOf[e] \in task.asked \ failed
    BY AnswerHeard
  <2>3. PICK N : N = named \cup {e \in DOMAIN said : said[e].canon # NoName} OBVIOUS
  <2>4. /\ named \subseteq N /\ N \subseteq Entities /\ named' = N
        /\ \A e \in DOMAIN said : said[e].canon # NoName => e \in N
    BY <1>4, <2>1, <2>2, <2>3
  <2>5. PICK L : L = Reachable' OBVIOUS
  <2>6. \A e \in DOMAIN said : SourceOf[e] \in L BY <1>4, <1>6, <2>2, <2>5
  <2>7. MergesTold(m, N) BY <1>5, <2>4, MergesGrow
  <2>8. Live(m, L) BY <1>7, <2>5
  <2>9. PICK q : q = Applied(m, [said |-> said, failed |-> failed]) OBVIOUS
  <2>10. \A e \in DOMAIN said : said[e] \in Reports BY <2>2
  <2>11. RegistryOK(q) /\ MergesTold(q, N) /\ Live(q, L) /\ (Single(m) => Single(q))
    BY <1>5, <2>1, <2>2, <2>4, <2>6, <2>7, <2>8, <2>9, <2>10, AppliedKeeps
  <2>12. reg' = q BY <2>1, <2>9
  <2>13. RegistryTold' BY <1>1, <1>4, <1>5, <2>4, <2>11, <2>12 DEF RegistryTold
  <2>14. /\ DOMAIN task' = DOMAIN task /\ task'.at = "prune" /\ task'.op = task.op
         /\ task'.src = task.src /\ task'.asked = task.asked /\ task'.changed = task.changed
         /\ task'.todo = task.todo
    BY <2>1 DEF InventoryInv, TaskType
  <2>15. TaskType' BY <1>1, <2>14 DEF InventoryInv, TaskType
  <2>16. RoutesReach' BY <2>5, <2>11, <2>12, <2>14 DEF RoutesReach
  <2>17. RowsTold' BY <1>1, <2>4, <2>14, RowsStay DEF InventoryInv
  <2>18. Settling' BY <1>1, <1>11, <2>14 DEF Settling
  <2> QED BY <1>8, <1>9, <1>10, <2>13, <2>15, <2>16, <2>17, <2>18 DEF InventoryInv
<1> QED BY <1>12, <1>13

\* Recording a fingerprint.
LEMMA Recorded ==
    ASSUME MetaType, NEW was, NEW now, Record(was, now), UNCHANGED <<commit, disk>>
    PROVE  MetaType' /\ meta'.digest = now
<1>1. PICK v : v = IF now # was THEN meta.rev + 1 ELSE meta.rev OBVIOUS
<1>2. v \in Nat BY <1>1 DEF MetaType
<1>3. meta' = [rev |-> v, digest |-> now] BY <1>1 DEF Record
<1>4. meta'.rev \in Nat /\ meta'.digest = now BY <1>2, <1>3
<1>5. before' = <<meta>> \/ (before' = before /\ before # << >>) BY DEF Record, Remembered
<1>6. Len(before') = 1 /\ before'[1].rev \in Nat BY <1>5 DEF MetaType
<1> QED BY <1>4, <1>6 DEF MetaType

LEMMA ReviseKeeps == ASSUME InventoryInv, Revise PROVE InventoryInv'
<1>1. /\ UNCHANGED <<reg, commit, disk, rows, linked, notices, hushed, evidence, named, clean, torn>>
      /\ Record(task.digest, InventoryDigest(reg)) /\ task.at = "prune" /\ commit.by # "task"
      /\ task' = [task EXCEPT !.at = "states"]
  BY DEF Revise, Between, Go
<1>2. PICK at : at = "states" OBVIOUS
<1>3. /\ DOMAIN task' = DOMAIN task /\ task'.at = "states" /\ task'.op = task.op
      /\ task'.src = task.src /\ task'.asked = task.asked /\ task'.changed = task.changed
      /\ task'.todo = task.todo
  BY <1>1, <1>2, TaskWent DEF InventoryInv
<1>4. MetaType' /\ meta'.digest = InventoryDigest(reg) BY <1>1, Recorded DEF InventoryInv
<1>5. TaskType' BY <1>1, <1>3 DEF InventoryInv, TaskType
<1>6. SourcesType' BY <1>1, SourcesStay DEF InventoryInv
<1>7. RegistryTold' BY <1>1, RegistryStays DEF InventoryInv
<1>8. RowsTold' BY <1>1, <1>3, RowsStay DEF InventoryInv
<1>9. RoutesReach' BY <1>1, <1>3, ReachStays DEF InventoryInv
<1>10. EvidenceTells' BY <1>1, EvidenceStays DEF InventoryInv
<1>11. Settling' BY <1>1, <1>3, <1>4 DEF Settling
<1> QED BY <1>4, <1>5, <1>6, <1>7, <1>8, <1>9, <1>10, <1>11 DEF InventoryInv

\* The devices that are there, each to be written.
LEMMA RowsListed ==
    ASSUME InventoryInv, ToRows, reg' = reg, named' = named, rows' = rows
    PROVE  /\ DOMAIN task' = DOMAIN task /\ task'.at = "rows" /\ task'.op = task.op
           /\ task'.src = task.src /\ task'.asked = task.asked /\ task'.changed = task.changed
           /\ task'.todo = {<<d, reg.devs[d]>> : d \in Known(reg)}
           /\ RowsTold'
<1>1. PICK S : S = {<<d, reg.devs[d]>> : d \in Known(reg)} OBVIOUS
<1>2. task' = [task EXCEPT !.at = "rows", !.todo = S] BY <1>1 DEF ToRows
<1>3. /\ DOMAIN task' = DOMAIN task /\ task'.at = "rows" /\ task'.op = task.op
      /\ task'.src = task.src /\ task'.asked = task.asked /\ task'.changed = task.changed
      /\ task'.todo = S
  BY <1>2 DEF InventoryInv, TaskType
<1>4. reg.devs \in [Ids -> Devices] /\ \A d \in Ids : PairsTold(reg.devs[d], named)
  BY RegistryParts DEF InventoryInv, RegistryTold, RegistryOK, Indexed, MergesTold
<1>5. \A t \in S : /\ t \in Ids \X Devices /\ t[2].refs # {} /\ PairsTold(t[2], named)
  BY <1>1, <1>4 DEF Known
<1>6. RowsTold' BY <1>3, <1>5 DEF InventoryInv, RowsTold
<1> QED BY <1>1, <1>3, <1>6

LEMMA DeleteRowsKeeps == ASSUME InventoryInv, DeleteRows PROVE InventoryInv'
<1>1. /\ UNCHANGED <<reg, meta, before, commit, disk, linked, notices, hushed, evidence, named,
                     clean, torn>>
      /\ task.at = "states" /\ commit.by # "task"
      /\ IF Gone = {} THEN ToRows /\ UNCHANGED rows
         ELSE \E d \in Gone : rows' = [rows EXCEPT ![d] = NoDevice] /\ UNCHANGED task
  BY DEF DeleteRows, Between
<1>2. MetaType' BY <1>1, MetaStays DEF InventoryInv
<1>3. SourcesType' BY <1>1, SourcesStay DEF InventoryInv
<1>4. RegistryTold' BY <1>1, RegistryStays DEF InventoryInv
<1>5. EvidenceTells' BY <1>1, EvidenceStays DEF InventoryInv
<1>6. CASE Gone = {}
  <2>1. ToRows /\ rows' = rows BY <1>1, <1>6
  <2>2. /\ DOMAIN task' = DOMAIN task /\ task'.at = "rows" /\ task'.op = task.op
        /\ task'.src = task.src /\ task'.asked = task.asked /\ task'.changed = task.changed
        /\ task'.todo = {<<d, reg.devs[d]>> : d \in Known(reg)}
        /\ RowsTold'
    BY <1>1, <2>1, RowsListed
  <2>3. TaskType' BY <1>1, <2>2 DEF InventoryInv, TaskType
  <2>4. RoutesReach' BY <1>1, <2>2, ReachStays DEF InventoryInv
  <2>5. ASSUME NEW d \in Ids, rows[d] # reg.devs[d] PROVE d \in Known(reg)
    <3>1. rows[d].refs = {} \/ reg.devs[d].refs # {} BY <1>6 DEF Gone
    <3>2. NothingLeft(rows) /\ NothingLeft(reg.devs)
      BY DEF InventoryInv, RowsTold, RegistryTold, RegistryOK, Indexed
    <3> QED BY <2>5, <3>1, <3>2 DEF NothingLeft, Known
  <2>6. \A d \in Ids : rows[d] # reg.devs[d] => <<d, reg.devs[d]>> \in task'.todo BY <2>2, <2>5
  <2>7. \A t \in task'.todo : t[2] = reg.devs[t[1]] BY <2>2
  <2>8. clean => meta.digest = InventoryDigest(reg) BY <1>1 DEF InventoryInv, Settling
  <2>9. Settling' BY <1>1, <2>1, <2>2, <2>6, <2>7, <2>8 DEF Settling
  <2> QED BY <1>2, <1>3, <1>4, <1>5, <2>2, <2>3, <2>4, <2>9 DEF InventoryInv
<1>7. CASE Gone # {}
  <2>1. PICK d \in Gone : rows' = [rows EXCEPT ![d] = NoDevice] /\ task' = task BY <1>1, <1>7
  <2>2. TaskType' BY <1>1, <2>1 DEF InventoryInv, TaskType
  <2>3. RoutesReach' BY <1>1, <2>1, ReachStays DEF InventoryInv
  <2>4. rows' \in [Ids -> Devices] /\ \A c \in Ids : rows'[c] = NoDevice \/ rows'[c] = rows[c]
    BY <2>1, NoDeviceIsOne DEF InventoryInv, RowsTold, Gone
  <2>5. PairsTold(NoDevice, named) BY NoDeviceIsOne DEF PairsTold
  <2>6. RowsTold' BY <1>1, <2>1, <2>4, <2>5, NoDeviceIsOne DEF InventoryInv, RowsTold, NothingLeft
  <2>7. clean => meta.digest = InventoryDigest(reg) BY <1>1 DEF InventoryInv, Settling
  <2>8. Settling' BY <1>1, <2>1, <2>7 DEF Settling
  <2> QED BY <1>2, <1>3, <1>4, <1>5, <2>2, <2>3, <2>6, <2>8 DEF InventoryInv
<1> QED BY <1>6, <1>7

LEMMA WriteRowKeeps == ASSUME InventoryInv, WriteRow PROVE InventoryInv'
<1>1. /\ UNCHANGED <<reg, meta, before, commit, disk, linked, notices, hushed, evidence, named,
                     clean, torn>>
      /\ task.at = "rows" /\ commit.by # "task"
  BY DEF WriteRow, Between
<1>2. MetaType' BY <1>1, MetaStays DEF InventoryInv
<1>3. SourcesType' BY <1>1, SourcesStay DEF InventoryInv
<1>4. RegistryTold' BY <1>1, RegistryStays DEF InventoryInv
<1>5. EvidenceTells' BY <1>1, EvidenceStays DEF InventoryInv
<1>6. reg.devs \in [Ids -> Devices] /\ rows \in [Ids -> Devices]
  BY RegistryParts DEF InventoryInv, RegistryTold, RegistryOK, Indexed, RowsTold
<1>7. clean => meta.digest = InventoryDigest(reg) BY <1>1 DEF InventoryInv, Settling
<1>8. CASE task.todo = {}
  <2>1. task' = [task EXCEPT !.at = "metadata"] /\ rows' = rows BY <1>8 DEF WriteRow, Go
  <2>2. PICK at : at = "metadata" OBVIOUS
  <2>3. /\ DOMAIN task' = DOMAIN task /\ task'.at = "metadata" /\ task'.op = task.op
        /\ task'.src = task.src /\ task'.asked = task.asked /\ task'.changed = task.changed
        /\ task'.todo = task.todo
    BY <2>1, <2>2, TaskWent DEF InventoryInv
  <2>4. TaskType' BY <1>1, <2>3 DEF InventoryInv, TaskType
  <2>5. RowsTold' BY <1>1, <2>1, <2>3, RowsStay DEF InventoryInv
  <2>6. RoutesReach' BY <1>1, <2>3, ReachStays DEF InventoryInv
  <2>7. ASSUME clean PROVE rows = reg.devs
    <3>1. \A d \in Ids : rows[d] = reg.devs[d] BY <1>1, <1>8, <2>7 DEF InventoryInv, Settling
    <3> QED BY <1>6, <3>1
  <2>8. Settling' BY <1>1, <1>7, <2>1, <2>3, <2>7 DEF Settling
  <2> QED BY <1>2, <1>3, <1>4, <1>5, <2>4, <2>5, <2>6, <2>8 DEF InventoryInv
<1>9. CASE task.todo # {}
  <2>1. PICK t \in task.todo :
           /\ rows' = [rows EXCEPT ![t[1]] = t[2]]
           /\ task' = [task EXCEPT !.todo = task.todo \ {t}]
    BY <1>9 DEF WriteRow
  <2>2. /\ DOMAIN task' = DOMAIN task /\ task'.at = "rows" /\ task'.op = task.op
        /\ task'.src = task.src /\ task'.asked = task.asked /\ task'.changed = task.changed
        /\ task'.todo = task.todo \ {t}
    BY <1>1, <2>1 DEF InventoryInv, TaskType
  <2>3. t \in Ids \X Devices /\ t[2].refs # {} /\ PairsTold(t[2], named) BY DEF InventoryInv, RowsTold
  <2>4. rows' \in [Ids -> Devices] /\ rows'[t[1]] = t[2] /\ \A d \in Ids : d # t[1] => rows'[d] = rows[d]
    BY <1>6, <2>1, <2>3
  <2>5. TaskType' BY <1>1, <2>2 DEF InventoryInv, TaskType
  <2>6. RowsTold' BY <1>1, <2>2, <2>3, <2>4 DEF InventoryInv, RowsTold, NothingLeft
  <2>7. RoutesReach' BY <1>1, <2>2, ReachStays DEF InventoryInv
  <2>8. ASSUME clean
        PROVE  /\ \A d \in Ids : rows'[d] # reg.devs[d] => <<d, reg.devs[d]>> \in task'.todo
               /\ \A u \in task'.todo : u[2] = reg.devs[u[1]]
    <3>1. /\ \A d \in Ids : rows[d] # reg.devs[d] => <<d, reg.devs[d]>> \in task.todo
          /\ \A u \in task.todo : u[2] = reg.devs[u[1]]
      BY <1>1, <2>8 DEF InventoryInv, Settling
    <3>2. ASSUME NEW d \in Ids, rows'[d] # reg.devs[d] PROVE <<d, reg.devs[d]>> \in task'.todo
      <4>1. d # t[1] BY <2>4, <3>1, <3>2
      <4>2. <<d, reg.devs[d]>> \in task.todo BY <2>4, <3>1, <3>2, <4>1
      <4>3. <<d, reg.devs[d]>> # t BY <4>1
      <4> QED BY <2>2, <4>2, <4>3
    <3> QED BY <2>2, <3>1, <3>2
  <2>9. Settling' BY <1>1, <1>7, <2>2, <2>8 DEF Settling
  <2> QED BY <1>2, <1>3, <1>4, <1>5, <2>5, <2>6, <2>7, <2>9 DEF InventoryInv
<1> QED BY <1>8, <1>9

-----------------------------------------------------------------------------
(* Events *)

LEMMA FirstNotice ==
    ASSUME NEW q \in Seq([src : Sources, up : BOOLEAN]), q # << >>
    PROVE  /\ Head(q) \in [src : Sources, up : BOOLEAN] /\ Tail(q) \in Seq([src : Sources, up : BOOLEAN])
           /\ \A i \in DOMAIN q : q[i] = Head(q) \/ \E j \in DOMAIN Tail(q) : Tail(q)[j] = q[i]
<1>1. PICK M : M = [src : Sources, up : BOOLEAN] OBVIOUS
<1>2. q \in Seq(M) /\ q # << >> BY <1>1
<1>3. Head(q) \in M /\ Tail(q) \in Seq(M) /\ Len(q) \in Nat /\ Len(q) > 0 /\ Head(q) = q[1]
  BY <1>2
<1>4. ASSUME NEW i \in DOMAIN q, i # 1 PROVE \E j \in DOMAIN Tail(q) : Tail(q)[j] = q[i]
  <2>1. i \in 1 .. Len(q) BY <1>2
  <2>2. i - 1 \in 1 .. Len(q) - 1 /\ Len(Tail(q)) = Len(q) - 1 BY <1>2, <1>3, <1>4, <2>1
  <2>3. i - 1 \in DOMAIN Tail(q) /\ Tail(q)[i - 1] = q[(i - 1) + 1] BY <1>2, <1>3, <2>2
  <2>4. (i - 1) + 1 = i BY <2>1
  <2> QED BY <2>3, <2>4
<1> QED BY <1>1, <1>3, <1>4

LEMMA TakeNoticeKeeps == ASSUME InventoryInv, TakeNotice PROVE InventoryInv'
<1>1. /\ UNCHANGED <<meta, before, commit, disk, rows, linked, evidence, named, torn>>
      /\ task.op = "none" /\ notices # << >> /\ notices' = Tail(notices)
      /\ clean' = (clean /\ reg' = reg)
  BY DEF TakeNotice
<1>2. /\ Head(notices) \in [src : Sources, up : BOOLEAN]
      /\ notices' \in Seq([src : Sources, up : BOOLEAN])
      /\ \A i \in DOMAIN notices : notices[i] = Head(notices) \/ \E j \in DOMAIN notices' : notices'[j] = notices[i]
  BY <1>1, FirstNotice DEF InventoryInv, SourcesType
<1>3. PICK s \in Sources : s = Head(notices).src BY <1>2
<1>4. Head(notices).up \in BOOLEAN BY <1>2
<1>5. MetaType' BY <1>1, MetaStays DEF InventoryInv
<1>6. EvidenceTells' BY <1>1, EvidenceStays DEF InventoryInv
<1>7. commit.by # "task" /\ (clean => Settled) BY <1>1 DEF InventoryInv, Settling, TaskType
<1>8. clean' => reg' = reg /\ clean BY <1>1
<1>9. RegistryOK(reg) /\ MergesTold(reg, named) /\ named \subseteq Entities /\ (~torn => Single(reg))
      /\ Live(reg, Reachable)
  BY DEF InventoryInv, RegistryTold, RoutesReach
<1>10. clean' => Settled' BY <1>1, <1>7, <1>8 DEF Settled
<1>11. CASE Head(notices).up
  <2>1. task' = [NoTask EXCEPT !.op = "up", !.at = "read", !.src = {s}] /\ UNCHANGED <<reg, hushed>>
    BY <1>3, <1>11 DEF TakeNotice
  <2>2. /\ task'.op = "up" /\ task'.at = "read" /\ task'.asked = {} /\ task'.src = {s}
        /\ task'.todo = {} /\ task'.changed = FALSE
        /\ DOMAIN task' = {"op", "at", "src", "asked", "digest", "changed", "todo"}
    BY <2>1, Resting
  <2>3. TaskType' BY <2>2 DEF TaskType
  <2>4. SourcesType' BY <1>1, <1>2, <2>1 DEF InventoryInv, SourcesType
  <2>5. RegistryTold' BY <1>1, <2>1, RegistryStays DEF InventoryInv
  <2>6. RowsTold' BY <1>1, <2>2, RowsStay DEF InventoryInv
  <2>7. \A c \in Sources : [src |-> c, up |-> FALSE] # Head(notices)
    <3>1. \A c \in Sources : [src |-> c, up |-> FALSE].up = FALSE OBVIOUS
    <3> QED BY <1>11, <3>1
  <2>8. PendingDown \subseteq PendingDown' BY <1>2, <2>7 DEF PendingDown
  <2>9. Reachable \subseteq Reachable' BY <1>1, <2>1, <2>8 DEF Reachable
  <2>10. Live(reg, Reachable') BY <1>9, <2>9, LiveGrows
  <2>11. RoutesReach' BY <2>1, <2>2, <2>10 DEF RoutesReach
  <2>12. Settling' BY <1>1, <1>7, <1>10, <2>2 DEF Settling
  <2> QED BY <1>5, <1>6, <2>3, <2>4, <2>5, <2>6, <2>11, <2>12 DEF InventoryInv
<1>12. CASE ~Head(notices).up
  <2>0. PICK r : r = Marked(reg, {s}, FALSE) OBVIOUS
  <2>1. /\ reg' = r /\ hushed' = hushed \ {s}
        /\ task' = [NoTask EXCEPT !.op = "down", !.at = "mark", !.src = {s}, !.changed = (r # reg)]
    BY <1>3, <1>12, <2>0 DEF TakeNotice, Down
  <2>2. PICK c \in BOOLEAN : c = (r # reg) OBVIOUS
  <2>3. task' = [NoTask EXCEPT !.op = "down", !.at = "mark", !.src = {s}, !.changed = c]
    BY <2>1, <2>2
  <2>4. /\ task'.op = "down" /\ task'.at = "mark" /\ task'.asked = {} /\ task'.src = {s}
        /\ task'.todo = {} /\ task'.changed = c
        /\ DOMAIN task' = {"op", "at", "src", "asked", "digest", "changed", "todo"}
    BY <2>3, Resting
  <2>5. TaskType' BY <2>4 DEF TaskType
  <2>6. SourcesType' BY <1>1, <1>2, <2>1 DEF InventoryInv, SourcesType
  <2>7. RegistryOK(r) /\ MergesTold(r, named) /\ (Single(reg) => Single(r)) /\ Live(r, Reachable \ {s})
    BY <1>9, <2>0, MarkedKeeps
  <2>8. RegistryTold' BY <1>1, <1>9, <2>1, <2>7 DEF RegistryTold
  <2>9. RowsTold' BY <1>1, <2>4, RowsStay DEF InventoryInv
  <2>10. Head(notices) = [src |-> s, up |-> FALSE] BY <1>2, <1>3, <1>12
  <2>11. \A x \in PendingDown : x # s => x \in PendingDown'
    <3>1. SUFFICES ASSUME NEW x \in PendingDown, x # s PROVE x \in PendingDown' OBVIOUS
    <3>2. PICK i \in DOMAIN notices : notices[i] = [src |-> x, up |-> FALSE] BY DEF PendingDown
    <3>3. [src |-> x, up |-> FALSE].src = x /\ [src |-> s, up |-> FALSE].src = s OBVIOUS
    <3>4. notices[i] # Head(notices) BY <2>10, <3>1, <3>2, <3>3
    <3> QED BY <1>2, <3>2, <3>4 DEF PendingDown
  <2>12. Reachable \ {s} \subseteq Reachable' BY <1>1, <2>1, <2>11 DEF Reachable
  <2>13. Live(r, Reachable') BY <2>7, <2>12, LiveGrows
  <2>14. RoutesReach' BY <2>1, <2>4, <2>13 DEF RoutesReach
  <2>15. clean' => ~task'.changed BY <1>8, <2>1, <2>2, <2>4
  <2>16. Settling' BY <1>1, <1>7, <1>10, <2>4, <2>15 DEF Settling
  <2> QED BY <1>5, <1>6, <2>5, <2>6, <2>8, <2>9, <2>14, <2>16 DEF InventoryInv
<1> QED BY <1>11, <1>12

LEMMA ReadAgainKeeps == ASSUME InventoryInv, ReadAgain PROVE InventoryInv'
<1>1. /\ UNCHANGED <<meta, before, commit, disk, rows, linked, notices, evidence, named, torn>>
      /\ task.at = "read" /\ clean' = (clean /\ reg' = reg)
  BY DEF ReadAgain
<1>5. MetaType' BY <1>1, MetaStays DEF InventoryInv
<1>6. EvidenceTells' BY <1>1, EvidenceStays DEF InventoryInv
<1>7. commit.by # "task" /\ (clean => Settled) BY <1>1 DEF InventoryInv, Settling
<1>8. clean' => reg' = reg /\ clean BY <1>1
<1>9. RegistryOK(reg) /\ MergesTold(reg, named) /\ named \subseteq Entities /\ (~torn => Single(reg))
      /\ Live(reg, Reachable)
  BY DEF InventoryInv, RegistryTold, RoutesReach
<1>10. clean' => Settled' BY <1>1, <1>7, <1>8 DEF Settled
<1>11. CASE ~(task.src \subseteq linked)
  <2>1. task' = NoTask /\ UNCHANGED <<reg, hushed>> BY <1>11 DEF ReadAgain
  <2>3. TaskType' BY <2>1, TaskRests
  <2>4. SourcesType' BY <1>1, <2>1, SourcesStay DEF InventoryInv
  <2>5. RegistryTold' BY <1>1, <2>1, RegistryStays DEF InventoryInv
  <2>6. RowsTold' BY <1>1, <2>1, Resting, RowsStay DEF InventoryInv
  <2>7. RoutesReach' BY <1>1, <2>1, Resting, ReachStays DEF InventoryInv
  <2>8. Settling' BY <1>1, <1>7, <1>10, <2>1, Resting DEF Settling
  <2> QED BY <1>5, <1>6, <2>3, <2>4, <2>5, <2>6, <2>7, <2>8 DEF InventoryInv
<1>12. CASE task.src \subseteq linked
  <2>0. PICK r : r = Marked(reg, task.src, TRUE) OBVIOUS
  <2>1. /\ reg' = r /\ hushed' = hushed \ task.src
        /\ task' = [task EXCEPT !.at = "mark", !.changed = (r # reg)]
    BY <1>12, <2>0 DEF ReadAgain
  <2>2. PICK c \in BOOLEAN : c = (r # reg) OBVIOUS
  <2>3. task' = [task EXCEPT !.at = "mark", !.changed = c] BY <2>1, <2>2
  <2>4. /\ DOMAIN task' = DOMAIN task /\ task'.at = "mark" /\ task'.op = task.op
        /\ task'.src = task.src /\ task'.asked = task.asked /\ task'.changed = c
        /\ task'.todo = task.todo
    BY <2>3 DEF InventoryInv, TaskType
  <2>5. TaskType' BY <1>1, <2>4 DEF InventoryInv, TaskType
  <2>6. SourcesType' BY <1>1, <2>1 DEF InventoryInv, SourcesType
  <2>7. RegistryOK(r) /\ MergesTold(r, named) /\ (Single(reg) => Single(r))
        /\ Live(r, Reachable \cup task.src)
    <3>1. PICK L, S : L = Reachable /\ S = task.src OBVIOUS
    <3>2. PICK b \in BOOLEAN : b = TRUE OBVIOUS
    <3>3. r = Marked(reg, S, b) /\ Live(reg, L) BY <1>9, <2>0, <3>1, <3>2
    <3>4. Live(r, L \cup S) BY <1>9, <3>3, MarkedKeeps
    <3>5. RegistryOK(r) /\ MergesTold(r, named) /\ (Single(reg) => Single(r))
      BY <1>9, <3>3, MarkedKeeps
    <3> QED BY <3>1, <3>4, <3>5
  <2>8. RegistryTold' BY <1>1, <1>9, <2>1, <2>7 DEF RegistryTold
  <2>9. RowsTold' BY <1>1, <2>4, RowsStay DEF InventoryInv
  <2>10. Reachable \cup task.src \subseteq Reachable'
    BY <1>1, <1>12, <2>1 DEF Reachable, PendingDown
  <2>11. Live(r, Reachable') BY <2>7, <2>10, LiveGrows
  <2>12. RoutesReach' BY <2>1, <2>4, <2>11 DEF RoutesReach
  <2>13. clean' => ~task'.changed BY <1>8, <2>1, <2>2, <2>4
  <2>14. Settling' BY <1>1, <1>7, <1>10, <2>4, <2>13 DEF Settling
  <2> QED BY <1>5, <1>6, <2>5, <2>6, <2>8, <2>9, <2>12, <2>14 DEF InventoryInv
<1> QED BY <1>11, <1>12

LEMMA MutateKeeps == ASSUME InventoryInv, Mutate PROVE InventoryInv'
<1>1. /\ UNCHANGED <<reg, commit, disk, rows, linked, notices, hushed, evidence, named, clean, torn>>
      /\ task.at = "mutate"
  BY DEF Mutate
<1>2. SourcesType' BY <1>1, SourcesStay DEF InventoryInv
<1>3. RegistryTold' BY <1>1, RegistryStays DEF InventoryInv
<1>4. EvidenceTells' BY <1>1, EvidenceStays DEF InventoryInv
<1>5. ~clean /\ commit.by # "task" BY <1>1 DEF InventoryInv, Settling
<1>6. Settling' BY <1>1, <1>5 DEF Settling
<1>7. CASE meta.digest = InventoryDigest(reg)
  <2>1. task' = NoTask /\ UNCHANGED <<meta, before>> BY <1>7 DEF Mutate
  <2>2. TaskType' BY <2>1, TaskRests
  <2>3. RowsTold' BY <1>1, <2>1, Resting, RowsStay DEF InventoryInv
  <2>4. RoutesReach' BY <1>1, <2>1, Resting, ReachStays DEF InventoryInv
  <2>5. MetaType' BY <1>1, <2>1, MetaStays DEF InventoryInv
  <2> QED BY <1>2, <1>3, <1>4, <1>6, <2>2, <2>3, <2>4, <2>5 DEF InventoryInv
<1>8. CASE meta.digest # InventoryDigest(reg)
  <2>1. Record(meta.digest, InventoryDigest(reg)) /\ ToRows BY <1>8 DEF Mutate
  <2>2. MetaType' BY <1>1, <2>1, Recorded DEF InventoryInv
  <2>3. /\ DOMAIN task' = DOMAIN task /\ task'.at = "rows" /\ task'.op = task.op
        /\ task'.src = task.src /\ task'.asked = task.asked /\ task'.changed = task.changed
        /\ RowsTold'
    BY <1>1, <2>1, RowsListed
  <2>4. TaskType' BY <1>1, <2>3 DEF InventoryInv, TaskType
  <2>5. RoutesReach' BY <1>1, <2>3, ReachStays DEF InventoryInv
  <2> QED BY <1>2, <1>3, <1>4, <1>6, <2>2, <2>3, <2>4, <2>5 DEF InventoryInv
<1> QED BY <1>7, <1>8

-----------------------------------------------------------------------------
(* Sources, plans, restarts *)

LEMMA NoticeAdded ==
    ASSUME NEW q \in Seq([src : Sources, up : BOOLEAN]), NEW n \in [src : Sources, up : BOOLEAN]
    PROVE  /\ Append(q, n) \in Seq([src : Sources, up : BOOLEAN])
           /\ \A i \in DOMAIN q : i \in DOMAIN Append(q, n) /\ Append(q, n)[i] = q[i]
           /\ \E i \in DOMAIN Append(q, n) : Append(q, n)[i] = n
<1>1. PICK M : M = [src : Sources, up : BOOLEAN] OBVIOUS
<1>2. q \in Seq(M) /\ n \in M BY <1>1
<1>3. /\ Append(q, n) \in Seq(M) /\ Len(Append(q, n)) = Len(q) + 1 /\ Len(q) \in Nat
      /\ DOMAIN q = 1 .. Len(q) /\ DOMAIN Append(q, n) = 1 .. Len(q) + 1
  BY <1>2
<1>4. Append(q, n)[Len(q) + 1] = n /\ Len(q) + 1 \in DOMAIN Append(q, n) BY <1>2, <1>3
<1>5. \A i \in DOMAIN q : i \in DOMAIN Append(q, n) /\ Append(q, n)[i] = q[i] BY <1>2, <1>3
<1> QED BY <1>1, <1>3, <1>4, <1>5

LEMMA SourceFailsKeeps ==
    ASSUME InventoryInv, NEW s \in Sources, SourceFails(s) PROVE InventoryInv'
<1>1. /\ UNCHANGED <<meta, before, commit, disk, rows, task, evidence, named, torn>>
      /\ linked' = linked \ {s} /\ clean' = (clean /\ reg' = reg)
      /\ reg' = Marked(reg, {s}, FALSE)
      /\ \/ notices' = Append(notices, [src |-> s, up |-> FALSE]) /\ UNCHANGED hushed
         \/ /\ hushed' = IF task.op = "none" THEN hushed ELSE hushed \cup {s}
            /\ UNCHANGED notices
  BY DEF SourceFails
<1>2. PICK r : r = Marked(reg, {s}, FALSE) OBVIOUS
<1>3. RegistryOK(reg) /\ MergesTold(reg, named) /\ named \subseteq Entities /\ (~torn => Single(reg))
      /\ Live(reg, Reachable)
  BY DEF InventoryInv, RegistryTold, RoutesReach
<1>4. RegistryOK(r) /\ MergesTold(r, named) /\ (Single(reg) => Single(r)) /\ Live(r, Reachable \ {s})
  BY <1>2, <1>3, MarkedKeeps
<1>5. notices \in Seq([src : Sources, up : BOOLEAN]) /\ hushed \subseteq Sources BY DEF InventoryInv, SourcesType
<1>6. PICK n \in [src : Sources, up : BOOLEAN] : n = [src |-> s, up |-> FALSE] OBVIOUS
<1>7. /\ notices' \in Seq([src : Sources, up : BOOLEAN]) /\ hushed' \subseteq Sources
      /\ PendingDown \subseteq PendingDown' /\ hushed \subseteq hushed'
      /\ task.op # "none" => s \in Reachable'
  <2>1. CASE notices' = Append(notices, n) /\ hushed' = hushed
    <3>1. /\ Append(notices, n) \in Seq([src : Sources, up : BOOLEAN])
          /\ \A i \in DOMAIN notices : /\ i \in DOMAIN Append(notices, n)
                                       /\ Append(notices, n)[i] = notices[i]
          /\ \E i \in DOMAIN Append(notices, n) : Append(notices, n)[i] = n
      BY <1>5, <1>6, NoticeAdded
    <3>2. PendingDown \subseteq PendingDown' BY <2>1, <3>1 DEF PendingDown
    <3>3. s \in PendingDown' BY <1>6, <2>1, <3>1 DEF PendingDown
    <3> QED BY <1>5, <2>1, <3>1, <3>2, <3>3 DEF Reachable
  <2>2. CASE notices' = notices /\ hushed' = IF task.op = "none" THEN hushed ELSE hushed \cup {s}
    <3>1. PendingDown' = PendingDown BY <2>2 DEF PendingDown
    <3> QED BY <1>5, <2>2, <3>1 DEF Reachable
  <2> QED BY <1>1, <1>6, <2>1, <2>2
<1>8. Reachable \ {s} \subseteq Reachable' BY <1>1, <1>7 DEF Reachable
<1>9. Live(r, Reachable') BY <1>4, <1>8, LiveGrows
<1>10. task.at = "ask" => task.op # "none" BY DEF InventoryInv, TaskType
<1>11. RoutesReach' BY <1>1, <1>2, <1>7, <1>8, <1>9, <1>10 DEF InventoryInv, RoutesReach
<1>12. SourcesType' BY <1>1, <1>7 DEF InventoryInv, SourcesType
<1>13. TaskType' BY <1>1 DEF InventoryInv, TaskType
<1>14. MetaType' BY <1>1, MetaStays DEF InventoryInv
<1>15. RegistryTold' BY <1>1, <1>2, <1>3, <1>4 DEF RegistryTold
<1>16. RowsTold' BY <1>1, RowsStay DEF InventoryInv
<1>17. EvidenceTells' BY <1>1, EvidenceStays DEF InventoryInv
<1>18. Settling'
  <2>1. CASE ~clean' BY <1>1, <2>1 DEF InventoryInv, Settling
  <2>2. CASE clean'
    <3>1. clean /\ reg' = reg BY <1>1, <2>2
    <3>2. UNCHANGED <<meta, before, commit, disk, rows, task>> BY <1>1
    <3>3. Settled' <=> Settled BY <3>1, <3>2 DEF Settled
    <3> QED BY <2>2, <3>1, <3>2, <3>3 DEF InventoryInv, Settling
  <2> QED BY <2>1, <2>2
<1> QED BY <1>11, <1>12, <1>13, <1>14, <1>15, <1>16, <1>17, <1>18 DEF InventoryInv

LEMMA SourceReturnsKeeps ==
    ASSUME InventoryInv, NEW s \in Sources, SourceReturns(s) PROVE InventoryInv'
<1>1. /\ UNCHANGED <<reg, meta, before, commit, disk, rows, task, hushed, evidence, named, clean, torn>>
      /\ linked' = linked \cup {s}
      /\ notices' = Append(notices, [src |-> s, up |-> TRUE])
  BY DEF SourceReturns
<1>2. PICK n \in [src : Sources, up : BOOLEAN] : n = [src |-> s, up |-> TRUE] OBVIOUS
<1>3. notices \in Seq([src : Sources, up : BOOLEAN]) BY DEF InventoryInv, SourcesType
<1>4. /\ Append(notices, n) \in Seq([src : Sources, up : BOOLEAN])
      /\ \A i \in DOMAIN notices : i \in DOMAIN Append(notices, n) /\ Append(notices, n)[i] = notices[i]
  BY <1>2, <1>3, NoticeAdded
<1>5. notices' = Append(notices, n) BY <1>1, <1>2
<1>6. PendingDown \subseteq PendingDown' BY <1>4, <1>5 DEF PendingDown
<1>7. Reachable \subseteq Reachable' BY <1>1, <1>6 DEF Reachable
<1>8. Live(reg, Reachable') BY <1>7, LiveGrows DEF InventoryInv, RoutesReach
<1>9. RoutesReach' BY <1>1, <1>7, <1>8 DEF InventoryInv, RoutesReach
<1>10. SourcesType' BY <1>1, <1>4, <1>5 DEF InventoryInv, SourcesType
<1>11. TaskType' BY <1>1 DEF InventoryInv, TaskType
<1>12. MetaType' BY <1>1, MetaStays DEF InventoryInv
<1>13. RegistryTold' BY <1>1, RegistryStays DEF InventoryInv
<1>14. RowsTold' BY <1>1, RowsStay DEF InventoryInv
<1>15. EvidenceTells' BY <1>1, EvidenceStays DEF InventoryInv
<1>16. Settling' BY <1>1 DEF InventoryInv, Settling, Settled
<1> QED BY <1>9, <1>10, <1>11, <1>12, <1>13, <1>14, <1>15, <1>16 DEF InventoryInv

\* A device that commands are routed to has a capability, and its digest tells the route.
LEMMA DigestTells ==
    ASSUME NEW r, RegistryOK(r), NEW d \in Ids,
           Resolved(r, d) # NoEntity \/ r.devs[d].cap, NEW g, g = CapabilityDigest(r, d)
    PROVE  /\ g.dev.cap = r.devs[d].cap /\ g.dev.cap /\ g.dev.max = r.devs[d].max
           /\ RouteIn(g) = Resolved(r, d)
<1>1. r.devs[d] \in Devices BY RegistryParts DEF RegistryOK, Indexed
<1>2. r.devs[d].cap
  <2>1. CASE r.devs[d].cap BY <2>1
  <2>2. CASE Resolved(r, d) # NoEntity
    <3>1. PICK able : able = {t \in RoutesOf(r, d) : t.e \in Writers} OBVIOUS
    <3>2. Cardinality(able) = 1 BY <2>2, <3>1 DEF Resolved
    <3>3. Cardinality({}) = 0 BY FS_EmptySet
    <3>4. able # {} BY <3>2, <3>3
    <3>5. PICK t \in r.routes : t.id = d BY <3>1, <3>4 DEF RoutesOf
    <3> QED BY <3>5 DEF RegistryOK, Indexed
  <2> QED BY <2>1, <2>2
<1>3. PICK S : S = {SourceOf[e] : e \in r.devs[d].refs} OBVIOUS
<1>4. PICK v : v = [r.devs[d] EXCEPT !.refs = S] OBVIOUS
<1>5. v.cap = r.devs[d].cap /\ v.max = r.devs[d].max /\ v.write = r.devs[d].write
  BY <1>1, <1>4 DEF Devices
<1>6. g = [dev |-> v, routes |-> RoutesOf(r, d)] BY <1>2, <1>3, <1>4 DEF CapabilityDigest
<1>7. g.dev = v /\ g.routes = RoutesOf(r, d) BY <1>6
<1>8. RouteIn(g) = Resolved(r, d) BY <1>5, <1>7 DEF RouteIn, Resolved
<1> QED BY <1>2, <1>5, <1>7, <1>8

LEMMA ValidateKeeps == ASSUME InventoryInv, NEW d \in Ids, Validate(d) PROVE InventoryInv'
<1>1. /\ UNCHANGED <<reg, meta, before, commit, disk, rows, task, linked, notices, hushed, named,
                     clean, torn>>
      /\ Resolved(reg, d) # NoEntity
  BY DEF Validate
<1>2. PICK g : g = CapabilityDigest(reg, d) OBVIOUS
<1>3. evidence' = [dev |-> d, rev |-> meta.rev, digest |-> g, route |-> Resolved(reg, d),
                   max |-> reg.devs[d].max]
  BY <1>2 DEF Validate
<1>4. RegistryOK(reg) BY DEF InventoryInv, RegistryTold
<1>5. g.dev.cap /\ g.dev.max = reg.devs[d].max /\ RouteIn(g) = Resolved(reg, d)
  BY <1>1, <1>2, <1>4, DigestTells
<1>6. EvidenceTells' BY <1>3, <1>5 DEF EvidenceTells
<1>7. TaskType' BY <1>1 DEF InventoryInv, TaskType
<1>8. MetaType' BY <1>1, MetaStays DEF InventoryInv
<1>9. SourcesType' BY <1>1, SourcesStay DEF InventoryInv
<1>10. RegistryTold' BY <1>1, RegistryStays DEF InventoryInv
<1>11. RowsTold' BY <1>1, RowsStay DEF InventoryInv
<1>12. RoutesReach' BY <1>1, ReachStays DEF InventoryInv
<1>13. Settling' BY <1>1 DEF InventoryInv, Settling, Settled
<1> QED BY <1>6, <1>7, <1>8, <1>9, <1>10, <1>11, <1>12, <1>13 DEF InventoryInv

LEMMA RestartInventoryKeeps == ASSUME InventoryInv, RestartInventory PROVE InventoryInv'
<1>1. /\ reg' = Loaded(rows) /\ meta' = disk /\ before' = << >> /\ commit' = NoCommitment
      /\ task' = NoTask /\ linked' = Sources /\ notices' = << >> /\ hushed' = {} /\ clean' = FALSE
      /\ torn' = (torn \/ \E e \in Entities : \E d, c \in Holders(rows, e) : c # d)
      /\ UNCHANGED <<disk, rows, evidence, named>>
  BY DEF RestartInventory
<1>2. /\ rows \in [Ids -> Devices] /\ NothingLeft(rows) /\ \A d \in Ids : PairsTold(rows[d], named)
  BY DEF InventoryInv, RowsTold
<1>3. PICK q : q = Loaded(rows) OBVIOUS
<1>4. PICK L : L = Reachable' OBVIOUS
<1>5. /\ RegistryOK(q) /\ MergesTold(q, named) /\ Live(q, L)
      /\ (\A e \in Entities : \A d, c \in Holders(rows, e) : c = d) => Single(q)
  BY <1>2, <1>3, LoadedKeeps
<1>6. ~torn' => \A e \in Entities : \A d, c \in Holders(rows, e) : c = d BY <1>1
<1>7. RegistryTold' BY <1>1, <1>3, <1>5, <1>6 DEF InventoryInv, RegistryTold
<1>8. RoutesReach' BY <1>1, <1>3, <1>4, <1>5, Resting DEF RoutesReach
<1>9. TaskType' BY <1>1, TaskRests
<1>10. MetaType' BY <1>1 DEF InventoryInv, MetaType, NoCommitment
<1>11. SourcesType' BY <1>1 DEF SourcesType
<1>12. RowsTold' BY <1>1, Resting, RowsStay DEF InventoryInv
<1>13. EvidenceTells' BY <1>1, EvidenceStays DEF InventoryInv
<1>14. Settling' BY <1>1 DEF Settling, NoCommitment
<1> QED BY <1>7, <1>8, <1>9, <1>10, <1>11, <1>12, <1>13, <1>14 DEF InventoryInv

LEMMA InventoryStutters == ASSUME InventoryInv, UNCHANGED inventoryVars PROVE InventoryInv'
<1>1. UNCHANGED <<reg, meta, before, commit, disk, rows, task, linked, notices, hushed,
                  evidence, named, clean, torn>>
  BY DEF inventoryVars
<1>2. TaskType' BY <1>1 DEF InventoryInv, TaskType
<1>3. MetaType' BY <1>1, MetaStays DEF InventoryInv
<1>4. SourcesType' BY <1>1, SourcesStay DEF InventoryInv
<1>5. RegistryTold' BY <1>1, RegistryStays DEF InventoryInv
<1>6. RowsTold' BY <1>1, RowsStay DEF InventoryInv
<1>7. RoutesReach' BY <1>1, ReachStays DEF InventoryInv
<1>8. EvidenceTells' BY <1>1, EvidenceStays DEF InventoryInv
<1>9. Settling' BY <1>1 DEF InventoryInv, Settling, Settled
<1> QED BY <1>2, <1>3, <1>4, <1>5, <1>6, <1>7, <1>8, <1>9 DEF InventoryInv

-----------------------------------------------------------------------------
LEMMA InventoryStep == ASSUME InventoryInv, [InventoryNext]_inventoryVars PROVE InventoryInv'
<1>1. CASE ReaderSaves BY <1>1, ReaderSavesKeeps
<1>2. CASE ReaderSaved BY <1>2, ReaderSavedKeeps
<1>3. CASE StartRefresh BY <1>3, StartRefreshKeeps
<1>4. CASE Answered BY <1>4, AnsweredKeeps
<1>5. CASE TaskSaves BY <1>5, TaskSavesKeeps
<1>6. CASE TaskSaved BY <1>6, TaskSavedKeeps
<1>7. CASE Revise BY <1>7, ReviseKeeps
<1>8. CASE DeleteRows BY <1>8, DeleteRowsKeeps
<1>9. CASE WriteRow BY <1>9, WriteRowKeeps
<1>10. CASE TaskFails BY <1>10, TaskFailsKeeps
<1>11. CASE TakeNotice BY <1>11, TakeNoticeKeeps
<1>12. CASE ReadAgain BY <1>12, ReadAgainKeeps
<1>13. CASE Mutate BY <1>13, MutateKeeps
<1>14. CASE \E s \in Sources : SourceFails(s) \/ SourceReturns(s)
  BY <1>14, SourceFailsKeeps, SourceReturnsKeeps
<1>15. CASE \E d \in Ids : Validate(d) BY <1>15, ValidateKeeps
<1>16. CASE RestartInventory BY <1>16, RestartInventoryKeeps
<1>17. CASE UNCHANGED inventoryVars BY <1>17, InventoryStutters
<1> QED BY <1>1, <1>2, <1>3, <1>4, <1>5, <1>6, <1>7, <1>8, <1>9, <1>10, <1>11, <1>12, <1>13,
           <1>14, <1>15, <1>16, <1>17 DEF InventoryNext

LEMMA InventorySound == InventoryInv => InventoryIsSound
<1> SUFFICES ASSUME InventoryInv PROVE InventoryIsSound OBVIOUS
<1>1. RegistryOK(reg) /\ reg \in Registries BY DEF InventoryInv, RegistryTold, RegistryOK, Indexed
<1>2. InventoryTypeOK
  <2>0. before = << >> \/ Len(before) = 1 BY DEF InventoryInv, MetaType
  <2>1. Len(before) <= 1
    <3>1. CASE before = << >>
      <4>1. Len(before) = 0 BY <3>1
      <4> QED BY <4>1
    <3>2. CASE Len(before) = 1 BY <3>2
    <3> QED BY <2>0, <3>1, <3>2
  <2> QED BY <1>1, <2>1, RegistryParts
    DEF InventoryInv, RowsTold, MetaType, TaskType, SourcesType, InventoryTypeOK, Routes
<1>3. IndexesAgree
  <2>1. \A t \in reg.routes : reg.ids[t.e] = t.id /\ t.e \in reg.devs[t.id].refs /\ reg.devs[t.id].cap
    BY <1>1 DEF RegistryOK, Indexed
  <2>2. \A e \in Entities, d \in Ids : reg.ids[e] = d => e \in reg.devs[d].refs
    BY <1>1 DEF RegistryOK, Indexed
  <2>3. ~torn => \A e \in Entities, d \in Ids : e \in reg.devs[d].refs => reg.ids[e] = d
    BY DEF InventoryInv, RegistryTold, Single
  <2>4. \A d \in Known(reg) : RoutesOf(reg, d) # {} => reg.devs[d].cap BY <2>1 DEF RoutesOf
  <2>5. AvailabilityTold(reg) BY <1>1 DEF RegistryOK
  <2> QED BY <2>1, <2>2, <2>3, <2>4, <2>5 DEF IndexesAgree, AvailabilityTold
<1>4. MergedOnlyWhenTold
  <2>1. \A d \in Ids : PairsTold(reg.devs[d], named) BY DEF InventoryInv, RegistryTold, MergesTold
  <2> QED BY <2>1 DEF MergedOnlyWhenTold, PairsTold, May, Told
<1>5. RoutesAreLive
  <2>1. SUFFICES ASSUME NEW d \in Ids, NEW e, e = Resolved(reg, d), e # NoEntity
                 PROVE  \/ SourceOf[e] \in linked \cup hushed
                        \/ \E i \in DOMAIN notices : notices[i] = [src |-> SourceOf[e], up |-> FALSE]
    BY DEF RoutesAreLive
  <2>2. PICK able : able = {t \in RoutesOf(reg, d) : t.e \in Writers} OBVIOUS
  <2>3. Cardinality(able) = 1 /\ (\A t \in able : t.up) /\ e = (CHOOSE t \in able : TRUE).e
    BY <2>1, <2>2 DEF Resolved
  <2>4. able # {} BY <2>3, FS_EmptySet
  <2>5. PICK t \in able : e = t.e /\ t.up BY <2>3, <2>4
  <2>6. t \in reg.routes BY <2>2 DEF RoutesOf
  <2>7. SourceOf[e] \in Reachable BY <2>5, <2>6 DEF InventoryInv, RoutesReach, Live
  <2> QED BY <2>7 DEF Reachable, PendingDown
<1>6. EvidenceIsCurrent
  <2>1. SUFFICES ASSUME Executable
                 PROVE  /\ Resolved(reg, evidence.dev) = evidence.route
                        /\ reg.devs[evidence.dev].max = evidence.max
    BY DEF EvidenceIsCurrent
  <2>2. PICK d, g : d = evidence.dev /\ g = evidence.digest OBVIOUS
  <2>3. d \in Ids /\ g.dev.cap /\ evidence.max = g.dev.max /\ evidence.route = RouteIn(g)
    BY <2>1, <2>2 DEF Executable, InventoryInv, EvidenceTells
  <2>4. g = CapabilityDigest(reg, d) BY <2>1, <2>2 DEF Executable
  <2>5. reg.devs[d].cap
    <3>1. PICK S : S = {SourceOf[e] : e \in reg.devs[d].refs} OBVIOUS
    <3>2. g.dev = [reg.devs[d] EXCEPT !.refs = S] BY <2>4, <3>1 DEF CapabilityDigest
    <3>3. reg.devs[d] \in Devices BY <1>1, <2>3, RegistryParts
    <3>4. g.dev.cap = reg.devs[d].cap BY <3>2, <3>3 DEF Devices
    <3> QED BY <2>3, <3>4
  <2>6. g.dev.max = reg.devs[d].max /\ RouteIn(g) = Resolved(reg, d)
    BY <1>1, <2>3, <2>4, <2>5, DigestTells
  <2> QED BY <2>2, <2>3, <2>6
<1>7. RefreshSettles
  <2>1. task.op = "none" => task.at = "none" BY DEF InventoryInv, TaskType
  <2> QED BY <2>1 DEF InventoryInv, Settling, Settled, RefreshSettles
<1> QED BY <1>2, <1>3, <1>4, <1>5, <1>6, <1>7 DEF InventoryIsSound, RegistryIsCoherent

\* The registry contradicts neither itself nor the sources, plans run against the
\* inventory they were validated against, and a refresh in which nothing fails brings
\* registry, rows and recorded revision together.
THEOREM InventoryStaysSound == InventorySpec => []InventoryIsSound
<1>1. InventoryInit => InventoryInv BY InventoryInitially
<1>2. InventoryInv /\ [InventoryNext]_inventoryVars => InventoryInv' BY InventoryStep
<1>3. InventoryInv => InventoryIsSound BY InventorySound
<1> QED BY <1>1, <1>2, <1>3, PTL DEF InventorySpec
=============================================================================
