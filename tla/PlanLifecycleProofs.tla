------------------------- MODULE PlanLifecycleProofs -------------------------
(***************************************************************************)
(* PlanExecution, with leases and a plan repository, implements PlanLifecycle, *)
(* for every number of hosts, attempts, plans, commands, keys and restarts.   *)
(***************************************************************************)
EXTENDS PlanExecutionProofs

\* The adapter has the current command, or has just answered.
Away == {"wait", "acked", "refused", "readback"}
Ahead == {"command", "queued", "fence", "ledger", "send"}

\* The ledger row of command i of plan p was claimed for that very command.
Mine(p, i) ==
    /\ ledger[KeyOf[p][i]].status # "absent"
    /\ ledger[KeyOf[p][i]].plan = p
    /\ ledger[KeyOf[p][i]].cmd = i

Untouched(p) == \A i \in Cmds : Effect[p][i] = "none" /\ ~Mine(p, i)

\* Outcomes are filled in from the first command on.
Filled(a) ==
    /\ pc[a] \in {"idle", "admit", "claim", "preflight", "takeover"} =>
           \A i \in Cmds : out[a][i] = "none"
    /\ pc[a] \in Ahead \cup Away => \A i \in Cmds : i >= cmd[a] => out[a][i] = "none"
    /\ pc[a] = "outcome" => \A i \in Cmds : i > cmd[a] => out[a][i] = "none"

\* What a recorded outcome, or the lack of one, says of its command.
OutcomeTells(a, i) ==
    LET e == Effect[aPlan[a]][i] IN
    /\ out[a][i] = "confirmed" => e = "accepted"
    /\ out[a][i] = "rejected" => e \in {"none", "rejected"}
    /\ out[a][i] = "none" /\ (i # cmd[a] \/ pc[a] \notin Away) => e = "none"
    /\ out[a][i] = "none" /\ (i # cmd[a] \/ pc[a] \notin Away \cup {"send"}) => ~Mine(aPlan[a], i)
    /\ ~sent[a] => e = "none"

\* What the place of the attempt says of its current command and its verdict.
PlaceTells(a) ==
    LET e == Effect[aPlan[a]] IN
    /\ pc[a] = "send" => intent[a] = "owned"
    /\ pc[a] = "wait" => e[cmd[a]] = "pending"
    /\ pc[a] \in {"acked", "readback"} => e[cmd[a]] = "accepted"
    /\ pc[a] = "refused" => e[cmd[a]] = "rejected"
    /\ pc[a] = "settle" => Lifecycle!Tells(verdict[a], e)

AttemptTells(a) ==
    pc[a] \in Claimed \ {"except"} =>
        /\ planSt[aPlan[a]] \in {"executing", "unknown"}
        /\ PlaceTells(a) /\ \A i \in Cmds : OutcomeTells(a, i)

PlanTells(p) ==
    /\ planSt[p] = "ready" => Untouched(p)
    /\ planSt[p] \in Terminal => Lifecycle!Tells(planSt[p], Effect[p])

\* A key nobody called about has no writer.
KeyTells(k) == calls[k] = 0 \/ reply[k] = "none" => writer[k] = NoPlan

\* The invariant: a plan not begun left no trace, a settled one is told
\* truthfully, and the attempt in between knows what it did.
HonestInv ==
    /\ \A k \in Keys : KeyTells(k)
    /\ \A p \in Plans : PlanTells(p)
    /\ \A a \in Attempts : Filled(a) /\ AttemptTells(a)

AllInv == TypeInv /\ LeaseInv /\ ClaimInv /\ LedgerInv /\ HonestInv

\* The effect of a command is the reply to its key, if its plan wrote the key.
LEMMA EffectType ==
    ASSUME TypeInv, NEW p \in Plans, NEW i \in Cmds
    PROVE  /\ KeyOf[p][i] \in Keys
           /\ Effect[p][i] = IF writer[KeyOf[p][i]] = p THEN reply[KeyOf[p][i]] ELSE "none"
           /\ Effect[p][i] \in {"none", "pending", "accepted", "rejected", "lost"}
  BY KeyAssumption DEF KeyAssumption, Effect, TypeInv, TypeOK, WorldType

\* Nothing was begun, claimed or sent yet.
LEMMA HonestInit == Init => HonestInv
<1> SUFFICES ASSUME Init PROVE HonestInv OBVIOUS
<1>1. TypeInv BY TypeInit
<1>2. \A p \in Plans : Untouched(p)
  <2> SUFFICES ASSUME NEW p \in Plans, NEW i \in Cmds PROVE Effect[p][i] = "none" /\ ~Mine(p, i)
    BY DEF Untouched
  <2>1. Effect[p][i] = "none" BY <1>1, EffectType DEF Init
  <2>2. ~Mine(p, i) BY <1>1, EffectType DEF Init, Mine, NoRow
  <2> QED BY <2>1, <2>2
<1>3. \A a \in Attempts : Filled(a) /\ AttemptTells(a)
  BY DEF Init, Filled, AttemptTells, Claimed, InLane, Ahead, Away
<1> QED BY <1>2, <1>3 DEF Init, HonestInv, PlanTells, Terminal, KeyTells
-----------------------------------------------------------------------------
(* What a step leaves alone. *)

\* Plan q keeps its trace; it may have been given up.
PlanKept(q) ==
    /\ planSt'[q] = planSt[q] \/ (planSt[q] = "executing" /\ planSt'[q] = "unknown")
    /\ \A i \in Cmds : Effect'[q][i] = Effect[q][i] /\ (Mine(q, i)' <=> Mine(q, i))

LocalsKept(b) ==
    /\ pc'[b] = pc[b] /\ aPlan'[b] = aPlan[b] /\ cmd'[b] = cmd[b] /\ sent'[b] = sent[b]
    /\ intent'[b] = intent[b] /\ out'[b] = out[b] /\ verdict'[b] = verdict[b]

AttemptKept(b) ==
    /\ LocalsKept(b)
    /\ pc[b] \in Claimed => PlanKept(aPlan[b])

\* A plan whose trace is kept is still told truthfully, given up or not.
LEMMA KeptPlan ==
    ASSUME NEW q \in Plans, PlanTells(q), PlanKept(q) PROVE PlanTells(q)'
  BY DEF PlanTells, PlanKept, Untouched, Terminal, Lifecycle!Tells

\* An attempt that keeps its locals and whose plan keeps its trace still knows what it did.
LEMMA KeptAttempt ==
    ASSUME TypeInv, NEW b \in Attempts, Filled(b), AttemptTells(b), AttemptKept(b)
    PROVE  Filled(b)' /\ AttemptTells(b)'
<1>1. Filled(b)' BY DEF AttemptKept, LocalsKept, Filled
<1>2. ASSUME pc[b] \in Claimed PROVE AttemptTells(b)'
  <2>1. PlanKept(aPlan[b]) /\ aPlan'[b] = aPlan[b] BY <1>2 DEF AttemptKept, LocalsKept
  <2>3. CASE pc[b] = "except" BY <2>3 DEF AttemptTells, AttemptKept, LocalsKept
  <2>4. CASE pc[b] # "except"
    <3>0. planSt'[aPlan'[b]] \in {"executing", "unknown"}
      BY <1>2, <2>1, <2>4 DEF AttemptTells, PlanKept
    <3>1. ASSUME NEW i \in Cmds PROVE OutcomeTells(b, i)'
      BY <1>2, <2>1, <2>4 DEF AttemptTells, OutcomeTells, AttemptKept, LocalsKept, PlanKept
    <3>2. PlaceTells(b)'
      <4>1. pc[b] \in Away => cmd[b] \in Cmds
        BY DEF TypeInv, AttemptsOK, OnCommand, InLane, Away
      <4> QED BY <1>2, <2>1, <2>4, <4>1 DEF AttemptTells, PlaceTells, AttemptKept, LocalsKept, PlanKept, Away, Lifecycle!Tells
    <3> QED BY <3>0, <3>1, <3>2 DEF AttemptTells
  <2> QED BY <2>3, <2>4
<1>3. ASSUME pc[b] \notin Claimed PROVE AttemptTells(b)'
  BY <1>3 DEF AttemptTells, AttemptKept, LocalsKept
<1> QED BY <1>1, <1>2, <1>3

\* The rows still belong to the commands they were claimed for.
RowsKept ==
    \A k \in Keys : /\ ledger'[k].status = "absent" <=> ledger[k].status = "absent"
                    /\ ledger'[k].plan = ledger[k].plan /\ ledger'[k].cmd = ledger[k].cmd

\* Rows that stay claimed and a world that stays as it is keep the trace of every plan.
LEMMA TraceKept ==
    ASSUME TypeInv, UNCHANGED <<writer, reply>>, RowsKept,
           NEW q \in Plans, planSt'[q] = planSt[q] \/ (planSt[q] = "executing" /\ planSt'[q] = "unknown")
    PROVE  PlanKept(q)
<1> SUFFICES ASSUME NEW i \in Cmds PROVE Effect'[q][i] = Effect[q][i] /\ (Mine(q, i)' <=> Mine(q, i))
  BY DEF PlanKept
<1>1. Effect'[q][i] = Effect[q][i] BY DEF Effect
<1>2. KeyOf[q][i] \in Keys BY EffectType
<1>3. Mine(q, i)' <=> Mine(q, i) BY <1>2 DEF RowsKept, Mine
<1> QED BY <1>1, <1>3

\* Ended tasks have nothing to tell, and the others keep theirs.
LEMMA EndedTells ==
    ASSUME TypeInv, NEW A, EndTasks(A), NEW b \in Attempts, Filled(b), AttemptTells(b),
           pc[b] \in Claimed /\ b \notin A => PlanKept(aPlan[b])
    PROVE  Filled(b)' /\ AttemptTells(b)'
<1>1. CASE b \in A
  BY <1>1 DEF EndTasks, Filled, AttemptTells, Claimed, InLane, Ahead, Away
<1>2. CASE b \notin A
  <2>1. AttemptKept(b) BY <1>2 DEF EndTasks, AttemptKept, LocalsKept, TypeInv, TypeOK, AttemptType, FlagType
  <2> QED BY <2>1, KeptAttempt
<1> QED BY <1>1, <1>2
-----------------------------------------------------------------------------
(* An attempt at one of its commands. *)

\* Only the current command of attempt a is touched.
OnlyCurrent(a) ==
    /\ aPlan'[a] = aPlan[a] /\ cmd'[a] = cmd[a]
    /\ planSt'[aPlan[a]] = planSt[aPlan[a]]
    /\ sent'[a] = sent[a] \/ sent'[a]
    /\ ~sent'[a] => Effect'[aPlan[a]][cmd[a]] = "none"
    /\ \A i \in Cmds : i # cmd[a] => /\ Effect'[aPlan[a]][i] = Effect[aPlan[a]][i]
                                     /\ Mine(aPlan[a], i)' <=> Mine(aPlan[a], i)

AtCommand(a) == pc[a] \in ((Ahead \cup Away) \cap OnCommand) \cup {"command"} /\ cmd[a] \in Cmds

\* A command concluded with an outcome that is true of it.
LEMMA ConcludeTells ==
    ASSUME TypeInv, NEW a \in Attempts, Filled(a), AttemptTells(a), AtCommand(a), OnlyCurrent(a),
           NEW s \in OutcomeStatuses \ {"none"}, Conclude(a, s),
           s = "confirmed" => Effect'[aPlan[a]][cmd[a]] = "accepted",
           s = "rejected" => Effect'[aPlan[a]][cmd[a]] \in {"none", "rejected"}
    PROVE  Filled(a)' /\ AttemptTells(a)'
<1> USE DEF TypeInv, TypeOK, AttemptType, FlagType
<1>1. pc'[a] = "outcome" /\ pc[a] \in Claimed \ {"except"} /\ pc[a] \in Ahead \cup Away
  BY DEF Conclude, Goto, AtCommand, Ahead, Away, Claimed, InLane, OnCommand
<1>2. /\ out'[a][cmd[a]] = s
      /\ \A i \in Cmds : i # cmd[a] => out'[a][i] = out[a][i]
  BY DEF Conclude, AtCommand
<1>3. Filled(a)'
  <2>1. \A i \in Cmds : i > cmd[a] => i # cmd[a] /\ i >= cmd[a]
    BY KeyAssumption DEF KeyAssumption, AtCommand, Cmds
  <2>2. \A i \in Cmds : i > cmd'[a] => out'[a][i] = "none"
    BY <1>1, <1>2, <2>1 DEF Filled, OnlyCurrent
  <2> QED BY <1>1, <2>2 DEF Filled, Ahead, Away
<1>4. planSt'[aPlan'[a]] \in {"executing", "unknown"}
  BY <1>1 DEF AttemptTells, OnlyCurrent
<1>5. PlaceTells(a)'
  BY <1>1 DEF PlaceTells
<1>6. ASSUME NEW i \in Cmds PROVE OutcomeTells(a, i)'
  <2>1. OutcomeTells(a, i) BY <1>1 DEF AttemptTells
  <2>2. CASE i = cmd[a]
    BY <1>1, <1>2, <2>2 DEF OutcomeTells, OnlyCurrent
  <2>3. CASE i # cmd[a]
    BY <1>1, <1>2, <2>1, <2>3 DEF OutcomeTells, OnlyCurrent, Away
  <2> QED BY <2>2, <2>3
<1> QED BY <1>3, <1>4, <1>5, <1>6 DEF AttemptTells

\* A command that moves on to a place that is true of it.
LEMMA MoveTells ==
    ASSUME TypeInv, NEW a \in Attempts, Filled(a), AttemptTells(a), AtCommand(a), OnlyCurrent(a),
           NEW l \in (Ahead \cup Away) \ {"command"}, Goto(a, l), UNCHANGED out,
           l \notin Away => Effect'[aPlan[a]][cmd[a]] = "none",
           l \notin Away \cup {"send"} => ~Mine(aPlan[a], cmd[a])',
           l = "send" => intent'[a] = "owned",
           l = "wait" => Effect'[aPlan[a]][cmd[a]] = "pending",
           l \in {"acked", "readback"} => Effect'[aPlan[a]][cmd[a]] = "accepted",
           l = "refused" => Effect'[aPlan[a]][cmd[a]] = "rejected"
    PROVE  Filled(a)' /\ AttemptTells(a)'
<1> USE DEF TypeInv, TypeOK, AttemptType, FlagType
<1>1. pc'[a] = l /\ pc[a] \in Claimed \ {"except"} /\ pc[a] \in Ahead \cup Away
  BY DEF Goto, AtCommand, Ahead, Away, Claimed, InLane, OnCommand
<1>2. Filled(a)'
  BY <1>1 DEF Filled, OnlyCurrent, Ahead, Away, Cmds
<1>3. planSt'[aPlan'[a]] \in {"executing", "unknown"}
  BY <1>1 DEF AttemptTells, OnlyCurrent
<1>4. PlaceTells(a)'
  BY <1>1 DEF PlaceTells, OnlyCurrent, Ahead, Away
<1>5. out[a][cmd[a]] = "none"
  BY <1>1 DEF Filled, AtCommand, Cmds
<1>6. ASSUME NEW i \in Cmds PROVE OutcomeTells(a, i)'
  <2>1. OutcomeTells(a, i) BY <1>1 DEF AttemptTells
  <2>2. CASE i = cmd[a]
    BY <1>1, <1>5, <2>2 DEF OutcomeTells, OnlyCurrent
  <2>3. CASE i # cmd[a]
    BY <1>1, <2>1, <2>3 DEF OutcomeTells, OnlyCurrent
  <2> QED BY <2>2, <2>3
<1> QED BY <1>2, <1>3, <1>4, <1>6 DEF AttemptTells

\* A command not sent yet has had no effect.
LEMMA NotYet ==
    ASSUME TypeInv, NEW a \in Attempts, Filled(a), AttemptTells(a), pc[a] \in Ahead, cmd[a] \in Cmds
    PROVE  /\ Effect[aPlan[a]][cmd[a]] = "none"
           /\ pc[a] # "send" => ~Mine(aPlan[a], cmd[a])
           /\ AtCommand(a)
<1>1. pc[a] \in Claimed \ {"except"} /\ pc[a] \notin Away
  BY DEF Ahead, Away, Claimed, InLane
<1>2. out[a][cmd[a]] = "none"
  BY DEF Filled, TypeInv, TypeOK, AttemptType, Cmds
<1>3. OutcomeTells(a, cmd[a]) BY <1>1 DEF AttemptTells
<1>4. AtCommand(a) BY DEF AtCommand, Ahead, OnCommand, InLane
<1> QED BY <1>1, <1>2, <1>3, <1>4 DEF OutcomeTells

\* An attempt that failed has nothing left to tell.
LEMMA ExceptTells ==
    ASSUME TypeInv, NEW a \in Attempts, Goto(a, "except")
    PROVE  Filled(a)' /\ AttemptTells(a)'
<1>1. pc'[a] = "except" BY DEF Goto, TypeInv, TypeOK, AttemptType
<1> QED BY <1>1 DEF Filled, AttemptTells, Ahead, Away

\* Outside the world, the ledger and the plan rows nothing of a plan's trace changes.
LEMMA LocalKept ==
    ASSUME TypeInv, Local PROVE \A q \in Plans : PlanKept(q) /\ planSt'[q] = planSt[q]
<1>1. UNCHANGED <<writer, reply, ledger, planSt>> BY DEF Local, worldVars, rowVars
<1>2. RowsKept BY <1>1 DEF RowsKept
<1> QED BY <1>1, <1>2, TraceKept

\* The loop of one command, up to the ledger, leaves no trace.
LEMMA QuietCommandTells ==
    ASSUME AllInv, Fenced, NEW a \in Attempts,
           PrepareCommand(a) \/ Dispatch(a) \/ Fence(a) \/ NotSent(a) \/ Readback(a)
    PROVE  Filled(a)' /\ AttemptTells(a)'
<1> USE DEF AllInv
<1>1. TypeInv /\ Filled(a) /\ AttemptTells(a) BY DEF HonestInv
<1>2. /\ Local /\ UNCHANGED <<aPlan, cmd, sent, intent, verdict>>
      /\ pc[a] \in {"command", "queued", "fence", "send", "readback"}
      /\ cmd[a] \in Cmds
  <2>1. pc[a] \in {"queued", "fence", "send", "readback"} => cmd[a] \in Cmds
    BY DEF TypeInv, AttemptsOK, OnCommand, InLane
  <2>2. pc[a] = "command" /\ cmd[a] <= NumCmds => cmd[a] \in Cmds
    BY KeyAssumption DEF KeyAssumption, TypeInv, TypeOK, AttemptType, Cmds
  <2> QED BY <2>1, <2>2 DEF PrepareCommand, Dispatch, Fence, NotSent, Readback
<1>3. aPlan[a] \in Plans /\ pc[a] \in Claimed
  BY <1>2 DEF TypeInv, AttemptsOK, Running, Claimed, InLane
<1>4. PlanKept(aPlan[a]) /\ planSt'[aPlan[a]] = planSt[aPlan[a]] BY <1>1, <1>2, <1>3, LocalKept
<1>5. pc[a] # "except" /\ OutcomeTells(a, cmd[a]) /\ PlaceTells(a)
  BY <1>1, <1>2, <1>3 DEF AttemptTells
<1>6. OnlyCurrent(a)
  BY <1>2, <1>4, <1>5 DEF OnlyCurrent, PlanKept, OutcomeTells
<1>7. AtCommand(a) BY <1>2 DEF AtCommand, Ahead, Away, OnCommand, InLane
<1>8. CASE Goto(a, "except") BY <1>1, <1>2, <1>3, <1>4, <1>8, ExceptTells
<1>9. CASE pc[a] # "readback"
  <2>1. pc[a] \in Ahead BY <1>2, <1>9 DEF Ahead
  <2>2. Effect'[aPlan[a]][cmd[a]] = "none" /\ (pc[a] # "send" => ~Mine(aPlan[a], cmd[a])')
    BY <1>1, <1>2, <1>4, <2>1, NotYet DEF PlanKept
  <2>3. CASE Conclude(a, "rejected")
    BY <1>1, <1>6, <1>7, <2>2, <2>3, ConcludeTells DEF OutcomeStatuses
  <2>4. CASE (Goto(a, "queued") \/ Goto(a, "fence") \/ Goto(a, "ledger")) /\ UNCHANGED out
    <3>1. pc[a] # "send"
      BY <2>4, <1>9 DEF PrepareCommand, Dispatch, Fence, NotSent, Readback, Goto, Conclude, TypeInv, TypeOK, AttemptType
    <3> QED BY <1>1, <1>6, <1>7, <2>2, <2>4, <3>1, MoveTells DEF Ahead, Away
  <2> QED BY <1>8, <1>9, <2>3, <2>4 DEF PrepareCommand, Dispatch, Fence, NotSent, Readback
<1>10. CASE pc[a] = "readback"
  <2>1. Effect'[aPlan[a]][cmd[a]] = "accepted" BY <1>2, <1>4, <1>5, <1>10 DEF PlaceTells, PlanKept
  <2>2. CASE Conclude(a, "confirmed")
    BY <1>1, <1>6, <1>7, <2>1, <2>2, ConcludeTells DEF OutcomeStatuses
  <2>3. CASE Conclude(a, "unknown")
    BY <1>1, <1>6, <1>7, <2>3, ConcludeTells DEF OutcomeStatuses
  <2> QED BY <1>8, <1>10, <2>2, <2>3 DEF PrepareCommand, Dispatch, Fence, NotSent, Readback
<1> QED BY <1>9, <1>10

\* Before the first command every outcome is open, so nothing was sent.
LEMMA EarlyTells ==
    ASSUME AllInv, NEW a \in Attempts, Admit(a) \/ Preflight(a) \/ Takeover(a)
    PROVE  Filled(a)' /\ AttemptTells(a)'
<1> USE DEF AllInv
<1>1. TypeInv /\ Filled(a) /\ AttemptTells(a) BY DEF HonestInv
<1>2. Local /\ UNCHANGED <<aPlan, cmd, sent, intent>>
  BY DEF Admit, Preflight, Takeover
<1>3. CASE Admit(a)
  <2>1. pc[a] = "admit" /\ pc'[a] = "claim" /\ out' = out
    BY <1>3 DEF Admit, Goto, TypeInv, TypeOK, AttemptType
  <2> QED BY <1>1, <2>1 DEF Filled, AttemptTells, Claimed, InLane, Ahead, Away
<1>4. CASE Preflight(a) \/ Takeover(a)
  <2>1. pc[a] \in {"preflight", "takeover"} BY <1>4 DEF Preflight, Takeover
  <2>2. pc[a] \in Claimed \ {"except"} /\ aPlan[a] \in Plans
    BY <2>1 DEF TypeInv, AttemptsOK, Running, Claimed, InLane
  <2>3. PlanKept(aPlan[a]) /\ planSt'[aPlan[a]] = planSt[aPlan[a]] BY <1>1, <1>2, <2>2, LocalKept
  <2>4. planSt'[aPlan'[a]] \in {"executing", "unknown"}
    BY <1>1, <1>2, <2>2, <2>3 DEF AttemptTells
  <2>5. ASSUME NEW i \in Cmds
        PROVE  out[a][i] = "none" /\ Effect'[aPlan[a]][i] = "none" /\ ~Mine(aPlan[a], i)'
    <3>1. out[a][i] = "none" BY <1>1, <2>1 DEF Filled
    <3>2. OutcomeTells(a, i) BY <1>1, <2>2 DEF AttemptTells
    <3>3. pc[a] \notin Away \cup {"send"} BY <2>1 DEF Away
    <3> QED BY <2>3, <3>1, <3>2, <3>3 DEF OutcomeTells, PlanKept
  <2>6. CASE Goto(a, "except") BY <1>1, <1>2, <2>2, <2>3, <2>6, ExceptTells
  <2>7. CASE (Goto(a, "takeover") \/ Goto(a, "command")) /\ UNCHANGED out
    <3>1. pc'[a] \in {"takeover", "command"} BY <2>7 DEF Goto, TypeInv, TypeOK, AttemptType
    <3>2. Filled(a)' BY <2>5, <2>7, <3>1 DEF Filled, Away
    <3>3. PlaceTells(a)' BY <3>1 DEF PlaceTells
    <3>4. \A i \in Cmds : OutcomeTells(a, i)' BY <1>2, <2>5, <2>7 DEF OutcomeTells
    <3> QED BY <2>4, <3>2, <3>3, <3>4 DEF AttemptTells
  <2>8. CASE RejectPlan(a)
    <3>1. /\ pc'[a] = "settle" /\ verdict'[a] = "failed"
          /\ \A i \in Cmds : out'[a][i] = "rejected"
      BY <2>8 DEF RejectPlan, Goto, TypeInv, TypeOK, AttemptType
    <3>2. Filled(a)' BY <3>1 DEF Filled, Ahead, Away
    <3>3. PlaceTells(a)' BY <1>2, <2>5, <3>1 DEF PlaceTells, Lifecycle!Tells
    <3>4. \A i \in Cmds : OutcomeTells(a, i)' BY <1>2, <2>5, <3>1 DEF OutcomeTells
    <3> QED BY <2>4, <3>2, <3>3, <3>4 DEF AttemptTells
  <2> QED BY <1>4, <2>6, <2>7, <2>8 DEF Preflight, Takeover
<1> QED BY <1>3, <1>4

\* A skipped command was not sent.
LEMMA SkipTells ==
    ASSUME AllInv, NEW a \in Attempts, SkipCommand(a) PROVE Filled(a)' /\ AttemptTells(a)'
<1> USE DEF AllInv
<1>1. TypeInv /\ Filled(a) /\ AttemptTells(a) BY DEF HonestInv
<1>2. /\ Local /\ UNCHANGED <<pc, aPlan, sent, intent, verdict>>
      /\ pc[a] = "command" /\ pc[a] \in Ahead \cap Claimed
      /\ cmd[a] \in Cmds /\ cmd'[a] = cmd[a] + 1
  BY KeyAssumption DEF SkipCommand, KeyAssumption, TypeInv, TypeOK, AttemptType, Cmds, Ahead, Claimed
<1>3. aPlan[a] \in Plans BY <1>2 DEF TypeInv, AttemptsOK, Running
<1>4. PlanKept(aPlan[a]) /\ planSt'[aPlan[a]] = planSt[aPlan[a]] BY <1>1, <1>2, <1>3, LocalKept
<1>5. Effect[aPlan[a]][cmd[a]] = "none" /\ ~Mine(aPlan[a], cmd[a])
  BY <1>1, <1>2, NotYet
<1>6. /\ out'[a][cmd[a]] = "rejected"
      /\ \A i \in Cmds : i # cmd[a] => out'[a][i] = out[a][i]
  BY <1>2 DEF SkipCommand, TypeInv, TypeOK, AttemptType
<1>7. Filled(a)'
  <2>1. \A i \in Cmds : i >= cmd'[a] => i # cmd[a] /\ i >= cmd[a]
    BY <1>2, KeyAssumption DEF KeyAssumption, Cmds
  <2> QED BY <1>1, <1>2, <1>6, <2>1 DEF Filled
<1>8. ASSUME NEW i \in Cmds PROVE OutcomeTells(a, i)'
  <2>1. OutcomeTells(a, i) BY <1>1, <1>2 DEF AttemptTells
  <2>2. pc[a] \notin Away \cup {"send"} BY <1>2 DEF Away
  <2>3. CASE i = cmd[a] BY <1>2, <1>4, <1>5, <1>6, <2>2, <2>3 DEF OutcomeTells, PlanKept
  <2>4. CASE i # cmd[a] BY <1>2, <1>4, <1>6, <2>1, <2>2, <2>4 DEF OutcomeTells, PlanKept
  <2> QED BY <2>3, <2>4
<1>9. PlaceTells(a)' BY <1>2 DEF PlaceTells
<1> QED BY <1>1, <1>2, <1>4, <1>7, <1>8, <1>9 DEF AttemptTells

\* The verdict says no less than the outcomes do.
LEMMA VerdictTells ==
    ASSUME AllInv, NEW a \in Attempts, FinishLoop(a) PROVE Filled(a)' /\ AttemptTells(a)'
<1> USE DEF AllInv
<1>1. TypeInv /\ Filled(a) /\ AttemptTells(a) BY DEF HonestInv
<1>2. /\ Local /\ UNCHANGED <<aPlan, cmd, sent, intent, out>>
      /\ pc[a] = "command" /\ pc[a] \in Claimed /\ pc'[a] = "settle"
      /\ cmd[a] > NumCmds
  BY DEF FinishLoop, Claimed, Goto, TypeInv, TypeOK, AttemptType
<1>3. aPlan[a] \in Plans BY <1>2 DEF TypeInv, AttemptsOK, Running
<1>4. PlanKept(aPlan[a]) /\ planSt'[aPlan[a]] = planSt[aPlan[a]] BY <1>1, <1>2, <1>3, LocalKept
<1>5. pc[a] \notin Away \cup {"send"} BY <1>2 DEF Away
<1>6. \A i \in Cmds : OutcomeTells(a, i) BY <1>1, <1>2 DEF AttemptTells
<1>7. \A i \in Cmds : OutcomeTells(a, i)'
  BY <1>2, <1>4, <1>5, <1>6 DEF OutcomeTells, PlanKept, Away
<1>8. ASSUME NEW i \in Cmds
      PROVE  /\ out[a][i] \in OutcomesOf(a) /\ out[a][i] \in OutcomeStatuses
             /\ out[a][i] = "confirmed" => Effect'[aPlan[a]][i] = "accepted"
             /\ out[a][i] \in {"none", "rejected"} => Effect'[aPlan[a]][i] \in {"none", "rejected"}
             /\ ~sent[a] => Effect'[aPlan[a]][i] = "none"
  BY <1>2, <1>4, <1>5, <1>6 DEF OutcomeTells, PlanKept, OutcomesOf, TypeInv, TypeOK, AttemptType
<1>9. Lifecycle!Tells(verdict'[a], Effect'[aPlan[a]])
  <2>1. PICK released \in BOOLEAN : verdict'[a] = Verdict(a, released)
    BY DEF FinishLoop, TypeInv, TypeOK, AttemptType
  <2>2. CASE verdict'[a] = "unknown" BY <2>2 DEF Lifecycle!Tells
  <2>3. CASE verdict'[a] = "cancelled"
    <3>1. TerminalPlanStatus(OutcomesOf(a)) # "cancelled" BY DEF TerminalPlanStatus
    <3>2. ~sent[a] BY <2>1, <2>3, <3>1 DEF Verdict
    <3> QED BY <1>8, <2>3, <3>2 DEF Lifecycle!Tells
  <2>4. CASE verdict'[a] \notin {"unknown", "cancelled"}
    <3>1. verdict'[a] = TerminalPlanStatus(OutcomesOf(a)) BY <2>1, <2>4 DEF Verdict
    <3>2. CASE OutcomesOf(a) = {"confirmed"}
      <4>1. verdict'[a] = "completed" BY <3>1, <3>2 DEF TerminalPlanStatus
      <4> QED BY <1>8, <3>2, <4>1 DEF Lifecycle!Tells
    <3>3. CASE OutcomesOf(a) # {"confirmed"}
      <4>1. OutcomesOf(a) \cap {"unknown", "unavailable"} = {}
        BY <2>4, <3>1, <3>3 DEF TerminalPlanStatus
      <4>2. \A i \in Cmds : out[a][i] \in {"none", "confirmed", "rejected"}
        BY <1>8, <4>1 DEF OutcomeStatuses
      <4>3. CASE "confirmed" \in OutcomesOf(a)
        <5>1. verdict'[a] = "partially_failed" BY <3>1, <3>3, <4>1, <4>3 DEF TerminalPlanStatus
        <5> QED BY <1>8, <4>2, <5>1 DEF Lifecycle!Tells
      <4>4. CASE "confirmed" \notin OutcomesOf(a)
        <5>1. verdict'[a] = "failed" BY <3>1, <3>3, <4>1, <4>4 DEF TerminalPlanStatus
        <5> QED BY <1>8, <4>2, <4>4, <5>1 DEF Lifecycle!Tells
      <4> QED BY <4>3, <4>4
    <3> QED BY <3>2, <3>3
  <2> QED BY <2>2, <2>3, <2>4
<1>10. PlaceTells(a)' BY <1>2, <1>9 DEF PlaceTells
<1>11. Filled(a)' BY <1>2 DEF Filled, Ahead, Away
<1> QED BY <1>1, <1>2, <1>4, <1>7, <1>10, <1>11 DEF AttemptTells
-----------------------------------------------------------------------------
(* The ledger and the adapter. *)

\* What the steps below know of attempt a: its plan is its own, and its current
\* command exists.
LEMMA Own ==
    ASSUME AllInv, DurablePlans, NEW a \in Attempts, pc[a] \in OnCommand
    PROVE  /\ TypeInv /\ Filled(a) /\ AttemptTells(a)
           /\ pc[a] \in Claimed \ {"except"} /\ aPlan[a] \in Plans /\ cmd[a] \in Cmds
           /\ Key(a) \in Keys /\ Key(a) = KeyOf[aPlan[a]][cmd[a]]
           /\ PlaceTells(a) /\ OutcomeTells(a, cmd[a])
           /\ \A b \in Attempts : b # a /\ pc[b] \in Claimed =>
                  aPlan[b] \in Plans /\ aPlan[b] # aPlan[a]
<1> USE DEF AllInv
<1>1. TypeInv /\ Filled(a) /\ AttemptTells(a) BY DEF HonestInv
<1>2. pc[a] \in Claimed \ {"except"} BY DEF OnCommand, InLane, Claimed
<1>3. aPlan[a] \in Plans /\ cmd[a] \in Cmds BY <1>2 DEF TypeInv, AttemptsOK, Running
<1>4. Key(a) \in Keys /\ Key(a) = KeyOf[aPlan[a]][cmd[a]] BY <1>1, KeyInKeys DEF Key
<1>5. PlaceTells(a) /\ OutcomeTells(a, cmd[a]) BY <1>1, <1>2, <1>3 DEF AttemptTells
<1>6. \A b \in Attempts : b # a /\ pc[b] \in Claimed => aPlan[b] \in Plans /\ aPlan[b] # aPlan[a]
  BY <1>2 DEF ClaimInv, OneExecutorPerPlan, TypeInv, AttemptsOK, Running
<1> QED BY <1>1, <1>2, <1>3, <1>4, <1>5, <1>6

\* The step of attempt a at its command (p, i) leaves the trace of every other command.
OnlyTrace(p, i) ==
    \A q \in Plans, j \in Cmds : q # p \/ j # i =>
        Effect'[q][j] = Effect[q][j] /\ (Mine(q, j)' <=> Mine(q, j))

\* A claim is for this command alone, and no other claim can stand for it.
LEMMA ClaimIntentTells ==
    ASSUME AllInv, DurablePlans, NEW a \in Attempts, ClaimIntent(a)
    PROVE  /\ Filled(a)' /\ AttemptTells(a)'
           /\ OnlyTrace(aPlan[a], cmd[a])
           /\ UNCHANGED <<planSt, writer, calls, reply>>
<1>1. pc[a] = "ledger" /\ pc[a] \in OnCommand /\ pc[a] \in Ahead
  BY DEF ClaimIntent, OnCommand, InLane, Ahead
<1> DEFINE p == aPlan[a]  i == cmd[a]
<1>2. /\ TypeInv /\ Filled(a) /\ AttemptTells(a)
      /\ p \in Plans /\ i \in Cmds /\ Key(a) \in Keys /\ Key(a) = KeyOf[p][i]
  BY <1>1, Own
<1>3. Effect[p][i] = "none" /\ ~Mine(p, i) /\ AtCommand(a) BY <1>1, <1>2, NotYet
<1>4. UNCHANGED <<planSt, writer, calls, reply, aPlan, cmd, sent, verdict>>
  BY DEF ClaimIntent, worldVars
<1>5. \A q \in Plans, j \in Cmds : Effect'[q][j] = Effect[q][j] BY <1>4 DEF Effect
<1>6. Decision(ledger[Key(a)], a) \in {"acquired", "conflict"}
  BY <1>2, <1>3 DEF Decision, SameIdentity, Mine
<1>7. CASE Decision(ledger[Key(a)], a) = "acquired"
  <2>1. ledger[Key(a)].status = "absent" BY <1>7 DEF Decision
  <2>2. /\ (Goto(a, "send") /\ intent'[a] = "owned") \/ Goto(a, "except")
        /\ UNCHANGED out
        /\ ledger'[Key(a)].plan = p /\ ledger'[Key(a)].cmd = i
        /\ \A k \in Keys : k # Key(a) => ledger'[k] = ledger[k]
    BY <1>2, <1>7 DEF ClaimIntent, Dispatching, TypeInv, TypeOK, AttemptType, RowType
  <2>3. ASSUME NEW q \in Plans, NEW j \in Cmds, q # p \/ j # i PROVE Mine(q, j)' <=> Mine(q, j)
    <3>1. KeyOf[q][j] \in Keys BY <1>2, EffectType
    <3> QED BY <1>2, <2>1, <2>2, <2>3, <3>1 DEF Mine
  <2>4. OnlyTrace(p, i) BY <1>5, <2>3 DEF OnlyTrace
  <2>5. OnlyCurrent(a)
    BY <1>2, <1>3, <1>4, <1>5, <2>4 DEF OnlyCurrent, OnlyTrace
  <2>6. Filled(a)' /\ AttemptTells(a)'
    <3>1. CASE Goto(a, "except") BY <1>2, <3>1, ExceptTells
    <3>2. CASE Goto(a, "send") /\ intent'[a] = "owned"
      BY <1>2, <1>3, <1>5, <2>2, <2>5, <3>2, MoveTells DEF Ahead, Away
    <3> QED BY <2>2, <3>1, <3>2
  <2> QED BY <1>4, <2>4, <2>6
<1>8. CASE Decision(ledger[Key(a)], a) = "conflict"
  <2>1. Conclude(a, "rejected") /\ ledger' = ledger BY <1>8 DEF ClaimIntent
  <2>2. \A q \in Plans, j \in Cmds : Mine(q, j)' <=> Mine(q, j) BY <2>1 DEF Mine
  <2>3. OnlyCurrent(a) BY <1>2, <1>3, <1>4, <1>5, <2>2 DEF OnlyCurrent
  <2>4. Filled(a)' /\ AttemptTells(a)'
    BY <1>2, <1>3, <1>5, <2>1, <2>3, ConcludeTells DEF OutcomeStatuses
  <2> QED BY <1>4, <1>5, <2>2, <2>4 DEF OnlyTrace
<1> QED BY <1>6, <1>7, <1>8

\* The key was unwritten, so the call takes no other command's place.
LEMMA SendTells ==
    ASSUME AllInv, Fenced, DurablePlans, NEW a \in Attempts, Send(a)
    PROVE  /\ Filled(a)' /\ AttemptTells(a)'
           /\ OnlyTrace(aPlan[a], cmd[a])
           /\ Effect[aPlan[a]][cmd[a]] = "none" /\ Effect'[aPlan[a]][cmd[a]] = "pending"
           /\ \A k \in Keys : KeyTells(k)'
           /\ UNCHANGED planSt
<1>1. pc[a] = "send" /\ pc[a] \in OnCommand /\ pc[a] \in Ahead
  BY DEF Send, OnCommand, InLane, Ahead
<1> DEFINE p == aPlan[a]  i == cmd[a]
<1>2. /\ TypeInv /\ Filled(a) /\ AttemptTells(a) /\ PlaceTells(a)
      /\ p \in Plans /\ i \in Cmds /\ Key(a) \in Keys /\ Key(a) = KeyOf[p][i]
  BY <1>1, Own
<1>3. Effect[p][i] = "none" /\ AtCommand(a) BY <1>1, <1>2, NotYet
<1>4. intent[a] = "owned" /\ calls[Key(a)] = 0 /\ writer[Key(a)] = NoPlan
  BY <1>1, <1>2 DEF PlaceTells, AllInv, LedgerInv, HonestInv, KeyTells
<1>5. /\ UNCHANGED <<planSt, ledger, aPlan, cmd, intent, out, verdict>>
      /\ sent'[a] /\ Goto(a, "wait")
      /\ writer'[Key(a)] = p /\ reply'[Key(a)] = "pending"
      /\ \A k \in Keys : k # Key(a) => writer'[k] = writer[k] /\ reply'[k] = reply[k] /\ calls'[k] = calls[k]
  BY <1>2 DEF Send, rowVars, TypeInv, TypeOK, WorldType, FlagType
<1>6. calls'[Key(a)] # 0
  <2>1. calls'[Key(a)] = calls[Key(a)] + 1 BY <1>2 DEF Send, TypeInv, TypeOK, WorldType
  <2> QED BY <1>4, <2>1
<1>7. Effect'[p][i] = "pending" BY <1>2, <1>5 DEF Effect
<1>8. ASSUME NEW q \in Plans, NEW j \in Cmds, q # p \/ j # i
      PROVE  Effect'[q][j] = Effect[q][j] /\ (Mine(q, j)' <=> Mine(q, j))
  <2>1. KeyOf[q][j] \in Keys BY <1>2, EffectType
  <2>2. CASE KeyOf[q][j] = Key(a)
    <3>1. q # p BY <1>2, <1>8, <2>2, KeyAssumption DEF KeyAssumption
    <3>2. NoPlan # q BY ConstantsAssumption DEF ConstantsAssumption
    <3> QED BY <1>4, <1>5, <2>2, <3>1, <3>2 DEF Effect, Mine
  <2>3. CASE KeyOf[q][j] # Key(a) BY <1>5, <2>1, <2>3 DEF Effect, Mine
  <2> QED BY <2>2, <2>3
<1>9. OnlyTrace(p, i) BY <1>8 DEF OnlyTrace
<1>10. OnlyCurrent(a) BY <1>2, <1>5, <1>9 DEF OnlyCurrent, OnlyTrace
<1>11. Filled(a)' /\ AttemptTells(a)'
  BY <1>2, <1>3, <1>5, <1>7, <1>10, MoveTells DEF Ahead, Away
<1>12. \A k \in Keys : KeyTells(k)'
  BY <1>5, <1>6 DEF AllInv, HonestInv, KeyTells
<1> QED BY <1>3, <1>5, <1>7, <1>9, <1>11, <1>12

\* The answer belongs to the command that waits for it.
LEMMA AnswerTells ==
    ASSUME AllInv, DurablePlans, NEW a \in Attempts,
           NEW r \in {"accepted", "rejected", "unreachable", "raised"}, Answer(a, r)
    PROVE  /\ Filled(a)' /\ AttemptTells(a)'
           /\ OnlyTrace(aPlan[a], cmd[a])
           /\ Effect[aPlan[a]][cmd[a]] = "pending"
           /\ Effect'[aPlan[a]][cmd[a]] \in Lifecycle!Replies
           /\ \A k \in Keys : KeyTells(k)'
           /\ UNCHANGED <<planSt, calls, writer>>
<1>1. pc[a] = "wait" /\ pc[a] \in OnCommand
  BY DEF Answer, OnCommand, InLane
<1> DEFINE p == aPlan[a]  i == cmd[a]
<1>2. /\ TypeInv /\ Filled(a) /\ AttemptTells(a) /\ PlaceTells(a) /\ OutcomeTells(a, i)
      /\ p \in Plans /\ i \in Cmds /\ Key(a) \in Keys /\ Key(a) = KeyOf[p][i]
      /\ pc[a] \in Claimed
  BY <1>1, Own
<1>3. Effect[p][i] = "pending" BY <1>1, <1>2 DEF PlaceTells
<1>4. writer[Key(a)] = p BY <1>2, <1>3, EffectType
<1>5. sent[a] BY <1>2, <1>3 DEF OutcomeTells
<1>6. /\ UNCHANGED <<planSt, ledger, calls, writer, aPlan, cmd, sent, intent, verdict>>
      /\ reply'[Key(a)] = IF r \in {"accepted", "rejected"} THEN r ELSE "lost"
      /\ \A k \in Keys : k # Key(a) => reply'[k] = reply[k]
  BY <1>2 DEF Answer, rowVars, TypeInv, TypeOK, WorldType
<1>7. Effect'[p][i] = IF r \in {"accepted", "rejected"} THEN r ELSE "lost"
  BY <1>2, <1>4, <1>6 DEF Effect
<1>8. ASSUME NEW q \in Plans, NEW j \in Cmds, q # p \/ j # i
      PROVE  Effect'[q][j] = Effect[q][j] /\ (Mine(q, j)' <=> Mine(q, j))
  <2>1. KeyOf[q][j] \in Keys BY <1>2, EffectType
  <2>2. CASE KeyOf[q][j] = Key(a)
    <3>1. q # p BY <1>2, <1>8, <2>2, KeyAssumption DEF KeyAssumption
    <3> QED BY <1>4, <1>6, <2>2, <3>1 DEF Effect, Mine
  <2>3. CASE KeyOf[q][j] # Key(a) BY <1>6, <2>1, <2>3 DEF Effect, Mine
  <2> QED BY <2>2, <2>3
<1>9. OnlyTrace(p, i) BY <1>8 DEF OnlyTrace
<1>10. OnlyCurrent(a) BY <1>2, <1>5, <1>6, <1>9 DEF OnlyCurrent, OnlyTrace
<1>11. AtCommand(a) BY <1>1, <1>2 DEF AtCommand, Away
<1>12. Filled(a)' /\ AttemptTells(a)'
  <2>1. CASE r = "accepted"
    <3>1. Goto(a, "acked") /\ UNCHANGED out BY <2>1 DEF Answer
    <3> QED BY <1>2, <1>7, <1>10, <1>11, <2>1, <3>1, MoveTells DEF Ahead, Away
  <2>2. CASE r = "rejected"
    <3>1. Goto(a, "refused") /\ UNCHANGED out BY <2>2 DEF Answer
    <3> QED BY <1>2, <1>7, <1>10, <1>11, <2>2, <3>1, MoveTells DEF Ahead, Away
  <2>3. CASE r = "unreachable"
    <3>1. Conclude(a, "unavailable") BY <2>3 DEF Answer, Unreachable
    <3> QED BY <1>2, <1>10, <1>11, <3>1, ConcludeTells DEF OutcomeStatuses
  <2>4. CASE r = "raised"
    <3>1. Goto(a, "except") BY <2>4 DEF Answer
    <3> QED BY <1>2, <1>6, <3>1, ExceptTells
  <2> QED BY <2>1, <2>2, <2>3, <2>4
<1>13. Effect'[p][i] \in Lifecycle!Replies BY <1>7 DEF Lifecycle!Replies
<1>14. \A k \in Keys : KeyTells(k)'
  <2>1. calls[Key(a)] # 0 BY <1>2, <1>4, ConstantsAssumption DEF ConstantsAssumption, AllInv, HonestInv, KeyTells
  <2>2. reply'[Key(a)] # "none" BY <1>6
  <2> QED BY <1>6, <2>1, <2>2 DEF KeyTells, AllInv, HonestInv
<1> QED BY <1>3, <1>6, <1>9, <1>12, <1>13, <1>14

\* Settlement changes the status of a row that exists, and nothing else of it.
LEMMA SettledRows ==
    ASSUME AllInv, DurablePlans, NEW a \in Attempts, SettleAck(a) \/ RecordOutcome(a)
    PROVE  RowsKept /\ UNCHANGED <<planSt, writer, reply, calls>>
<1>1. pc[a] \in OnCommand BY DEF SettleAck, RecordOutcome, OnCommand
<1>2. TypeInv /\ Key(a) \in Keys BY <1>1, Own
<1>3. PICK status \in IntentStatuses \ {"absent"} : Settle(a, status)
  BY DEF SettleAck, RecordOutcome, FinalIntent, IntentStatuses
<1>4. RowsKept BY <1>2, <1>3, SettleRows DEF RowsKept, TypeInv, TypeOK
<1> QED BY <1>4 DEF SettleAck, RecordOutcome, worldVars

\* The acknowledgement changes the row's status; the command is as accepted as before.
LEMMA SettleAckTells ==
    ASSUME AllInv, DurablePlans, NEW a \in Attempts, SettleAck(a)
    PROVE  Filled(a)' /\ AttemptTells(a)'
<1>1. pc[a] \in {"acked", "refused"} /\ pc[a] \in OnCommand BY DEF SettleAck, OnCommand
<1>2. /\ TypeInv /\ Filled(a) /\ AttemptTells(a) /\ PlaceTells(a) /\ OutcomeTells(a, cmd[a])
      /\ aPlan[a] \in Plans /\ cmd[a] \in Cmds
  BY <1>1, Own
<1>3. RowsKept /\ UNCHANGED <<planSt, writer, reply>> BY SettledRows
<1>4. PlanKept(aPlan[a]) BY <1>2, <1>3, TraceKept
<1>5. UNCHANGED <<aPlan, cmd, sent, intent, verdict>> BY DEF SettleAck
<1>6. OnlyCurrent(a)
  BY <1>2, <1>3, <1>4, <1>5 DEF OnlyCurrent, PlanKept, OutcomeTells
<1>7. AtCommand(a) BY <1>1, <1>2 DEF AtCommand, Away
<1>8. CASE pc[a] = "acked"
  <2>1. Goto(a, "readback") /\ UNCHANGED out BY <1>8 DEF SettleAck
  <2>2. Effect'[aPlan[a]][cmd[a]] = "accepted" BY <1>2, <1>4, <1>8 DEF PlaceTells, PlanKept
  <2> QED BY <1>2, <1>6, <1>7, <2>1, <2>2, MoveTells DEF Ahead, Away
<1>9. CASE pc[a] = "refused"
  <2>1. Conclude(a, "rejected") BY <1>9 DEF SettleAck
  <2>2. Effect'[aPlan[a]][cmd[a]] = "rejected" BY <1>2, <1>4, <1>9 DEF PlaceTells, PlanKept
  <2> QED BY <1>2, <1>6, <1>7, <2>1, <2>2, ConcludeTells DEF OutcomeStatuses
<1> QED BY <1>1, <1>8, <1>9

\* Commands that are given up were not sent.
LEMMA RecordTells ==
    ASSUME AllInv, DurablePlans, NEW a \in Attempts, RecordOutcome(a)
    PROVE  Filled(a)' /\ AttemptTells(a)'
<1>1. pc[a] = "outcome" /\ pc[a] \in OnCommand BY DEF RecordOutcome, OnCommand
<1>2. /\ TypeInv /\ Filled(a) /\ AttemptTells(a)
      /\ aPlan[a] \in Plans /\ cmd[a] \in Cmds /\ pc[a] \in Claimed \ {"except"}
  BY <1>1, Own
<1>3. RowsKept /\ UNCHANGED <<planSt, writer, reply>> BY SettledRows
<1>4. PlanKept(aPlan[a]) BY <1>2, <1>3, TraceKept
<1>5. UNCHANGED <<aPlan, sent, verdict>> /\ pc'[a] = "command"
  BY DEF RecordOutcome, Goto, TypeInv, TypeOK, AttemptType, AllInv
<1>6. /\ cmd'[a] \in {cmd[a] + 1, NumCmds + 1}
      /\ \A i \in Cmds : i <= cmd[a] => out'[a][i] = out[a][i]
      /\ \A i \in Cmds : i > cmd[a] => out'[a][i] \in {out[a][i], "rejected"}
      /\ cmd'[a] # NumCmds + 1 => \A i \in Cmds : out'[a][i] = out[a][i]
  <2> DEFINE stop == held[a] /\ LatchedCmd[aPlan[a]] = cmd[a] /\ out[a][cmd[a]] # "confirmed"
  <2>1. /\ cmd' = [cmd EXCEPT ![a] = IF stop THEN NumCmds + 1 ELSE cmd[a] + 1]
        /\ out' = IF stop THEN [out EXCEPT ![a] = [j \in Cmds |-> IF j > cmd[a] THEN "rejected" ELSE out[a][j]]]
                          ELSE out
    BY DEF RecordOutcome
  <2>2. cmd \in [Attempts -> 1..(NumCmds + 1)] /\ out \in [Attempts -> [Cmds -> OutcomeStatuses]]
    BY <1>2 DEF TypeInv, TypeOK, AttemptType
  <2>3. CASE stop
    <3>1. cmd'[a] = NumCmds + 1 BY <2>1, <2>2, <2>3
    <3>2. \A j \in Cmds : out'[a][j] = IF j > cmd[a] THEN "rejected" ELSE out[a][j] BY <2>1, <2>2, <2>3
    <3>3. \A j \in Cmds : j <= cmd[a] => ~(j > cmd[a])
      BY <1>2, KeyAssumption DEF Cmds, KeyAssumption
    <3> QED BY <3>1, <3>2, <3>3
  <2>4. CASE ~stop BY <2>1, <2>2, <2>4
  <2> QED BY <2>3, <2>4
<1>7. \A i \in Cmds : i > cmd[a] => out[a][i] = "none" BY <1>1, <1>2 DEF Filled
<1>8. Filled(a)'
  <2>1. ASSUME NEW i \in Cmds, i >= cmd'[a] PROVE out'[a][i] = "none"
    <3>1. cmd'[a] # NumCmds + 1 /\ i > cmd[a]
      BY <1>2, <1>6, <2>1, KeyAssumption DEF Cmds, KeyAssumption
    <3> QED BY <1>6, <1>7, <3>1
  <2> QED BY <1>5, <2>1 DEF Filled, Away
<1>9. PlaceTells(a)' BY <1>5 DEF PlaceTells
<1>10. ASSUME NEW i \in Cmds PROVE OutcomeTells(a, i)'
  <2>1. OutcomeTells(a, i) BY <1>2 DEF AttemptTells
  <2>2. pc[a] \notin Away \cup {"send"} /\ pc'[a] \notin Away \cup {"send"} BY <1>1, <1>5 DEF Away
  <2>3. CASE out'[a][i] = out[a][i]
    BY <1>4, <1>5, <2>1, <2>2, <2>3 DEF OutcomeTells, PlanKept
  <2>4. CASE out'[a][i] # out[a][i]
    <3>1. out[a][i] = "none" /\ out'[a][i] = "rejected"
      BY <1>2, <1>6, <1>7, <2>4, KeyAssumption DEF Cmds, KeyAssumption
    <3> QED BY <1>4, <1>5, <2>1, <2>2, <3>1 DEF OutcomeTells, PlanKept
  <2> QED BY <2>3, <2>4
<1>11. planSt'[aPlan'[a]] \in {"executing", "unknown"}
  BY <1>2, <1>3, <1>5 DEF AttemptTells
<1> QED BY <1>8, <1>9, <1>10, <1>11 DEF AttemptTells
-----------------------------------------------------------------------------
(* Every step keeps the invariant and is a step, or a stutter, of PlanLifecycle. *)

Simulated == Lifecycle!Next \/ UNCHANGED <<planSt, Effect>>

\* A step of one attempt leaves the locals of the others alone.
LEMMA OthersKeep ==
    ASSUME TypeInv, NEW a \in Attempts, Step(a) \/ CancelCall(a), NEW b \in Attempts, b # a
    PROVE  LocalsKept(b)
<1> USE DEF TypeInv, TypeOK, AttemptType, FlagType, LocalsKept
<1>0. CASE Admit(a) \/ Preflight(a) \/ Takeover(a)
  BY <1>0 DEF Admit, Preflight, Takeover, RejectPlan, Goto
<1>1. CASE SkipCommand(a) \/ PrepareCommand(a) \/ Dispatch(a) \/ Fence(a)
  BY <1>1 DEF SkipCommand, PrepareCommand, Dispatch, Fence, Goto, Conclude
<1>7. CASE NotSent(a) \/ ServeReplay(a) \/ Readback(a) \/ FinishLoop(a) \/ CancelCall(a)
  BY <1>7 DEF NotSent, ServeReplay, Readback, FinishLoop, CancelCall, Goto, Conclude
<1>2. CASE ClaimIntent(a) \/ Send(a) \/ SettleAck(a)
  BY <1>2 DEF ClaimIntent, Send, SettleAck, Goto, Conclude
<1>3. CASE RecordOutcome(a)
  BY <1>3 DEF RecordOutcome, Goto
<1>4. ASSUME NEW r \in {"accepted", "rejected", "unreachable", "raised"}, Answer(a, r)
      PROVE  LocalsKept(b)
  BY <1>4 DEF Answer, Goto, Conclude
<1>5. CASE AdmitRefused(a) \/ HandleException(a)
  BY <1>5 DEF AdmitRefused, HandleException, EndTasks
<1>6. CASE Claim(a) \/ SettleExecution(a)
  <2>1. CASE EndTasks({a}) BY <2>1 DEF EndTasks
  <2>2. CASE /\ Goto(a, "preflight") \/ Goto(a, "except")
             /\ UNCHANGED <<aPlan, cmd, sent, intent, out, verdict>>
    BY <2>2 DEF Goto
  <2> QED BY <1>6, <2>1, <2>2 DEF Claim, SettleExecution
<1> QED BY <1>0, <1>1, <1>2, <1>3, <1>4, <1>5, <1>6, <1>7 DEF Step

\* Steps that leave every trace alone.
LEMMA QuietHonest ==
    ASSUME AllInv, RowsKept, UNCHANGED <<writer, reply, calls, planSt>>,
           \A b \in Attempts : LocalsKept(b) \/ (Filled(b)' /\ AttemptTells(b)')
    PROVE  HonestInv' /\ UNCHANGED <<planSt, Effect>>
<1> USE DEF AllInv
<1>1. \A q \in Plans : PlanKept(q) BY TraceKept
<1>2. \A q \in Plans : PlanTells(q)' BY <1>1, KeptPlan DEF HonestInv
<1>3. ASSUME NEW b \in Attempts PROVE Filled(b)' /\ AttemptTells(b)'
  <2>1. pc[b] \in Claimed => aPlan[b] \in Plans BY DEF TypeInv, AttemptsOK, Running
  <2>2. LocalsKept(b) => AttemptKept(b) BY <1>1, <2>1 DEF AttemptKept
  <2> QED BY <2>2, KeptAttempt DEF HonestInv
<1>4. UNCHANGED Effect BY DEF Effect
<1> QED BY <1>2, <1>3, <1>4 DEF HonestInv, KeyTells

\* Steps that touch one command of one plan.
LEMMA TouchHonest ==
    ASSUME AllInv, DurablePlans, NEW a \in Attempts, pc[a] \in OnCommand,
           OnlyTrace(aPlan[a], cmd[a]), UNCHANGED planSt,
           \A k \in Keys : KeyTells(k)',
           Filled(a)' /\ AttemptTells(a)', \A b \in Attempts \ {a} : LocalsKept(b)
    PROVE  HonestInv'
<1>1. /\ pc[a] \in Claimed \ {"except"} /\ aPlan[a] \in Plans /\ AttemptTells(a)
      /\ \A b \in Attempts : b # a /\ pc[b] \in Claimed => aPlan[b] \in Plans /\ aPlan[b] # aPlan[a]
  BY Own
<1>2. \A q \in Plans : q # aPlan[a] => PlanKept(q) BY DEF OnlyTrace, PlanKept
<1>3. ASSUME NEW q \in Plans PROVE PlanTells(q)'
  <2>1. CASE q = aPlan[a]
    <3>1. planSt'[q] \in {"executing", "unknown"} BY <1>1, <2>1 DEF AttemptTells
    <3> QED BY <3>1 DEF PlanTells, Terminal, Lifecycle!Tells
  <2>2. CASE q # aPlan[a] BY <1>2, <2>2, KeptPlan DEF AllInv, HonestInv
  <2> QED BY <2>1, <2>2
<1>4. ASSUME NEW b \in Attempts, b # a PROVE Filled(b)' /\ AttemptTells(b)'
  <2>1. AttemptKept(b) BY <1>1, <1>2, <1>4 DEF AttemptKept
  <2> QED BY <2>1, KeptAttempt DEF AllInv, HonestInv
<1> QED BY <1>3, <1>4 DEF HonestInv

\* The abstract effects change in one place.
LEMMA EffectChanges ==
    ASSUME NEW p \in Plans, NEW i \in Cmds, OnlyTrace(p, i)
    PROVE  Effect' = [Effect EXCEPT ![p][i] = Effect'[p][i]]
<1>1. /\ Effect = [q \in Plans |-> [j \in Cmds |-> Effect[q][j]]]
      /\ Effect' = [q \in Plans |-> [j \in Cmds |-> Effect'[q][j]]]
  BY DEF Effect
<1>2. \A q \in Plans, j \in Cmds : q # p \/ j # i => Effect'[q][j] = Effect[q][j] BY DEF OnlyTrace
<1>3. \A q \in Plans : q # p => Effect'[q] = Effect[q] BY <1>1, <1>2
<1>4. Effect'[p] = [Effect[p] EXCEPT ![i] = Effect'[p][i]] BY <1>1, <1>2
<1> QED BY <1>1, <1>3, <1>4

\* The steps of an attempt that change neither its plan's row nor the world.
Inside(a) ==
    \/ Admit(a) \/ Preflight(a) \/ Takeover(a) \/ SkipCommand(a) \/ PrepareCommand(a) \/ Dispatch(a)
    \/ Fence(a) \/ NotSent(a) \/ ServeReplay(a) \/ SettleAck(a) \/ Readback(a) \/ RecordOutcome(a)
    \/ FinishLoop(a) \/ CancelCall(a)

\* They keep the invariant and are stutters of the abstract specification.
LEMMA InsideSimulated ==
    ASSUME AllInv, Fenced, DurablePlans, NEW a \in Attempts, Inside(a)
    PROVE  HonestInv' /\ Simulated
<1> SUFFICES HonestInv' /\ UNCHANGED <<planSt, Effect>> BY DEF Simulated
<1>1. \A b \in Attempts \ {a} : LocalsKept(b)
  BY OthersKeep DEF AllInv, Inside, Step
<1>2. CASE SettleAck(a) \/ RecordOutcome(a)
  <2>1. RowsKept /\ UNCHANGED <<planSt, writer, reply, calls>> BY <1>2, SettledRows
  <2>2. Filled(a)' /\ AttemptTells(a)' BY <1>2, SettleAckTells, RecordTells
  <2> QED BY <1>1, <2>1, <2>2, QuietHonest
<1>3. CASE ~(SettleAck(a) \/ RecordOutcome(a))
  <2>1. Local
    BY <1>3 DEF Inside, Admit, Preflight, Takeover, SkipCommand, PrepareCommand, Dispatch, Fence, NotSent,
                ServeReplay, Readback, FinishLoop, CancelCall
  <2>2. RowsKept /\ UNCHANGED <<planSt, writer, reply, calls>>
    BY <2>1 DEF Local, rowVars, worldVars, RowsKept
  <2>3. CASE CancelCall(a)
    <3>1. LocalsKept(a) BY <2>3 DEF CancelCall, LocalsKept
    <3> QED BY <1>1, <2>2, <3>1, QuietHonest
  <2>4. ~ServeReplay(a)
    <3> SUFFICES ASSUME ServeReplay(a) PROVE FALSE OBVIOUS
    <3>1. pc[a] = "send" /\ pc[a] \in OnCommand /\ intent[a] = "replay_ok"
      BY DEF ServeReplay, OnCommand, InLane
    <3> QED BY <3>1, Own DEF PlaceTells
  <2>5. CASE ~CancelCall(a)
    <3>1. Filled(a)' /\ AttemptTells(a)'
      BY <1>3, <2>4, <2>5, EarlyTells, SkipTells, QuietCommandTells, VerdictTells DEF Inside
    <3> QED BY <1>1, <2>2, <3>1, QuietHonest
  <2> QED BY <2>3, <2>5
<1> QED BY <1>2, <1>3

\* The steps at the ledger and at the adapter.
LEMMA OutsideSimulated ==
    ASSUME AllInv, Fenced, DurablePlans, NEW a \in Attempts,
           \/ ClaimIntent(a) \/ Send(a)
           \/ \E r \in {"accepted", "rejected", "unreachable", "raised"} : Answer(a, r)
    PROVE  HonestInv' /\ Simulated
<1> DEFINE p == aPlan[a]  i == cmd[a]
<1>1. pc[a] \in OnCommand BY DEF ClaimIntent, Send, Answer, OnCommand, InLane
<1>2. p \in Plans /\ i \in Cmds /\ AttemptTells(a) /\ pc[a] \in Claimed BY <1>1, Own
<1>3. planSt[p] \in {"executing", "unknown"} BY <1>1, <1>2 DEF AttemptTells, OnCommand, InLane
<1>4. \A b \in Attempts \ {a} : LocalsKept(b) BY OthersKeep DEF AllInv, Step
<1>5. CASE ClaimIntent(a)
  <2>1. /\ Filled(a)' /\ AttemptTells(a)' /\ OnlyTrace(p, i)
        /\ UNCHANGED <<planSt, writer, calls, reply>>
    BY <1>5, ClaimIntentTells
  <2>2. \A k \in Keys : KeyTells(k)' BY <2>1 DEF AllInv, HonestInv, KeyTells
  <2>3. HonestInv' BY <1>1, <1>4, <2>1, <2>2, TouchHonest
  <2>4. UNCHANGED Effect BY <2>1 DEF Effect
  <2> QED BY <2>1, <2>3, <2>4 DEF Simulated
<1>6. CASE Send(a)
  <2>1. /\ Filled(a)' /\ AttemptTells(a)' /\ OnlyTrace(p, i)
        /\ Effect[p][i] = "none" /\ Effect'[p][i] = "pending"
        /\ \A k \in Keys : KeyTells(k)'
        /\ UNCHANGED planSt
    BY <1>6, SendTells
  <2>2. HonestInv' BY <1>1, <1>4, <2>1, TouchHonest
  <2>3. Effect' = [Effect EXCEPT ![p][i] = "pending"] BY <1>2, <2>1, EffectChanges
  <2>4. Lifecycle!Call(p, i) BY <1>3, <2>1, <2>3 DEF Lifecycle!Call
  <2> QED BY <1>2, <2>2, <2>4 DEF Simulated, Lifecycle!Next
<1>7. ASSUME NEW r \in {"accepted", "rejected", "unreachable", "raised"}, Answer(a, r)
      PROVE  HonestInv' /\ Simulated
  <2>1. /\ Filled(a)' /\ AttemptTells(a)' /\ OnlyTrace(p, i)
        /\ Effect[p][i] = "pending" /\ Effect'[p][i] \in Lifecycle!Replies
        /\ \A k \in Keys : KeyTells(k)'
        /\ UNCHANGED <<planSt, calls, writer>>
    BY <1>7, AnswerTells
  <2>3. HonestInv' BY <1>1, <1>4, <2>1, TouchHonest
  <2>4. Effect' = [Effect EXCEPT ![p][i] = Effect'[p][i]] BY <1>2, <2>1, EffectChanges
  <2>5. Lifecycle!Reply(p, i, Effect'[p][i]) BY <1>3, <2>1, <2>4 DEF Lifecycle!Reply
  <2> QED BY <1>2, <2>1, <2>3, <2>5 DEF Simulated, Lifecycle!Next
<1> QED BY <1>5, <1>6, <1>7

\* Plan rows are rewritten, and no trace: the plans that change are settled, or given up.
LEMMA RewriteHonest ==
    ASSUME AllInv, UNCHANGED <<writer, reply, calls, ledger>>,
           \A q \in Plans : PlanKept(q) \/ PlanTells(q)',
           \A b \in Attempts : Filled(b)' /\ AttemptTells(b)'
    PROVE  HonestInv' /\ UNCHANGED Effect
<1>1. \A q \in Plans : PlanTells(q)' BY KeptPlan DEF AllInv, HonestInv
<1>2. UNCHANGED Effect BY DEF Effect
<1> QED BY <1>1, <1>2 DEF AllInv, HonestInv, KeyTells

\* Tasks end while no row changes.
LEMMA EndSimulated ==
    ASSUME AllInv, NEW A, EndTasks(A), UNCHANGED <<writer, reply, calls, ledger, planSt>>
    PROVE  HonestInv' /\ Simulated
<1> USE DEF AllInv
<1>1. RowsKept BY DEF RowsKept
<1>2. \A q \in Plans : PlanKept(q) BY <1>1, TraceKept
<1>3. ASSUME NEW b \in Attempts PROVE Filled(b)' /\ AttemptTells(b)'
  <2>1. pc[b] \in Claimed => aPlan[b] \in Plans BY DEF TypeInv, AttemptsOK, Running
  <2> QED BY <1>2, <2>1, EndedTells DEF HonestInv
<1> QED BY <1>2, <1>3, RewriteHonest DEF Simulated

\* A plan is begun from READY, where it has left no trace and nobody works on it.
LEMMA ClaimSimulated ==
    ASSUME AllInv, DurablePlans, NEW a \in Attempts, Claim(a)
    PROVE  HonestInv' /\ Simulated
<1> USE DEF AllInv
<1>0. PICK p \in Plans : p = aPlan[a] BY DEF Claim, TypeInv, AttemptsOK, Running
<1>1. pc[a] = "claim" /\ p = aPlan[a] /\ Filled(a) /\ UNCHANGED <<writer, reply, calls, ledger>>
  BY <1>0 DEF Claim, HonestInv, worldVars
<1>2. CASE EndTasks({a}) /\ UNCHANGED planSt BY <1>1, <1>2, EndSimulated
<1>3. CASE /\ ClaimOpen(p) /\ planSt' = [planSt EXCEPT ![p] = "executing"]
           /\ \/ Goto(a, "preflight") /\ UNCHANGED <<aPlan, out>>
              \/ EndTasks({a})
  <2>1. planSt[p] = "ready" BY <1>3 DEF ClaimOpen, Claimable
  <2>2. planSt'[p] = "executing" /\ \A q \in Plans : q # p => planSt'[q] = planSt[q]
    BY <1>1, <1>3 DEF TypeInv, TypeOK, RowType
  <2>3. Untouched(p) BY <1>1, <2>1 DEF HonestInv, PlanTells
  <2>4. \A i \in Cmds : Effect'[p][i] = "none" /\ ~Mine(p, i)'
    BY <1>1, <2>3 DEF Untouched, Mine, Effect
  <2>5. RowsKept BY <1>1 DEF RowsKept
  <2>6. \A q \in Plans : q # p => PlanKept(q) BY <1>1, <2>2, <2>5, TraceKept
  <2>7. PlanTells(p)' BY <2>2 DEF PlanTells, Terminal
  <2>8. ASSUME NEW b \in Attempts, b # a PROVE Filled(b)' /\ AttemptTells(b)'
    <3>1. LocalsKept(b) BY <2>8, OthersKeep DEF Step
    <3>2. pc[b] \in Claimed => aPlan[b] \in Plans /\ aPlan[b] # p
      BY <2>1 DEF ClaimInv, Claimable, TypeInv, AttemptsOK, Running
    <3>3. AttemptKept(b) BY <2>6, <3>1, <3>2 DEF AttemptKept
    <3> QED BY <3>3, KeptAttempt DEF HonestInv
  <2>9. Filled(a)' /\ AttemptTells(a)'
    <3>1. CASE Goto(a, "preflight") /\ UNCHANGED <<aPlan, out>>
      <4>1. pc'[a] = "preflight" /\ \A i \in Cmds : out'[a][i] = "none"
        BY <1>1, <3>1 DEF Goto, Filled, TypeInv, TypeOK, AttemptType
      <4>2. Filled(a)' BY <4>1 DEF Filled, Ahead, Away
      <4>3. PlaceTells(a)' BY <4>1 DEF PlaceTells
      <4>4. aPlan'[a] = p BY <1>1, <3>1
      <4>5. \A i \in Cmds : OutcomeTells(a, i)' BY <2>4, <4>1, <4>4 DEF OutcomeTells
      <4> QED BY <2>2, <4>2, <4>3, <4>4, <4>5 DEF AttemptTells
    <3>2. CASE EndTasks({a})
      BY <3>2 DEF EndTasks, Filled, AttemptTells, Claimed, InLane, Ahead, Away
    <3> QED BY <1>3, <3>1, <3>2
  <2>10. HonestInv' /\ UNCHANGED Effect
    <3>1. \A b \in Attempts : Filled(b)' /\ AttemptTells(b)' BY <2>8, <2>9
    <3>2. \A q \in Plans : PlanKept(q) \/ PlanTells(q)' BY <2>6, <2>7
    <3> QED BY <1>1, <3>1, <3>2, RewriteHonest
  <2>11. Lifecycle!Begin(p) BY <1>3, <2>1, <2>10 DEF Lifecycle!Begin
  <2> QED BY <1>1, <2>10, <2>11 DEF Simulated, Lifecycle!Next
<1> QED BY <1>1, <1>2, <1>3 DEF Claim

\* A plan is settled with the verdict that tells, or not at all.
LEMMA SettleSimulated ==
    ASSUME AllInv, DurablePlans, NEW a \in Attempts, SettleExecution(a)
    PROVE  HonestInv' /\ Simulated
<1> USE DEF AllInv
<1>0. PICK p \in Plans : p = aPlan[a] BY DEF SettleExecution, TypeInv, AttemptsOK, Running, Claimed
<1>1. /\ pc[a] = "settle" /\ pc[a] \in Claimed /\ p = aPlan[a]
      /\ Filled(a) /\ AttemptTells(a) /\ PlaceTells(a) /\ verdict[a] \in Terminal
      /\ UNCHANGED <<writer, reply, calls, ledger>>
  BY <1>0 DEF SettleExecution, TypeInv, AttemptsOK, Running, Claimed, HonestInv, AttemptTells, worldVars
<1>2. RowsKept BY <1>1 DEF RowsKept
<1>3. CASE Goto(a, "except") /\ UNCHANGED <<planSt, aPlan>>
  <2>1. Filled(a)' /\ AttemptTells(a)' BY <1>1, <1>3, ExceptTells
  <2>2. \A b \in Attempts : LocalsKept(b) \/ (Filled(b)' /\ AttemptTells(b)')
    BY <2>1, OthersKeep DEF Step
  <2> QED BY <1>1, <1>2, <1>3, <2>2, QuietHonest DEF Simulated
<1>4. CASE /\ SettleOpen(p) /\ planSt' = [planSt EXCEPT ![p] = verdict[a]]
           /\ EndTasks({a}) \/ Goto(a, "except")
  <2>1. planSt[p] = "executing" /\ Lifecycle!Tells(verdict[a], Effect[p])
    BY <1>1, <1>4 DEF SettleOpen, PlaceTells
  <2>2. planSt'[p] = verdict[a] /\ \A q \in Plans : q # p => planSt'[q] = planSt[q]
    BY <1>1, <1>4 DEF TypeInv, TypeOK, RowType
  <2>3. \A q \in Plans : q # p => PlanKept(q) BY <1>1, <1>2, <2>2, TraceKept
  <2>4. UNCHANGED Effect BY <1>1 DEF Effect
  <2>5. PlanTells(p)' BY <1>1, <2>1, <2>2, <2>4 DEF PlanTells, Terminal
  <2>6. ASSUME NEW b \in Attempts PROVE Filled(b)' /\ AttemptTells(b)'
    <3>1. pc[b] \in Claimed /\ b \notin {a} => aPlan[b] \in Plans /\ aPlan[b] # p
      BY <1>1 DEF ClaimInv, OneExecutorPerPlan, TypeInv, AttemptsOK, Running
    <3>2. pc[b] \in Claimed /\ b \notin {a} => PlanKept(aPlan[b]) BY <2>3, <3>1
    <3>3. CASE EndTasks({a}) BY <3>2, <3>3, EndedTells DEF HonestInv
    <3>4. CASE Goto(a, "except") /\ b = a BY <3>4, ExceptTells
    <3>5. CASE b # a
      <4>1. LocalsKept(b) BY <3>5, OthersKeep DEF Step
      <4> QED BY <3>2, <3>5, <4>1, KeptAttempt DEF AttemptKept, HonestInv
    <3> QED BY <1>4, <3>3, <3>4, <3>5
  <2>7. HonestInv'
    <3>1. \A q \in Plans : PlanKept(q) \/ PlanTells(q)' BY <2>3, <2>5
    <3> QED BY <1>1, <2>6, <3>1, RewriteHonest
  <2>8. Lifecycle!Settle(p, verdict[a]) /\ verdict[a] \in Lifecycle!Verdicts
    BY <1>1, <1>4, <2>1, <2>4 DEF Lifecycle!Settle, Lifecycle!Verdicts, Terminal
  <2> QED BY <1>1, <2>7, <2>8 DEF Simulated, Lifecycle!Next
<1> QED BY <1>1, <1>3, <1>4 DEF SettleExecution

\* Executions are given up, by the exception path or by a recovery.
LEMMA GiveUpSimulated ==
    ASSUME AllInv, UNCHANGED <<writer, reply, calls, ledger>>,
           NEW S \in SUBSET Plans, \A p \in S : planSt[p] = "executing",
           planSt' = [p \in Plans |-> IF p \in S THEN "unknown" ELSE planSt[p]],
           NEW A, EndTasks(A) \/ UNCHANGED attemptVars
    PROVE  HonestInv' /\ Simulated
<1> USE DEF AllInv
<1>1. RowsKept BY DEF RowsKept
<1>2. \A q \in Plans : PlanKept(q)
  <2> SUFFICES ASSUME NEW q \in Plans PROVE PlanKept(q) OBVIOUS
  <2>1. planSt'[q] = planSt[q] \/ (planSt[q] = "executing" /\ planSt'[q] = "unknown") OBVIOUS
  <2> QED BY <1>1, <2>1, TraceKept
<1>3. ASSUME NEW b \in Attempts PROVE Filled(b)' /\ AttemptTells(b)'
  <2>1. pc[b] \in Claimed => aPlan[b] \in Plans BY DEF TypeInv, AttemptsOK, Running
  <2>2. CASE EndTasks(A) BY <1>2, <2>1, <2>2, EndedTells DEF HonestInv
  <2>3. CASE UNCHANGED attemptVars
    <3>1. AttemptKept(b) BY <1>2, <2>1, <2>3 DEF AttemptKept, LocalsKept, attemptVars
    <3> QED BY <3>1, KeptAttempt DEF HonestInv
  <2> QED BY <2>2, <2>3
<1>4. HonestInv' /\ UNCHANGED Effect BY <1>2, <1>3, RewriteHonest
<1>5. Lifecycle!GiveUp(S) BY <1>4 DEF Lifecycle!GiveUp
<1> QED BY <1>4, <1>5 DEF Simulated, Lifecycle!Next

\* The exception path (mark_unknown_if_executing) gives up at most the attempt's own plan.
LEMMA ExceptionSimulated ==
    ASSUME AllInv, DurablePlans, NEW a \in Attempts, HandleException(a)
    PROVE  HonestInv' /\ Simulated
<1>0. PICK p \in Plans : p = aPlan[a]
  BY DEF HandleException, AllInv, TypeInv, AttemptsOK, Running, Claimed
<1>1. /\ EndTasks({a}) /\ UNCHANGED <<writer, reply, calls, ledger>>
      /\ planSt \in [Plans -> PlanStatuses]
  BY DEF HandleException, worldVars, AllInv, TypeInv, TypeOK, RowType
<1>2. CASE planSt[p] = "executing"
  <2>1. PICK S \in SUBSET Plans : S = {p} OBVIOUS
  <2>2. \/ planSt' = planSt
        \/ planSt' = [q \in Plans |-> IF q \in S THEN "unknown" ELSE planSt[q]]
    BY <1>0, <1>1, <1>2, <2>1 DEF HandleException, MarkUnknown
  <2>3. \A q \in S : planSt[q] = "executing" BY <1>2, <2>1
  <2>4. CASE planSt' = planSt BY <1>1, <2>4, EndSimulated
  <2> QED BY <1>1, <2>2, <2>3, <2>4, GiveUpSimulated
<1>3. CASE planSt[p] # "executing"
  BY <1>0, <1>1, <1>3, EndSimulated DEF HandleException, MarkUnknown
<1> QED BY <1>2, <1>3

\* Recovery of plans.
LEMMA RecoverySimulated ==
    ASSUME AllInv, NEW h \in Hosts, RecoverPlans(h) \/ (\E p \in Plans : PeriodicRecovery(h, p))
    PROVE  HonestInv' /\ Simulated
<1>1. UNCHANGED <<writer, reply, calls, ledger>> /\ UNCHANGED attemptVars
  BY DEF RecoverPlans, PeriodicRecovery, worldVars
<1>2. PICK S \in SUBSET Plans :
         /\ \A p \in S : planSt[p] = "executing"
         /\ planSt' = [p \in Plans |-> IF p \in S THEN "unknown" ELSE planSt[p]]
  <2>1. CASE RecoverPlans(h)
    <3> DEFINE S == {p \in Plans : Orphaned(h, p)}
    <3>1. \A p \in S : planSt[p] = "executing" BY DEF Orphaned
    <3>2. planSt' = [p \in Plans |-> IF p \in S THEN "unknown" ELSE planSt[p]]
      BY <2>1 DEF RecoverPlans
    <3> QED BY <3>1, <3>2
  <2>2. ASSUME NEW p \in Plans, PeriodicRecovery(h, p)
        PROVE  \E S \in SUBSET Plans :
                  /\ \A q \in S : planSt[q] = "executing"
                  /\ planSt' = [q \in Plans |-> IF q \in S THEN "unknown" ELSE planSt[q]]
    <3>1. planSt[p] = "executing" /\ planSt' = [planSt EXCEPT ![p] = "unknown"]
      BY <2>2 DEF PeriodicRecovery, Orphaned
    <3>2. planSt' = [q \in Plans |-> IF q \in {p} THEN "unknown" ELSE planSt[q]]
      BY <3>1 DEF AllInv, TypeInv, TypeOK, RowType
    <3> QED BY <3>1, <3>2
  <2> QED BY <2>1, <2>2
<1> QED BY <1>1, <1>2, GiveUpSimulated

\* The remaining steps change no plan row, no trace and no claimed attempt's locals.
LEMMA QuietSimulated ==
    ASSUME AllInv, RowsKept, UNCHANGED <<writer, reply, calls, planSt>>,
           \A b \in Attempts : LocalsKept(b) \/ (Filled(b)' /\ AttemptTells(b)')
    PROVE  HonestInv' /\ Simulated
  BY QuietHonest DEF Simulated

\* A new call of execute() has nothing to tell yet.
LEMMA ExecuteSimulated ==
    ASSUME AllInv, NEW a \in Attempts, NEW h \in Hosts, NEW p \in Plans, Execute(a, h, p)
    PROVE  HonestInv' /\ Simulated
<1> USE DEF AllInv, TypeInv, TypeOK, AttemptType
<1>1. RowsKept /\ UNCHANGED <<writer, reply, calls, planSt>>
  BY DEF Execute, Local, rowVars, worldVars, RowsKept
<1>2. pc[a] = "idle" /\ pc'[a] = "admit" /\ out' = out /\ Filled(a)
  BY DEF Execute, Goto, HonestInv
<1>3. Filled(a)' /\ AttemptTells(a)'
  BY <1>2 DEF Filled, AttemptTells, Ahead, Away, Claimed, InLane
<1>4. \A b \in Attempts : b # a => LocalsKept(b)
  BY DEF Execute, Goto, LocalsKept
<1> QED BY <1>1, <1>3, <1>4, QuietSimulated

\* Leases, closing, time and the recovery of ledger rows.
LEMMA HostSimulated ==
    ASSUME AllInv,
           \/ \E h \in Hosts : \/ StartHost(h) \/ RecoverIntents(h) \/ RenewFails(h)
                               \/ CloseHost(h) \/ CloseDone(h)
           \/ ExpireLease \/ ReleaseStaleOwner \/ \E p \in Plans : LapseRow(p)
    PROVE  HonestInv' /\ Simulated
<1>1. /\ UNCHANGED <<writer, reply, calls, planSt>>
      /\ UNCHANGED <<pc, aPlan, cmd, sent, intent, out, verdict>>
  BY DEF StartHost, RecoverIntents, RenewFails, CloseHost, CloseDone, ExpireLease, ReleaseStaleOwner,
         LapseRow, rowVars, worldVars, attemptVars
<1>2. RowsKept
  <2>1. CASE UNCHANGED ledger BY <2>1 DEF RowsKept
  <2>2. ASSUME NEW h \in Hosts, RecoverIntents(h) PROVE RowsKept
    <3> SUFFICES ASSUME NEW k \in Keys
                 PROVE  /\ ledger'[k].status = "absent" <=> ledger[k].status = "absent"
                        /\ ledger'[k].plan = ledger[k].plan /\ ledger'[k].cmd = ledger[k].cmd
      BY DEF RowsKept
    <3>1. ledger'[k] = RecoverRow(h, ledger[k]) /\ ledger[k] \in Rows
      BY <2>2 DEF RecoverIntents, AllInv, TypeInv, TypeOK, RowType
    <3> QED BY <3>1 DEF RecoverRow, Rows
  <2> QED BY <2>1, <2>2 DEF StartHost, RenewFails, CloseHost, CloseDone, ExpireLease,
                            ReleaseStaleOwner, LapseRow, rowVars
<1>3. \A b \in Attempts : LocalsKept(b) BY <1>1 DEF LocalsKept
<1> QED BY <1>1, <1>2, <1>3, QuietSimulated

\* Every step of the system, case by case.
LEMMA StepSimulated ==
    ASSUME AllInv, Fenced, DurablePlans, [Next]_vars
    PROVE  HonestInv' /\ Simulated
<1>1. CASE UNCHANGED vars
  <2>1. /\ RowsKept /\ UNCHANGED <<writer, reply, calls, planSt>>
        /\ \A b \in Attempts : LocalsKept(b)
    BY <1>1 DEF vars, rowVars, worldVars, attemptVars, RowsKept, LocalsKept
  <2> QED BY <2>1, QuietSimulated
<1>2. ASSUME NEW h \in Hosts, Crash(h) PROVE HonestInv' /\ Simulated
  BY <1>2, EndSimulated DEF Crash, rowVars, worldVars
<1>3. ASSUME NEW a \in Attempts, Step(a) \/ CancelCall(a) PROVE HonestInv' /\ Simulated
  <2>1. CASE AdmitRefused(a) BY <2>1, EndSimulated DEF AdmitRefused, Local, rowVars, worldVars
  <2>2. CASE Inside(a) BY <2>2, InsideSimulated
  <2> QED BY <1>3, <2>1, <2>2, OutsideSimulated, ClaimSimulated, SettleSimulated, ExceptionSimulated
          DEF Step, Inside
<1>4. ASSUME NEW h \in Hosts, RecoverPlans(h) \/ (\E p \in Plans : PeriodicRecovery(h, p))
      PROVE  HonestInv' /\ Simulated
  BY <1>4, RecoverySimulated
<1>5. ASSUME NEW a \in Attempts, NEW h \in Hosts, NEW p \in Plans, Execute(a, h, p)
      PROVE  HonestInv' /\ Simulated
  BY <1>5, ExecuteSimulated
<1> QED BY <1>1, <1>2, <1>3, <1>4, <1>5, HostSimulated DEF Next

\* The inductive invariant of the deployment with leases and a plan repository.
LEMMA AllInvariant == ASSUME Fenced, DurablePlans PROVE Spec => []AllInv
<1>1. Init => AllInv BY TypeInit, LeaseInit, LedgerInit, HonestInit DEF AllInv
<1>2. AllInv /\ [Next]_vars => AllInv'
  <2> SUFFICES ASSUME AllInv, [Next]_vars PROVE AllInv' OBVIOUS
  <2>1. HonestInv' BY StepSimulated
  <2>2. TypeInv' /\ LeaseInv' /\ ClaimInv' /\ LedgerInv'
    BY TypeStep, LeaseStep, ClaimStep, LedgerStep DEF AllInv
  <2> QED BY <2>1, <2>2 DEF AllInv
<1> QED BY <1>1, <1>2, PTL DEF Spec

\* With leases, an intent ledger and a plan repository, the execution path of
\* executor.py and its recoveries implement PlanLifecycle: a plan is begun once,
\* each of its commands is sent at most once, and the status it is settled with
\* tells what became of them, for any number of hosts, attempts, plans, keys,
\* commands and restarts.
THEOREM LifecycleImplemented == ASSUME Fenced, DurablePlans PROVE Spec => ImplementsLifecycle
<1>1. Init => Lifecycle!Init
  <2> SUFFICES ASSUME Init PROVE Lifecycle!Init OBVIOUS
  <2>1. \A p \in Plans, i \in Cmds : writer[KeyOf[p][i]] = p => reply[KeyOf[p][i]] = "none"
    BY EffectType, TypeInit DEF Init
  <2>2. Effect = [p \in Plans |-> [i \in Cmds |-> "none"]]
    BY <2>1 DEF Effect
  <2> QED BY <2>2 DEF Init, Lifecycle!Init
<1>2. AllInv /\ [Next]_vars => [Lifecycle!Next]_Lifecycle!lifecycleVars
  BY StepSimulated DEF Simulated, Lifecycle!lifecycleVars
<1> QED BY <1>1, <1>2, AllInvariant, PTL DEF Spec, ImplementsLifecycle, Lifecycle!Spec

\* The persisted status of a plan never claims more, nor less, than the adapter
\* saw of its commands (executor.py:1037-1043), for any deployment with leases.
THEOREM StatusIsHonest == ASSUME Fenced, DurablePlans PROVE Spec => []VerdictIsHonest
<1>1. AllInv => VerdictIsHonest
  <2> SUFFICES ASSUME AllInv, NEW p \in Plans, NEW i \in Cmds, NEW k \in Keys, k = KeyOf[p][i]
               PROVE  /\ planSt[p] = "completed" => calls[k] = 1 /\ writer[k] = p /\ reply[k] = "accepted"
                      /\ planSt[p] = "partially_failed" /\ writer[k] = p => reply[k] \in {"accepted", "rejected"}
                      /\ planSt[p] = "failed" /\ writer[k] = p => reply[k] = "rejected"
                      /\ planSt[p] = "cancelled" => writer[k] # p
    BY EffectType DEF VerdictIsHonest, AllInv
  <2>1. planSt[p] \in Terminal => Lifecycle!Tells(planSt[p], Effect[p])
    BY DEF AllInv, HonestInv, PlanTells
  <2>2. Effect[p][i] = IF writer[k] = p THEN reply[k] ELSE "none" BY EffectType DEF AllInv
  <2>3. writer[k] = p => calls[k] = 1 /\ reply[k] # "none"
    <3>1. calls[k] \in Nat /\ calls[k] <= 1 /\ KeyTells(k)
      BY DEF AllInv, LedgerInv, HonestInv, TypeInv, TypeOK, WorldType
    <3>2. NoPlan # p BY ConstantsAssumption DEF ConstantsAssumption
    <3> QED BY <3>1, <3>2 DEF KeyTells
  <2> QED BY <2>1, <2>2, <2>3 DEF Terminal, Lifecycle!Tells
<1> QED BY <1>1, AllInvariant, PTL
=============================================================================
