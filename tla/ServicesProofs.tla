--------------------------- MODULE ServicesProofs ---------------------------
(***************************************************************************)
(* The accounts of the background services, for every number of callers,   *)
(* households, operations and dispatchers and every capacity: the storage   *)
(* boundary, the household queues, the audit outbox, and the occurrences of *)
(* recurring schedules.                                                     *)
(***************************************************************************)
EXTENDS MCServices, FiniteSetTheorems, SequenceTheorems, WellFoundedInduction, TLAPS

-----------------------------------------------------------------------------
(* The storage boundary                                                     *)

StorageType ==
    /\ slots \in Nat
    /\ fifo \in Seq(Ops \cup {Stop}) /\ Len(fifo) <= Capacity
    /\ thread \in Ops \cup {NoOp, Stop}
    /\ outcome \in [Ops -> Futures] /\ waiter \in [Ops -> Callers]
    /\ callback \subseteq Ops
    /\ shutting \in {"open", "joining", "stopping", "ended"}

Held == {o \in Ops : HoldsSlot(o)}

SlotsCounted == IsFiniteSet(Held) /\ slots + Cardinality(Held) = Capacity + 1

\* Who gives the slot of an operation back: its caller as long as it waits,
\* from then on the future.
CallerTells(o) ==
    /\ waiter[o] \in {"idle", "asked", "orphaned", "lost", "admitted", "checked"} => outcome[o] = "none"
    /\ waiter[o] \in {"waiting", "draining"} => outcome[o] # "none"
    /\ waiter[o] = "draining" => o \in callback
    /\ o \in callback => waiter[o] \in {"draining", "left"}
    /\ outcome[o] = "queued" /\ o \notin callback => waiter[o] = "waiting"
    /\ Mode[o] = "drain" /\ waiter[o] = "left" => outcome[o] # "queued"

\* An operation is queued once, and not done before the thread is through with it.
QueueTells ==
    /\ thread \in Ops => outcome[thread] = "queued"
    /\ \A i \in 1..Len(fifo) :
         /\ fifo[i] \in Ops => outcome[fifo[i]] = "queued" /\ fifo[i] # thread
         /\ \A j \in 1..Len(fifo) : fifo[i] = fifo[j] /\ fifo[i] \in Ops => i = j

StorageInv ==
    StorageType /\ SlotsCounted /\ (\A o \in Ops : CallerTells(o)) /\ QueueTells

-----------------------------------------------------------------------------
(* Slots *)

LEMMA HeldIs == \A o : o \in Held <=> o \in Ops /\ HoldsSlot(o)
BY DEF Held

LEMMA SlotsStay ==
    ASSUME StorageInv, slots' = slots, \A o \in Ops : HoldsSlot(o)' <=> HoldsSlot(o)
    PROVE  SlotsCounted'
<1>1. Held' = Held BY DEF Held
<1> QED BY <1>1 DEF StorageInv, SlotsCounted

LEMMA SlotTaken ==
    ASSUME StorageInv, slots > 0, slots' = slots - 1, NEW o \in Ops, ~HoldsSlot(o), HoldsSlot(o)',
           \A q \in Ops \ {o} : HoldsSlot(q)' <=> HoldsSlot(q)
    PROVE  SlotsCounted' /\ slots' \in Nat
<1>1. Held' = Held \cup {o} /\ o \notin Held BY DEF Held
<1>2. IsFiniteSet(Held) /\ slots + Cardinality(Held) = Capacity + 1 /\ slots \in Nat
  BY DEF StorageInv, SlotsCounted, StorageType
<1>3. IsFiniteSet(Held \cup {o}) /\ Cardinality(Held \cup {o}) = Cardinality(Held) + 1
  BY <1>1, <1>2, FS_AddElement
<1>4. Cardinality(Held) \in Nat BY <1>2, FS_CardinalityType
<1> QED BY <1>1, <1>2, <1>3, <1>4 DEF SlotsCounted

LEMMA SlotGivenBack ==
    ASSUME StorageInv, slots' = slots + 1, NEW o \in Ops, HoldsSlot(o), ~HoldsSlot(o)',
           \A q \in Ops \ {o} : HoldsSlot(q)' <=> HoldsSlot(q)
    PROVE  SlotsCounted' /\ slots' \in Nat
<1>1. Held' = Held \ {o} /\ o \in Held BY DEF Held
<1>2. IsFiniteSet(Held) /\ slots + Cardinality(Held) = Capacity + 1 /\ slots \in Nat
  BY DEF StorageInv, SlotsCounted, StorageType
<1>3. IsFiniteSet(Held \ {o}) /\ Cardinality(Held \ {o}) = Cardinality(Held) - 1
  BY <1>1, <1>2, FS_RemoveElement
<1>4. Cardinality(Held) \in Nat BY <1>2, FS_CardinalityType
<1> QED BY <1>1, <1>2, <1>3, <1>4 DEF SlotsCounted

\* What an operation becomes when its caller moves.
LEMMA Moved ==
    ASSUME StorageInv, NEW o \in Ops, NEW c \in Callers, Move(o, c)
    PROVE  /\ waiter' \in [Ops -> Callers] /\ waiter'[o] = c
           /\ \A q \in Ops \ {o} : waiter'[q] = waiter[q]
BY DEF StorageInv, StorageType, Move

-----------------------------------------------------------------------------
(* Steps *)

LEMMA StorageInitially == StorageInit => StorageInv
<1> SUFFICES ASSUME StorageInit PROVE StorageInv OBVIOUS
<1>1. Held = {} BY DEF StorageInit, Held, HoldsSlot
<1>2. SlotsCounted BY <1>1, FS_EmptySet, StorageAssumption DEF SlotsCounted, StorageInit
<1>3. StorageType BY StorageAssumption DEF StorageInit, StorageType, Futures, Callers
<1>4. \A o \in Ops : CallerTells(o) BY DEF StorageInit, CallerTells
<1>5. QueueTells BY StorageAssumption DEF StorageInit, QueueTells
<1> QED BY <1>2, <1>3, <1>4, <1>5 DEF StorageInv

\* A caller that moves without touching the queue.
LEMMA CallerKeeps ==
    ASSUME StorageInv, NEW o \in Ops, NEW c \in Callers, Move(o, c),
           UNCHANGED <<fifo, thread, outcome, shutting>>, slots' \in Nat, SlotsCounted',
           callback' \subseteq Ops, \A q \in Ops \ {o} : q \in callback' <=> q \in callback,
           CallerTells(o)'
    PROVE  StorageInv'
<1>1. /\ waiter' \in [Ops -> Callers] /\ waiter'[o] = c
      /\ \A q \in Ops \ {o} : waiter'[q] = waiter[q]
  BY Moved
<1>2. StorageType' BY <1>1 DEF StorageInv, StorageType
<1>3. \A q \in Ops : CallerTells(q)' BY <1>1 DEF StorageInv, CallerTells
<1>4. QueueTells' BY DEF StorageInv, QueueTells
<1> QED BY <1>2, <1>3, <1>4 DEF StorageInv

LEMMA BeginKeeps == ASSUME StorageInv, NEW o \in Ops, BeginRun(o) PROVE StorageInv'
<1>1. Move(o, "asked") /\ UNCHANGED <<slots, fifo, thread, outcome, callback, shutting>>
      /\ waiter[o] = "idle" /\ "asked" \in Callers
  BY DEF BeginRun, Callers
<1>2. waiter'[o] = "asked" /\ \A q \in Ops \ {o} : waiter'[q] = waiter[q] BY <1>1, Moved
<1>3. \A q \in Ops : HoldsSlot(q)' <=> HoldsSlot(q) BY <1>1, <1>2 DEF HoldsSlot
<1>4. CallerTells(o)' BY <1>1, <1>2 DEF StorageInv, CallerTells
<1>5. SlotsCounted' BY <1>1, <1>3, SlotsStay
<1>6. slots' \in Nat /\ callback' \subseteq Ops BY <1>1 DEF StorageInv, StorageType
<1> QED BY <1>1, <1>4, <1>5, <1>6, CallerKeeps

LEMMA AcquireSlotKeeps == ASSUME StorageInv, NEW o \in Ops, AcquireSlot(o) PROVE StorageInv'
<1>0. PICK c \in {"admitted", "lost"} : c = IF waiter[o] = "asked" THEN "admitted" ELSE "lost" OBVIOUS
<1>1. Move(o, c) /\ UNCHANGED <<fifo, thread, outcome, callback, shutting>>
      /\ waiter[o] \in {"asked", "orphaned"} /\ c \in Callers /\ slots > 0 /\ slots' = slots - 1
  BY <1>0 DEF AcquireSlot, Callers
<1>2. waiter'[o] = c /\ \A q \in Ops \ {o} : waiter'[q] = waiter[q] BY <1>1, Moved
<1>3. /\ \A q \in Ops \ {o} : HoldsSlot(q)' <=> HoldsSlot(q)
      /\ HoldsSlot(o)' /\ ~HoldsSlot(o)
  BY <1>1, <1>2 DEF HoldsSlot, StorageInv, CallerTells
<1>4. CallerTells(o)' BY <1>1, <1>2 DEF StorageInv, CallerTells
<1>5. SlotsCounted' /\ slots' \in Nat BY <1>1, <1>3, SlotTaken
<1>6. callback' \subseteq Ops BY <1>1 DEF StorageInv, StorageType
<1> QED BY <1>1, <1>4, <1>5, <1>6, CallerKeeps

LEMMA OverloadedKeeps == ASSUME StorageInv, NEW o \in Ops, Overloaded(o) PROVE StorageInv'
<1>1. Move(o, "left") /\ UNCHANGED <<slots, fifo, thread, outcome, callback, shutting>>
      /\ waiter[o] \in {"asked", "orphaned"} /\ "left" \in Callers
  BY DEF Overloaded, Callers
<1>2. waiter'[o] = "left" /\ \A q \in Ops \ {o} : waiter'[q] = waiter[q] BY <1>1, Moved
<1>3. \A q \in Ops : HoldsSlot(q)' <=> HoldsSlot(q) BY <1>1, <1>2 DEF HoldsSlot
<1>4. CallerTells(o)' BY <1>1, <1>2 DEF StorageInv, CallerTells
<1>5. SlotsCounted' BY <1>1, <1>3, SlotsStay
<1>6. slots' \in Nat /\ callback' \subseteq Ops BY <1>1 DEF StorageInv, StorageType
<1> QED BY <1>1, <1>4, <1>5, <1>6, CallerKeeps

\* A caller that is turned away gives its slot back.
LEMMA TurnedAway ==
    ASSUME StorageInv, NEW o \in Ops, waiter[o] \in {"admitted", "checked"}, Move(o, "left"),
           Release, UNCHANGED <<fifo, thread, outcome, callback, shutting>>
    PROVE  StorageInv'
<1>1. "left" \in Callers /\ slots' = slots + 1 BY DEF Callers, Release
<1>2. waiter'[o] = "left" /\ \A q \in Ops \ {o} : waiter'[q] = waiter[q] BY <1>1, Moved
<1>3. /\ \A q \in Ops \ {o} : HoldsSlot(q)' <=> HoldsSlot(q)
      /\ HoldsSlot(o) /\ ~HoldsSlot(o)'
  BY <1>1, <1>2 DEF HoldsSlot, StorageInv, CallerTells
<1>4. CallerTells(o)' BY <1>1, <1>2 DEF StorageInv, CallerTells
<1>5. SlotsCounted' /\ slots' \in Nat BY <1>1, <1>3, SlotGivenBack
<1>6. callback' \subseteq Ops BY <1>1 DEF StorageInv, StorageType
<1> QED BY <1>1, <1>4, <1>5, <1>6, CallerKeeps

LEMMA EnsureKeeps == ASSUME StorageInv, NEW o \in Ops, EnsureOpen(o) PROVE StorageInv'
<1>1. CASE shutting # "open" BY <1>1, TurnedAway DEF EnsureOpen
<1>2. CASE shutting = "open"
  <2>1. Move(o, "checked") /\ UNCHANGED <<slots, fifo, thread, outcome, callback, shutting>>
        /\ waiter[o] = "admitted" /\ "checked" \in Callers
    BY <1>2 DEF EnsureOpen, Callers
  <2>2. waiter'[o] = "checked" /\ \A q \in Ops \ {o} : waiter'[q] = waiter[q] BY <2>1, Moved
  <2>3. \A q \in Ops : HoldsSlot(q)' <=> HoldsSlot(q) BY <2>1, <2>2 DEF HoldsSlot
  <2>4. CallerTells(o)' BY <2>1, <2>2 DEF StorageInv, CallerTells
  <2>5. SlotsCounted' BY <2>1, <2>3, SlotsStay
  <2>6. slots' \in Nat /\ callback' \subseteq Ops BY <2>1 DEF StorageInv, StorageType
  <2> QED BY <2>1, <2>4, <2>5, <2>6, CallerKeeps
<1> QED BY <1>1, <1>2

LEMMA EnqueueKeeps == ASSUME StorageInv, NEW o \in Ops, Enqueue(o) PROVE StorageInv'
<1>1. CASE ~(Len(fifo) < Capacity)
  BY <1>1, TurnedAway DEF Enqueue
<1>2. CASE Len(fifo) < Capacity
  <2>1. /\ waiter[o] = "checked" /\ fifo' = Append(fifo, o)
        /\ outcome' = [outcome EXCEPT ![o] = "queued"]
        /\ UNCHANGED <<slots, thread, shutting>>
    BY <1>2 DEF Enqueue
  <2>2. PICK c \in {"left", "waiting"} :
          /\ Move(o, c)
          /\ c = "left" => Mode[o] = "nowait" /\ callback' = callback \cup {o}
          /\ c = "waiting" => UNCHANGED callback
    BY <1>2 DEF Enqueue
  <2>3. c \in Callers BY DEF Callers
  <2>4. /\ waiter' \in [Ops -> Callers] /\ waiter'[o] = c
        /\ \A q \in Ops \ {o} : waiter'[q] = waiter[q]
    BY <2>2, <2>3, Moved
  <2>5. /\ outcome' \in [Ops -> Futures] /\ outcome'[o] = "queued"
        /\ \A q \in Ops \ {o} : outcome'[q] = outcome[q]
    BY <2>1 DEF StorageInv, StorageType, Futures
  <2>6. outcome[o] = "none" /\ o \notin callback
    BY <2>1 DEF StorageInv, CallerTells
  <2>7. /\ fifo' \in Seq(Ops \cup {Stop}) /\ Len(fifo') = Len(fifo) + 1
        /\ \A i \in 1..Len(fifo) : fifo'[i] = fifo[i]
        /\ fifo'[Len(fifo) + 1] = o
    <3>1. fifo \in Seq(Ops \cup {Stop}) /\ o \in Ops \cup {Stop} BY DEF StorageInv, StorageType
    <3> QED BY <2>1, <3>1, AppendProperties
  <2>8. Len(fifo) \in Nat /\ Capacity \in Nat
    BY StorageAssumption, LenProperties DEF StorageInv, StorageType
  <2>9. StorageType'
    BY <1>2, <2>1, <2>2, <2>4, <2>5, <2>7, <2>8 DEF StorageInv, StorageType
  <2>10. \A q \in Ops : HoldsSlot(q)' <=> HoldsSlot(q)
    BY <2>1, <2>4, <2>5 DEF HoldsSlot
  <2>11. SlotsCounted' BY <2>1, <2>10, SlotsStay
  <2>12. \A q \in Ops : CallerTells(q)'
    <3>1. CallerTells(o)' BY <2>2, <2>4, <2>5, <2>6 DEF CallerTells
    <3>2. \A q \in Ops \ {o} : CallerTells(q)'
      BY <2>2, <2>4, <2>5 DEF StorageInv, CallerTells
    <3> QED BY <3>1, <3>2
  <2>13. QueueTells'
    <3>1. thread # o BY <2>6 DEF StorageInv, QueueTells
    <3>2. \A i \in 1..Len(fifo) : fifo[i] # o BY <2>6 DEF StorageInv, QueueTells
    <3>3. thread' \in Ops => outcome'[thread'] = "queued"
      BY <2>1, <2>5, <3>1 DEF StorageInv, QueueTells
    <3>4. \A i \in 1..Len(fifo') : i \in 1..Len(fifo) \/ i = Len(fifo) + 1 BY <2>7, <2>8
    <3>5. \A i \in 1..Len(fifo') : fifo'[i] \in Ops =>
            outcome'[fifo'[i]] = "queued" /\ fifo'[i] # thread'
      BY <2>1, <2>5, <2>7, <3>1, <3>2, <3>4 DEF StorageInv, QueueTells
    <3>6. \A i, j \in 1..Len(fifo') : fifo'[i] = fifo'[j] /\ fifo'[i] \in Ops => i = j
      BY <2>7, <3>2, <3>4 DEF StorageInv, QueueTells
    <3> QED BY <3>3, <3>5, <3>6 DEF QueueTells
  <2> QED BY <2>9, <2>11, <2>12, <2>13 DEF StorageInv
<1> QED BY <1>1, <1>2

LEMMA ResumeKeeps == ASSUME StorageInv, NEW o \in Ops, Resume(o) PROVE StorageInv'
<1>1. /\ Move(o, "left") /\ UNCHANGED <<fifo, thread, outcome, callback, shutting>>
      /\ waiter[o] \in {"waiting", "draining"} /\ outcome[o] = "done" /\ "left" \in Callers
  BY DEF Resume, Callers
<1>2. waiter'[o] = "left" /\ \A q \in Ops \ {o} : waiter'[q] = waiter[q] BY <1>1, Moved
<1>3. \A q \in Ops \ {o} : HoldsSlot(q)' <=> HoldsSlot(q) BY <1>1, <1>2 DEF HoldsSlot
<1>4. CallerTells(o)' BY <1>1, <1>2 DEF StorageInv, CallerTells
<1>5. callback' \subseteq Ops BY <1>1 DEF StorageInv, StorageType
<1>6. SlotsCounted' /\ slots' \in Nat
  <2>1. CASE o \in callback
    <3>1. waiter[o] = "draining" BY <1>1, <2>1 DEF StorageInv, CallerTells
    <3>2. \A q \in Ops : HoldsSlot(q)' <=> HoldsSlot(q) BY <1>1, <1>2, <1>3, <3>1 DEF HoldsSlot
    <3>3. slots' = slots BY <2>1 DEF Resume, ReturnsSlot
    <3> QED BY <3>2, <3>3, SlotsStay DEF StorageInv, StorageType
  <2>2. CASE o \notin callback
    <3>1. waiter[o] = "waiting" BY <1>1, <2>2 DEF StorageInv, CallerTells
    <3>2. HoldsSlot(o) /\ ~HoldsSlot(o)' BY <1>1, <1>2, <3>1 DEF HoldsSlot
    <3>3. slots' = slots + 1 BY <2>2 DEF Resume, ReturnsSlot, Release
    <3> QED BY <1>3, <3>2, <3>3, SlotGivenBack
  <2> QED BY <2>1, <2>2
<1> QED BY <1>1, <1>4, <1>5, <1>6, CallerKeeps

\* A caller that gives up waiting leaves its slot with the operation.
LEMMA GivesUp ==
    ASSUME StorageInv, NEW o \in Ops, waiter[o] \in {"waiting", "draining"}, outcome[o] # "done",
           NEW c \in {"draining", "left"}, Move(o, c), c = "left" => Mode[o] # "drain",
           callback' = callback \cup {o}, UNCHANGED <<slots, fifo, thread, outcome, shutting>>
    PROVE  StorageInv'
<1>1. c \in Callers BY DEF Callers
<1>2. waiter'[o] = c /\ \A q \in Ops \ {o} : waiter'[q] = waiter[q] BY <1>1, Moved
<1>3. outcome[o] = "queued" BY DEF StorageInv, CallerTells, StorageType, Futures
<1>4. \A q \in Ops : HoldsSlot(q)' <=> HoldsSlot(q) BY <1>2, <1>3 DEF HoldsSlot
<1>5. SlotsCounted' BY <1>4, SlotsStay
<1>6. CallerTells(o)' BY <1>2, <1>3 DEF CallerTells
<1>7. slots' \in Nat /\ callback' \subseteq Ops BY DEF StorageInv, StorageType
<1> QED BY <1>1, <1>5, <1>6, <1>7, CallerKeeps

LEMMA TimeoutKeeps == ASSUME StorageInv, NEW o \in Ops, Timeout(o) PROVE StorageInv'
<1>1. PICK c \in {"draining", "left"} : Move(o, c) /\ (c = "left" => Mode[o] # "drain")
  BY DEF Timeout, Drains
<1> QED BY <1>1, GivesUp DEF Timeout

LEMMA CancelKeeps == ASSUME StorageInv, NEW o \in Ops, CancelCaller(o) PROVE StorageInv'
<1>1. PICK c \in {"draining", "left"} : Move(o, c) /\ (c = "left" => Mode[o] # "drain")
  BY DEF CancelCaller, Drains
<1> QED BY <1>1, GivesUp DEF CancelCaller

\* A caller cancelled while it asks changes no count: its slot, if any, stays taken.
LEMMA CancelAskingKeeps == ASSUME StorageInv, NEW o \in Ops, CancelAsking(o) PROVE StorageInv'
<1>1. PICK c \in {"left", "orphaned", "lost"} :
        /\ Move(o, c) /\ c \in Callers
        /\ (c = "lost" /\ waiter[o] = "admitted") \/ (c # "lost" /\ waiter[o] = "asked")
  <2>1. {"left", "orphaned", "lost"} \subseteq Callers BY DEF Callers
  <2>2. CASE waiter[o] = "asked" /\ Move(o, "left") BY <2>1, <2>2
  <2>3. CASE waiter[o] = "asked" /\ Move(o, "orphaned") BY <2>1, <2>3
  <2>4. CASE waiter[o] = "admitted" /\ Move(o, "lost") BY <2>1, <2>4
  <2> QED BY <2>2, <2>3, <2>4 DEF CancelAsking
<1>2. UNCHANGED <<slots, fifo, thread, outcome, callback, shutting>> BY DEF CancelAsking
<1>3. waiter'[o] = c /\ \A q \in Ops \ {o} : waiter'[q] = waiter[q] BY <1>1, Moved
<1>4. \A q \in Ops : HoldsSlot(q)' <=> HoldsSlot(q) BY <1>1, <1>2, <1>3 DEF HoldsSlot
<1>5. CallerTells(o)' BY <1>1, <1>2, <1>3 DEF StorageInv, CallerTells
<1>6. SlotsCounted' BY <1>2, <1>4, SlotsStay
<1>7. slots' \in Nat /\ callback' \subseteq Ops BY <1>2 DEF StorageInv, StorageType
<1> QED BY <1>1, <1>2, <1>5, <1>6, <1>7, CallerKeeps

LEMMA TakeKeeps == ASSUME StorageInv, WorkerTake PROVE StorageInv'
<1>1. /\ thread = NoOp /\ fifo # <<>> /\ thread' = Head(fifo) /\ fifo' = Tail(fifo)
      /\ UNCHANGED <<slots, outcome, waiter, callback, shutting>>
  BY DEF WorkerTake, Takes
<1>2. fifo \in Seq(Ops \cup {Stop}) BY DEF StorageInv, StorageType
<1>3. /\ Head(fifo) = fifo[1] /\ fifo[1] \in Ops \cup {Stop}
      /\ fifo' \in Seq(Ops \cup {Stop}) /\ Len(fifo') = Len(fifo) - 1
      /\ \A i \in 1..Len(fifo') : fifo'[i] = fifo[i + 1]
      /\ Len(fifo) \in Nat \ {0}
  BY <1>1, <1>2
<1>4. StorageType' BY <1>1, <1>3, StorageAssumption DEF StorageInv, StorageType
<1>5. SlotsCounted' BY <1>1, SlotsStay DEF HoldsSlot
<1>6. \A o \in Ops : CallerTells(o)' BY <1>1 DEF StorageInv, CallerTells
<1>7. QueueTells'
  <2>1. \A i \in 1..Len(fifo') : i + 1 \in 1..Len(fifo) /\ i + 1 # 1 BY <1>3
  <2>2. 1 \in 1..Len(fifo) BY <1>3
  <2>3. thread' \in Ops => outcome'[thread'] = "queued"
    BY <1>1, <1>3, <2>2 DEF StorageInv, QueueTells
  <2>4. \A i \in 1..Len(fifo') : fifo'[i] \in Ops =>
          outcome'[fifo'[i]] = "queued" /\ fifo'[i] # thread'
    BY <1>1, <1>3, <2>1, <2>2 DEF StorageInv, QueueTells
  <2>5. \A i, j \in 1..Len(fifo') : fifo'[i] = fifo'[j] /\ fifo'[i] \in Ops => i = j
    <3>1. TAKE i, j \in 1..Len(fifo')
    <3>2. HAVE fifo'[i] = fifo'[j] /\ fifo'[i] \in Ops
    <3>3. i + 1 = j + 1 BY <1>3, <2>1, <3>2 DEF StorageInv, QueueTells
    <3> QED BY <3>3
  <2> QED BY <2>3, <2>4, <2>5 DEF QueueTells
<1> QED BY <1>4, <1>5, <1>6, <1>7 DEF StorageInv

LEMMA DoneKeeps == ASSUME StorageInv, WorkerDone PROVE StorageInv'
<1>1. PICK o \in Ops : o = thread BY DEF WorkerDone
<1>2. /\ outcome' = [outcome EXCEPT ![o] = "done"] /\ thread' = NoOp
      /\ UNCHANGED <<fifo, waiter, callback, shutting>>
  BY <1>1 DEF WorkerDone
<1>3. outcome[o] = "queued" BY <1>1 DEF StorageInv, QueueTells
<1>4. /\ outcome' \in [Ops -> Futures] /\ outcome'[o] = "done"
      /\ \A q \in Ops \ {o} : outcome'[q] = outcome[q]
  BY <1>2 DEF StorageInv, StorageType, Futures
<1>5. \A q \in Ops \ {o} : HoldsSlot(q)' <=> HoldsSlot(q) BY <1>2, <1>4 DEF HoldsSlot
<1>6. HoldsSlot(o) BY <1>3 DEF HoldsSlot
<1>7. SlotsCounted' /\ slots' \in Nat
  <2>1. CASE o \in callback
    <3>1. waiter[o] \in {"draining", "left"} BY <2>1 DEF StorageInv, CallerTells
    <3>2. ~HoldsSlot(o)' BY <1>2, <1>4, <3>1 DEF HoldsSlot
    <3>3. slots' = slots + 1 BY <1>1, <2>1 DEF WorkerDone, Release
    <3> QED BY <1>5, <1>6, <3>2, <3>3, SlotGivenBack
  <2>2. CASE o \notin callback
    <3>1. waiter[o] = "waiting" BY <1>3, <2>2 DEF StorageInv, CallerTells
    <3>2. \A q \in Ops : HoldsSlot(q)' <=> HoldsSlot(q)
      BY <1>2, <1>5, <1>6, <3>1 DEF HoldsSlot
    <3>3. slots' = slots BY <1>1, <2>2 DEF WorkerDone
    <3> QED BY <3>2, <3>3, SlotsStay DEF StorageInv, StorageType
  <2> QED BY <2>1, <2>2
<1>8. StorageType' BY <1>2, <1>4, <1>7 DEF StorageInv, StorageType
<1>9. \A q \in Ops : CallerTells(q)'
  <2>1. CallerTells(o)' BY <1>2, <1>3, <1>4 DEF StorageInv, CallerTells
  <2>2. \A q \in Ops \ {o} : CallerTells(q)' BY <1>2, <1>4 DEF StorageInv, CallerTells
  <2> QED BY <2>1, <2>2
<1>10. QueueTells' BY <1>1, <1>2, <1>4, StorageAssumption DEF StorageInv, QueueTells
<1> QED BY <1>7, <1>8, <1>9, <1>10 DEF StorageInv

LEMMA CloserKeeps == ASSUME StorageInv, CloserStep \/ BeginClose PROVE StorageInv'
<1>1. UNCHANGED <<slots, thread, outcome, waiter, callback>>
      /\ shutting' \in {"joining", "stopping", "ended"}
  BY DEF CloserStep, BeginClose, QueueJoined, PutStop
<1>2. fifo \in Seq(Ops \cup {Stop}) /\ Len(fifo) \in Nat /\ Capacity \in Nat
  BY StorageAssumption DEF StorageInv, StorageType
<1>3. /\ fifo' \in Seq(Ops \cup {Stop}) /\ Len(fifo') <= Capacity
      /\ \A i \in 1..Len(fifo') : fifo'[i] \in Ops => i \in 1..Len(fifo) /\ fifo'[i] = fifo[i]
  <2>1. CASE fifo' = fifo BY <1>2, <2>1 DEF StorageInv, StorageType
  <2>2. CASE Len(fifo) < Capacity /\ fifo' = Append(fifo, Stop)
    BY <1>2, <2>2, StorageAssumption
  <2> QED BY <2>1, <2>2 DEF CloserStep, BeginClose, QueueJoined, PutStop
<1>4. StorageType' BY <1>1, <1>3 DEF StorageInv, StorageType
<1>5. SlotsCounted' BY <1>1, SlotsStay DEF HoldsSlot
<1>6. \A o \in Ops : CallerTells(o)' BY <1>1 DEF StorageInv, CallerTells
<1>7. QueueTells' BY <1>1, <1>3 DEF StorageInv, QueueTells
<1> QED BY <1>4, <1>5, <1>6, <1>7 DEF StorageInv

LEMMA StorageKeeps == StorageInv /\ [StorageNext]_storageVars => StorageInv'
<1> SUFFICES ASSUME StorageInv, [StorageNext]_storageVars PROVE StorageInv' OBVIOUS
<1>1. CASE UNCHANGED storageVars
  <2>1. SlotsCounted' BY <1>1, SlotsStay DEF storageVars, HoldsSlot
  <2> QED BY <1>1, <2>1 DEF storageVars, StorageInv, StorageType, CallerTells, QueueTells
<1>2. CASE StorageNext
  BY <1>2, BeginKeeps, AcquireSlotKeeps, OverloadedKeeps, EnsureKeeps, EnqueueKeeps, ResumeKeeps,
     TimeoutKeeps, CancelKeeps, CancelAskingKeeps, TakeKeeps, DoneKeeps, CloserKeeps
     DEF StorageNext, WorkerStep, CallerStep
<1> QED BY <1>1, <1>2

\* Slots and callers are accounted for: whatever times out, is cancelled or is closed,
\* no slot is given back twice, none is lost but by a caller cancelled while it asked
\* for one, and a caller that drains never leaves before its operation (run,
\* submit_nowait, _release_slot, close).
THEOREM StorageIsAccounted == StorageSpec => [](StorageTypeOK /\ CallersAreAccounted)
<1>1. StorageInv => StorageTypeOK /\ CallersAreAccounted
  <2> SUFFICES ASSUME StorageInv PROVE StorageTypeOK /\ CallersAreAccounted OBVIOUS
  <2>1. Cardinality(Held) \in Nat BY FS_CardinalityType DEF StorageInv, SlotsCounted
  <2>2. slots \in 0..(Capacity + 1)
    BY <2>1, StorageAssumption DEF StorageInv, SlotsCounted, StorageType
  <2>3. SlotsAreExact BY DEF StorageInv, SlotsCounted, SlotsAreExact, Held
  <2>4. DrainedCallerLeavesLast BY DEF StorageInv, CallerTells, DrainedCallerLeavesLast
  <2> QED BY <2>2, <2>3, <2>4 DEF StorageInv, StorageType, StorageTypeOK, CallersAreAccounted
<1>2. StorageInit => StorageInv BY StorageInitially
<1>3. StorageInv /\ [StorageNext]_storageVars => StorageInv' BY StorageKeeps
<1> QED BY <1>1, <1>2, <1>3, PTL DEF StorageSpec

-----------------------------------------------------------------------------
(* The household queues                                                     *)

Within(s, i) == \E k \in 1..Len(s) : s[k] = i
Distinct(s) == \A j, k \in 1..Len(s) : s[j] = s[k] => j = k

Runs(i) == worker[home[i]] = "busy" /\ running[home[i]] = i
Pending == {i \in Items : future[i] = "pending"}

\* Every lane holds its own items, each once, and its worker runs another.
LaneTells(h) ==
    /\ Distinct(queue[h])
    /\ \A i \in Items : Within(queue[h], i) => home[i] = h
    /\ worker[h] = "busy" =>
         running[h] \in Items /\ home[running[h]] = h /\ ~Within(queue[h], running[h])
    /\ counts[h] = Occupied(h) /\ counts[h] <= MaxPerHousehold
    /\ queue[h] # <<>> => worker[h] # "none" /\ gate = "open"

\* A future is pending as long as its item waits or runs, and its caller with it.
ItemTells(i) ==
    /\ future[i] = "pending" <=> Waiting(i) \/ Runs(i)
    /\ Waiting(i) => caller[i] = "waiting"
    /\ Runs(i) => caller[i] \in {"waiting", "cancelling"}

TotalTells == IsFiniteSet(Pending) /\ total = Cardinality(Pending) /\ total <= MaxTotal

QueueInv ==
    /\ QueueTypeOK /\ TotalTells
    /\ \A h \in Households : LaneTells(h)
    /\ \A i \in Items : ItemTells(i)
    /\ gate = "closed" => \A h \in Households : worker[h] = "none"

-----------------------------------------------------------------------------
(* Sequences *)

LEMMA WithinAppend ==
    ASSUME NEW s \in Seq(Items), NEW i \in Items, ~Within(s, i), Distinct(s)
    PROVE  /\ Append(s, i) \in Seq(Items) /\ Len(Append(s, i)) = Len(s) + 1
           /\ Append(s, i) # <<>> /\ Distinct(Append(s, i))
           /\ \A q \in Items : Within(Append(s, i), q) <=> Within(s, q) \/ q = i
<1> DEFINE t == Append(s, i)
<1>1. /\ t \in Seq(Items) /\ Len(t) = Len(s) + 1 /\ t # <<>>
      /\ \A k \in 1..Len(s) : t[k] = s[k]
      /\ t[Len(s) + 1] = i
  BY AppendProperties
<1>2. Len(s) \in Nat OBVIOUS
<1>3. \A k : k \in 1..Len(t) <=> k \in 1..Len(s) \/ k = Len(s) + 1 BY <1>1, <1>2
<1> HIDE DEF t
<1>4. Distinct(t) BY <1>1, <1>2, <1>3 DEF Distinct, Within
<1>5. \A q \in Items : Within(t, q) <=> Within(s, q) \/ q = i BY <1>1, <1>3 DEF Within
<1> QED BY <1>1, <1>4, <1>5 DEF t

LEMMA WithinTail ==
    ASSUME NEW S, NEW s \in Seq(S), s # <<>>, Distinct(s)
    PROVE  /\ Tail(s) \in Seq(S) /\ Len(Tail(s)) = Len(s) - 1 /\ Len(s) \in Nat \ {0}
           /\ Head(s) \in S /\ Within(s, Head(s)) /\ Distinct(Tail(s))
           /\ \A q \in S : Within(Tail(s), q) <=> Within(s, q) /\ q # Head(s)
<1> DEFINE t == Tail(s)
<1>1. /\ t \in Seq(S) /\ Len(t) = Len(s) - 1 /\ Len(s) \in Nat \ {0}
      /\ \A k \in 1..Len(t) : t[k] = s[k + 1]
      /\ Head(s) = s[1] /\ s[1] \in S
  OBVIOUS
<1>2. \A k \in 1..Len(t) : k + 1 \in 1..Len(s) /\ k + 1 # 1 BY <1>1
<1>3. \A k \in 1..Len(s) : k = 1 \/ (k - 1 \in 1..Len(t) /\ t[k - 1] = s[k]) BY <1>1
<1>4. 1 \in 1..Len(s) BY <1>1
<1> HIDE DEF t
<1>5. Within(s, Head(s)) BY <1>1, <1>4 DEF Within
<1>6. Distinct(t)
  <2> SUFFICES ASSUME NEW j \in 1..Len(t), NEW k \in 1..Len(t), t[j] = t[k] PROVE j = k
    BY DEF Distinct
  <2>1. j + 1 = k + 1 BY <1>1, <1>2 DEF Distinct
  <2> QED BY <2>1
<1>7. \A q \in S : Within(t, q) <=> Within(s, q) /\ q # Head(s)
  BY <1>1, <1>2, <1>3, <1>4 DEF Within, Distinct
<1> QED BY <1>1, <1>5, <1>6, <1>7 DEF t

LEMMA WithinRemoved ==
    ASSUME NEW s \in Seq(Items), Distinct(s), NEW k \in 1..Len(s)
    PROVE  /\ RemoveAt(s, k) \in Seq(Items) /\ Len(RemoveAt(s, k)) = Len(s) - 1
           /\ Distinct(RemoveAt(s, k))
           /\ \A q \in Items : Within(RemoveAt(s, k), q) <=> Within(s, q) /\ q # s[k]
<1> DEFINE a == SubSeq(s, 1, k - 1)
           b == SubSeq(s, k + 1, Len(s))
           t == a \o b
<1>1. Len(s) \in Nat /\ k \in Nat /\ k <= Len(s) /\ k >= 1 /\ \A j \in 1..Len(s) : s[j] \in Items
  OBVIOUS
<1>2. a \in Seq(Items) /\ Len(a) = k - 1 /\ \A j \in 1..(k - 1) : a[j] = s[j]
  <2>1. \A j \in 1..(k - 1) : s[j] \in Items BY <1>1
  <2>2. 1 \in Int /\ k - 1 \in Int BY <1>1
  <2>3. /\ a \in Seq(Items) /\ Len(a) = IF 1 <= k - 1 THEN (k - 1) - 1 + 1 ELSE 0
        /\ \A j \in 1..((k - 1) - 1 + 1) : a[j] = s[1 + j - 1]
    BY <2>1, <2>2, SubSeqProperties
  <2> HIDE DEF a
  <2> QED BY <1>1, <2>3
<1>3. /\ b \in Seq(Items) /\ Len(b) = Len(s) - k
      /\ \A j \in 1..(Len(s) - k) : b[j] = s[k + j]
  <2>1. \A j \in (k + 1)..Len(s) : s[j] \in Items BY <1>1
  <2>2. k + 1 \in Int /\ Len(s) \in Int BY <1>1
  <2>3. /\ b \in Seq(Items) /\ Len(b) = IF k + 1 <= Len(s) THEN Len(s) - (k + 1) + 1 ELSE 0
        /\ \A j \in 1..(Len(s) - (k + 1) + 1) : b[j] = s[(k + 1) + j - 1]
    BY <2>1, <2>2, SubSeqProperties
  <2> HIDE DEF b
  <2> QED BY <1>1, <2>3
<1> HIDE DEF a, b
<1>4. /\ t \in Seq(Items) /\ Len(t) = Len(a) + Len(b)
      /\ \A j \in 1..(Len(a) + Len(b)) : t[j] = IF j <= Len(a) THEN a[j] ELSE b[j - Len(a)]
  BY <1>2, <1>3, ConcatProperties
<1>5. Len(t) = Len(s) - 1 BY <1>1, <1>2, <1>3, <1>4
<1>6. \A j \in 1..Len(t) : t[j] = IF j < k THEN s[j] ELSE s[j + 1]
  <2>1. TAKE j \in 1..Len(t)
  <2>2. CASE j < k BY <1>1, <1>2, <1>3, <1>4, <2>2
  <2>3. CASE ~(j < k)
    <3>1. j - Len(a) \in 1..(Len(s) - k) /\ k + (j - Len(a)) = j + 1 /\ ~(j <= Len(a))
      BY <1>1, <1>2, <1>5, <2>3
    <3> QED BY <1>3, <1>4, <2>3, <3>1
  <2> QED BY <2>2, <2>3
<1> HIDE DEF t
<1>7. Distinct(t)
  <2> SUFFICES ASSUME NEW i \in 1..Len(t), NEW j \in 1..Len(t), t[i] = t[j] PROVE i = j
    BY DEF Distinct
  <2>1. i \in 1..Len(s) /\ i + 1 \in 1..Len(s) /\ j \in 1..Len(s) /\ j + 1 \in 1..Len(s)
    BY <1>1, <1>5
  <2> QED BY <1>1, <1>6, <2>1 DEF Distinct
<1>8. \A q \in Items : Within(t, q) <=> Within(s, q) /\ q # s[k]
  <2>1. TAKE q \in Items
  <2>2. ASSUME Within(t, q) PROVE Within(s, q) /\ q # s[k]
    <3>1. PICK j \in 1..Len(t) : t[j] = q BY <2>2 DEF Within
    <3>2. j \in 1..Len(s) /\ j + 1 \in 1..Len(s) BY <1>1, <1>5
    <3>3. PICK m \in 1..Len(s) : m # k /\ s[m] = q BY <1>1, <1>6, <3>1, <3>2
    <3> QED BY <3>3 DEF Within, Distinct
  <2>3. ASSUME Within(s, q), q # s[k] PROVE Within(t, q)
    <3>1. PICK m \in 1..Len(s) : s[m] = q /\ m # k BY <2>3 DEF Within
    <3>2. CASE m < k
      <4>1. m \in 1..Len(t) /\ t[m] = q BY <1>1, <1>5, <1>6, <3>1, <3>2
      <4> QED BY <4>1 DEF Within
    <3>3. CASE m > k
      <4>1. m - 1 \in 1..Len(t) /\ ~(m - 1 < k) /\ (m - 1) + 1 = m BY <1>1, <1>5, <3>3
      <4>2. t[m - 1] = q BY <1>6, <3>1, <4>1
      <4> QED BY <4>1, <4>2 DEF Within
    <3> QED BY <1>1, <3>1, <3>2, <3>3
  <2> QED BY <2>2, <2>3
<1>9. t = RemoveAt(s, k) BY DEF t, a, b, RemoveAt
<1> QED BY <1>4, <1>5, <1>7, <1>8, <1>9

-----------------------------------------------------------------------------
(* Counting *)

LEMMA TotalStays ==
    ASSUME QueueInv, total' = total,
           \A i \in Items : future'[i] = "pending" <=> future[i] = "pending"
    PROVE  TotalTells'
<1>1. Pending' = Pending BY DEF Pending
<1> QED BY <1>1 DEF QueueInv, TotalTells

LEMMA TotalGrows ==
    ASSUME QueueInv, total < MaxTotal, total' = total + 1, NEW i \in Items,
           future[i] # "pending", future'[i] = "pending",
           \A q \in Items \ {i} : future'[q] = future[q]
    PROVE  TotalTells' /\ total' \in Nat
<1>1. Pending' = Pending \cup {i} /\ i \notin Pending BY DEF Pending
<1>2. IsFiniteSet(Pending) /\ total = Cardinality(Pending) /\ total \in Nat
  BY DEF QueueInv, TotalTells, QueueTypeOK
<1>3. IsFiniteSet(Pending \cup {i}) /\ Cardinality(Pending \cup {i}) = Cardinality(Pending) + 1
  BY <1>1, <1>2, FS_AddElement
<1> QED BY <1>1, <1>2, <1>3, CapacityAssumption DEF TotalTells

LEMMA TotalShrinks ==
    ASSUME QueueInv, total' = total - 1, NEW i \in Items,
           future[i] = "pending", future'[i] # "pending",
           \A q \in Items \ {i} : future'[q] = future[q]
    PROVE  TotalTells' /\ total' \in Nat
<1>1. Pending' = Pending \ {i} /\ i \in Pending BY DEF Pending
<1>2. IsFiniteSet(Pending) /\ total = Cardinality(Pending) /\ total \in Nat /\ total <= MaxTotal
  BY DEF QueueInv, TotalTells, QueueTypeOK
<1>3. IsFiniteSet(Pending \ {i}) /\ Cardinality(Pending \ {i}) = Cardinality(Pending) - 1
  BY <1>1, <1>2, FS_RemoveElement
<1>4. Cardinality(Pending \ {i}) \in Nat BY <1>3, FS_CardinalityType
<1> QED BY <1>1, <1>2, <1>3, <1>4, CapacityAssumption DEF TotalTells

-----------------------------------------------------------------------------
(* Steps *)

LEMMA QueueInitially == QueueInit => QueueInv
<1> SUFFICES ASSUME QueueInit PROVE QueueInv OBVIOUS
<1>1. Pending = {} BY DEF Pending, QueueInit
<1>2. TotalTells BY <1>1, FS_EmptySet, CapacityAssumption DEF TotalTells, QueueInit
<1>3. QueueTypeOK BY DEF QueueInit, QueueTypeOK, FutureStates, CallerStates
<1>4. \A h \in Households : LaneTells(h)
  BY CapacityAssumption DEF QueueInit, LaneTells, Distinct, Within, Occupied
<1>5. \A i \in Items : ItemTells(i) BY DEF QueueInit, ItemTells, Waiting, Runs
<1> QED BY <1>2, <1>3, <1>4, <1>5 DEF QueueInv, QueueInit

\* A step of one lane leaves the others and their items alone.
LEMMA LaneStep ==
    ASSUME QueueInv, NEW h \in Households, UNCHANGED <<home, gate>>, QueueTypeOK', TotalTells',
           \A g \in Households \ {h} :
             /\ queue'[g] = queue[g] /\ worker'[g] = worker[g]
             /\ running'[g] = running[g] /\ counts'[g] = counts[g],
           \A i \in Items : home[i] # h => future'[i] = future[i] /\ caller'[i] = caller[i],
           LaneTells(h)', \A i \in Items : home[i] = h => ItemTells(i)',
           gate = "closed" => worker'[h] = "none"
    PROVE  QueueInv'
<1>1. \A g \in Households \ {h} : LaneTells(g)'
  <2>1. TAKE g \in Households \ {h}
  <2>2. LaneTells(g) BY DEF QueueInv
  <2>3. queue'[g] = queue[g] /\ worker'[g] = worker[g]
        /\ running'[g] = running[g] /\ counts'[g] = counts[g] /\ home' = home /\ gate' = gate
    OBVIOUS
  <2> QED BY <2>2, <2>3, Zenon DEF LaneTells, Occupied
<1>2. \A i \in Items : home[i] \in Households BY DEF QueueInv, QueueTypeOK
<1>3. \A i \in Items : home[i] # h => ItemTells(i)'
  BY <1>2 DEF QueueInv, ItemTells, Waiting, Runs
<1> QED BY <1>1, <1>3 DEF QueueInv

\* A caller that moves by itself.
LEMMA CallerMoves ==
    ASSUME QueueInv, NEW i \in Items, NEW c \in CallerStates,
           caller' = [caller EXCEPT ![i] = c],
           UNCHANGED <<queue, worker, running, counts, total, gate, home, future>>,
           c = "cancelling" => ~Waiting(i), c \notin {"waiting", "cancelling"} => future[i] # "pending"
    PROVE  QueueInv'
<1>1. /\ caller' \in [Items -> CallerStates] /\ caller'[i] = c
      /\ \A q \in Items \ {i} : caller'[q] = caller[q]
  BY DEF QueueInv, QueueTypeOK
<1>2. QueueTypeOK' BY <1>1 DEF QueueInv, QueueTypeOK
<1>3. TotalTells' BY TotalStays
<1>4. \A h \in Households : LaneTells(h)' BY DEF QueueInv, LaneTells, Occupied
<1>5. \A q \in Items : ItemTells(q)'
  <2>1. \A q \in Items : /\ Waiting(q)' <=> Waiting(q)
                         /\ Runs(q)' <=> Runs(q)
    BY DEF Waiting, Runs
  <2>2. ItemTells(i)' BY <1>1, <2>1 DEF QueueInv, ItemTells
  <2>3. \A q \in Items \ {i} : ItemTells(q)' BY <1>1, <2>1 DEF QueueInv, ItemTells
  <2> QED BY <2>2, <2>3
<1> QED BY <1>2, <1>3, <1>4, <1>5 DEF QueueInv

LEMMA CallersKeep ==
    ASSUME QueueInv, NEW i \in Items,
           SubmitRefused(i) \/ Return(i) \/ CancelExtracted(i) \/ RaiseCancelled(i)
    PROVE  QueueInv'
<1>1. CASE SubmitRefused(i)
  <2>1. future[i] # "pending" BY <1>1 DEF SubmitRefused, QueueInv, ItemTells
  <2> QED BY <1>1, <2>1, CallerMoves DEF SubmitRefused, CallerStates
<1>2. CASE Return(i)
  <2>1. PICK c \in {"returned", "raised"} : caller' = [caller EXCEPT ![i] = c] BY <1>2 DEF Return
  <2>2. c \in CallerStates BY DEF CallerStates
  <2> QED BY <1>2, <2>1, <2>2, CallerMoves DEF Return
<1>3. CASE CancelExtracted(i)
  <2>1. ~Waiting(i) BY <1>3 DEF CancelExtracted, Waiting
  <2> QED BY <1>3, <2>1, CallerMoves DEF CancelExtracted, CallerStates
<1>4. CASE RaiseCancelled(i) BY <1>4, CallerMoves DEF RaiseCancelled, CallerStates
<1> QED BY <1>1, <1>2, <1>3, <1>4

LEMMA SubmitKeeps == ASSUME QueueInv, NEW i \in Items, Submit(i) PROVE QueueInv'
<1>1. PICK h \in Households : h = home[i] BY DEF QueueInv, QueueTypeOK
<1>2. /\ caller[i] = "idle" /\ gate = "open" /\ ~Full(h)
      /\ queue' = [queue EXCEPT ![h] = Append(queue[h], i)]
      /\ counts' = [counts EXCEPT ![h] = counts[h] + 1] /\ total' = total + 1
      /\ worker' = [worker EXCEPT ![h] = IF worker[h] = "none" THEN "spawned" ELSE worker[h]]
      /\ future' = [future EXCEPT ![i] = "pending"] /\ caller' = [caller EXCEPT ![i] = "waiting"]
      /\ UNCHANGED <<running, gate, home>>
  BY <1>1 DEF Submit, EnsureWorker, QueueInv, QueueTypeOK
<1>3. /\ queue \in [Households -> Seq(Items)] /\ counts[h] \in Nat /\ total \in Nat
      /\ LaneTells(h) /\ ItemTells(i)
  BY DEF QueueInv, QueueTypeOK
<1>4. ~Waiting(i) /\ ~Runs(i) /\ future[i] # "pending" BY <1>2, <1>3 DEF ItemTells
<1>5. ~Within(queue[h], i) /\ Distinct(queue[h]) /\ queue[h] \in Seq(Items)
  BY <1>1, <1>3, <1>4 DEF Waiting, Within, LaneTells
<1>6. PICK s \in Seq(Items) : s = Append(queue[h], i) BY <1>5, WithinAppend
<1>7. /\ Len(s) = Len(queue[h]) + 1 /\ s # <<>> /\ Distinct(s)
      /\ \A q \in Items : Within(s, q) <=> Within(queue[h], q) \/ q = i
  BY <1>5, <1>6, WithinAppend
<1>8. /\ queue' \in [Households -> Seq(Items)] /\ queue'[h] = s
      /\ \A g \in Households \ {h} : queue'[g] = queue[g]
  BY <1>2, <1>3, <1>6
<1>9. /\ counts' \in [Households -> Nat] /\ counts'[h] = counts[h] + 1
      /\ \A g \in Households \ {h} : counts'[g] = counts[g]
  BY <1>2, <1>3 DEF QueueInv, QueueTypeOK
<1>10. /\ worker' \in [Households -> {"none", "spawned", "busy"}] /\ worker'[h] # "none"
       /\ worker'[h] = "busy" <=> worker[h] = "busy"
       /\ \A g \in Households \ {h} : worker'[g] = worker[g]
  BY <1>2 DEF QueueInv, QueueTypeOK
<1>11. /\ future' \in [Items -> FutureStates] /\ future'[i] = "pending"
       /\ \A q \in Items \ {i} : future'[q] = future[q]
  BY <1>2 DEF QueueInv, QueueTypeOK, FutureStates
<1>12. /\ caller' \in [Items -> CallerStates] /\ caller'[i] = "waiting"
       /\ \A q \in Items \ {i} : caller'[q] = caller[q]
  BY <1>2 DEF QueueInv, QueueTypeOK, CallerStates
<1>13. counts[h] < MaxPerHousehold /\ total < MaxTotal
  BY <1>2, <1>3, CapacityAssumption DEF Full
<1>14. TotalTells' /\ total' \in Nat BY <1>2, <1>4, <1>11, <1>13, TotalGrows
<1>15. QueueTypeOK'
  BY <1>2, <1>8, <1>9, <1>10, <1>11, <1>12, <1>14 DEF QueueInv, QueueTypeOK
<1>16. LaneTells(h)'
  <2>1. worker'[h] = "busy" =>
          /\ running'[h] \in Items /\ home'[running'[h]] = h
          /\ ~Within(queue'[h], running'[h])
    BY <1>1, <1>2, <1>3, <1>4, <1>7, <1>8, <1>10 DEF LaneTells, Runs
  <2>2. \A q \in Items : Within(queue'[h], q) => home'[q] = h
    BY <1>1, <1>2, <1>3, <1>7, <1>8 DEF LaneTells
  <2>3. counts'[h] = Occupied(h)' /\ counts'[h] <= MaxPerHousehold
    BY <1>3, <1>5, <1>7, <1>8, <1>9, <1>10, <1>13, CapacityAssumption DEF LaneTells, Occupied
  <2> QED BY <1>2, <1>7, <1>8, <1>10, <2>1, <2>2, <2>3 DEF LaneTells
<1>17. \A q \in Items : home[q] = h => ItemTells(q)'
  <2>1. TAKE q \in Items
  <2>2. HAVE home[q] = h
  <2>3. /\ Waiting(q)' <=> Waiting(q) \/ q = i
        /\ Runs(q)' <=> Runs(q)
    BY <1>2, <1>7, <1>8, <1>10, <2>2 DEF Waiting, Within, Runs
  <2>4. CASE q = i BY <1>4, <1>11, <1>12, <2>3, <2>4 DEF ItemTells
  <2>5. CASE q # i BY <1>11, <1>12, <2>3, <2>5 DEF QueueInv, ItemTells
  <2> QED BY <2>4, <2>5
<1> QED BY <1>1, <1>2, <1>8, <1>9, <1>10, <1>11, <1>12, <1>14, <1>15, <1>16, <1>17, LaneStep

LEMMA CancelQueuedKeeps == ASSUME QueueInv, NEW i \in Items, CancelQueued(i) PROVE QueueInv'
<1>1. PICK h \in Households : h = home[i] BY DEF QueueInv, QueueTypeOK
<1>2. PICK k \in 1..Len(queue[h]) :
        queue[h][k] = i /\ queue' = [queue EXCEPT ![h] = RemoveAt(queue[h], k)]
  BY <1>1 DEF CancelQueued, QueueInv, QueueTypeOK
<1>3. /\ caller[i] = "waiting" /\ counts' = [counts EXCEPT ![h] = counts[h] - 1]
      /\ total' = total - 1
      /\ future' = [future EXCEPT ![i] = "cancelled"] /\ caller' = [caller EXCEPT ![i] = "raised"]
      /\ UNCHANGED <<worker, running, gate, home>>
  BY <1>1 DEF CancelQueued, ReleaseCapacity, QueueInv, QueueTypeOK
<1>4. /\ queue \in [Households -> Seq(Items)] /\ queue[h] \in Seq(Items) /\ counts[h] \in Nat
      /\ LaneTells(h) /\ ItemTells(i)
  BY DEF QueueInv, QueueTypeOK
<1>5. Waiting(i) /\ Within(queue[h], i) /\ Distinct(queue[h])
  BY <1>1, <1>2, <1>4 DEF Waiting, Within, LaneTells
<1>6. future[i] = "pending" /\ ~Runs(i)
  BY <1>1, <1>4, <1>5 DEF ItemTells, LaneTells, Runs
<1>7. PICK s \in Seq(Items) : s = RemoveAt(queue[h], k) BY <1>4, <1>5, WithinRemoved
<1>8. /\ Len(s) = Len(queue[h]) - 1 /\ Distinct(s)
      /\ \A q \in Items : Within(s, q) <=> Within(queue[h], q) /\ q # i
  BY <1>2, <1>4, <1>5, <1>7, WithinRemoved
<1>9. /\ queue' \in [Households -> Seq(Items)] /\ queue'[h] = s
      /\ \A g \in Households \ {h} : queue'[g] = queue[g]
  BY <1>2, <1>4, <1>7
<1>10. Len(queue[h]) \in Nat \ {0} /\ queue[h] # <<>> /\ counts[h] >= 1
  BY <1>2, <1>4 DEF LaneTells, Occupied
<1>11. /\ counts' \in [Households -> Nat] /\ counts'[h] = counts[h] - 1
       /\ \A g \in Households \ {h} : counts'[g] = counts[g]
  BY <1>3, <1>4, <1>10 DEF QueueInv, QueueTypeOK
<1>12. /\ future' \in [Items -> FutureStates] /\ future'[i] = "cancelled"
       /\ \A q \in Items \ {i} : future'[q] = future[q]
  BY <1>3 DEF QueueInv, QueueTypeOK, FutureStates
<1>13. /\ caller' \in [Items -> CallerStates] /\ caller'[i] = "raised"
       /\ \A q \in Items \ {i} : caller'[q] = caller[q]
  BY <1>3 DEF QueueInv, QueueTypeOK, CallerStates
<1>14. TotalTells' /\ total' \in Nat BY <1>3, <1>6, <1>12, TotalShrinks
<1>15. QueueTypeOK'
  BY <1>3, <1>9, <1>11, <1>12, <1>13, <1>14 DEF QueueInv, QueueTypeOK
<1>16. LaneTells(h)'
  <2>1. worker'[h] = "busy" =>
          /\ running'[h] \in Items /\ home'[running'[h]] = h
          /\ ~Within(queue'[h], running'[h])
    BY <1>3, <1>4, <1>8, <1>9 DEF LaneTells
  <2>2. \A q \in Items : Within(queue'[h], q) => home'[q] = h
    BY <1>3, <1>4, <1>8, <1>9 DEF LaneTells
  <2>3. counts'[h] = Occupied(h)' /\ counts'[h] <= MaxPerHousehold
    BY <1>3, <1>4, <1>8, <1>9, <1>10, <1>11, CapacityAssumption DEF LaneTells, Occupied
  <2> QED BY <1>3, <1>4, <1>8, <1>9, <1>10, <2>1, <2>2, <2>3 DEF LaneTells
<1>17. \A q \in Items : home[q] = h => ItemTells(q)'
  <2>1. TAKE q \in Items
  <2>2. HAVE home[q] = h
  <2>3. /\ Waiting(q)' <=> Waiting(q) /\ q # i
        /\ Runs(q)' <=> Runs(q)
    BY <1>3, <1>8, <1>9, <2>2 DEF Waiting, Within, Runs
  <2>4. CASE q = i BY <1>6, <1>12, <2>3, <2>4 DEF ItemTells
  <2>5. CASE q # i BY <1>12, <1>13, <2>3, <2>5 DEF QueueInv, ItemTells
  <2> QED BY <2>4, <2>5
<1>18. gate = "closed" => worker'[h] = "none" BY <1>3 DEF QueueInv
<1> QED
  BY <1>1, <1>3, <1>9, <1>11, <1>12, <1>13, <1>14, <1>15, <1>16, <1>17, <1>18, LaneStep

\* The worker that is free takes the oldest item or ends: what waited in the
\* lane still waits, or runs.
LEMMA TakenTells ==
    ASSUME QueueInv, NEW h \in Households, worker[h] # "none", TakeNext(h), UNCHANGED <<home, gate>>,
           counts'[h] = Len(queue[h])
    PROVE  /\ queue' \in [Households -> Seq(Items)]
           /\ worker' \in [Households -> {"none", "spawned", "busy"}]
           /\ running' \in [Households -> Items \cup {NoItem}]
           /\ \A g \in Households \ {h} :
                queue'[g] = queue[g] /\ worker'[g] = worker[g] /\ running'[g] = running[g]
           /\ LaneTells(h)'
           /\ \A q \in Items : home[q] = h =>
                /\ Waiting(q)' \/ Runs(q)' <=> Waiting(q)
                /\ Waiting(q)' => Waiting(q)
<1>1. /\ queue \in [Households -> Seq(Items)] /\ queue[h] \in Seq(Items) /\ LaneTells(h)
      /\ worker \in [Households -> {"none", "spawned", "busy"}]
      /\ running \in [Households -> Items \cup {NoItem}] /\ counts[h] \in Nat
  BY DEF QueueInv, QueueTypeOK
<1>2. Distinct(queue[h]) /\ \A q \in Items : Within(queue[h], q) => home[q] = h
  BY <1>1 DEF LaneTells
<1>3. Len(queue[h]) \in Nat /\ Len(queue[h]) <= MaxPerHousehold
  <2>1. Len(queue[h]) \in Nat BY <1>1
  <2>2. Len(queue[h]) <= counts[h] BY <1>1, <2>1 DEF LaneTells, Occupied
  <2> QED BY <1>1, <2>1, <2>2, CapacityAssumption DEF LaneTells
<1>4. CASE queue[h] = <<>>
  <2>1. /\ worker' = [worker EXCEPT ![h] = "none"] /\ running' = [running EXCEPT ![h] = NoItem]
        /\ queue' = queue
    BY <1>4 DEF TakeNext
  <2>2. LaneTells(h)'
    BY <1>1, <1>3, <1>4, <2>1 DEF LaneTells, Occupied, Within, Distinct
  <2>3. \A q \in Items : home[q] = h => ~Waiting(q) /\ ~Waiting(q)' /\ ~Runs(q)'
    BY <1>1, <1>4, <2>1 DEF Waiting, Runs
  <2> QED BY <1>1, <2>1, <2>2, <2>3
<1>5. CASE queue[h] # <<>>
  <2>1. /\ worker' = [worker EXCEPT ![h] = "busy"]
        /\ running' = [running EXCEPT ![h] = Head(queue[h])]
        /\ queue' = [queue EXCEPT ![h] = Tail(queue[h])]
    BY <1>1, <1>5 DEF TakeNext
  <2>2. PICK s \in Seq(Items), i \in Items : s = Tail(queue[h]) /\ i = Head(queue[h])
    BY <1>1, <1>2, <1>5, WithinTail
  <2>3. /\ Len(s) = Len(queue[h]) - 1 /\ Len(queue[h]) \in Nat \ {0} /\ Within(queue[h], i)
        /\ Distinct(s) /\ \A q \in Items : Within(s, q) <=> Within(queue[h], q) /\ q # i
    BY <1>1, <1>2, <1>5, <2>2, WithinTail
  <2>4. /\ queue' \in [Households -> Seq(Items)] /\ queue'[h] = s
        /\ worker' \in [Households -> {"none", "spawned", "busy"}] /\ worker'[h] = "busy"
        /\ running' \in [Households -> Items \cup {NoItem}] /\ running'[h] = i
        /\ \A g \in Households \ {h} :
             queue'[g] = queue[g] /\ worker'[g] = worker[g] /\ running'[g] = running[g]
    BY <1>1, <2>1, <2>2
  <2>5. home[i] = h BY <1>2, <2>3
  <2>6. counts'[h] = Occupied(h)' BY <2>3, <2>4 DEF Occupied
  <2>7. gate = "open" BY <1>1, <1>5 DEF LaneTells
  <2>8. LaneTells(h)'
    BY <1>2, <1>3, <2>3, <2>4, <2>5, <2>6, <2>7 DEF LaneTells
  <2>9. \A q \in Items : home[q] = h =>
          /\ Waiting(q)' <=> Waiting(q) /\ q # i
          /\ Runs(q)' <=> q = i
          /\ q = i => Waiting(q)
    BY <2>3, <2>4 DEF Waiting, Within, Runs
  <2> QED BY <2>4, <2>8, <2>9
<1> QED BY <1>4, <1>5

LEMMA StartKeeps == ASSUME QueueInv, NEW h \in Households, WorkerStart(h) PROVE QueueInv'
<1>1. /\ worker[h] = "spawned" /\ TakeNext(h)
      /\ UNCHANGED <<counts, total, gate, home, future, caller>>
  BY DEF WorkerStart
<1>2. LaneTells(h) /\ queue[h] \in Seq(Items) BY DEF QueueInv, QueueTypeOK
<1>3. counts'[h] = Len(queue[h]) BY <1>1, <1>2 DEF LaneTells, Occupied
<1>4. /\ queue' \in [Households -> Seq(Items)]
      /\ worker' \in [Households -> {"none", "spawned", "busy"}]
      /\ running' \in [Households -> Items \cup {NoItem}]
      /\ \A g \in Households \ {h} :
           queue'[g] = queue[g] /\ worker'[g] = worker[g] /\ running'[g] = running[g]
      /\ LaneTells(h)'
      /\ \A q \in Items : home[q] = h =>
           /\ Waiting(q)' \/ Runs(q)' <=> Waiting(q)
           /\ Waiting(q)' => Waiting(q)
  BY <1>1, <1>3, TakenTells
<1>5. QueueTypeOK' BY <1>1, <1>4 DEF QueueInv, QueueTypeOK
<1>6. TotalTells' BY <1>1, TotalStays
<1>7. \A q \in Items : home[q] = h => ~Runs(q) BY <1>1 DEF Runs
<1>8. \A q \in Items : home[q] = h => ItemTells(q)'
  BY <1>1, <1>4, <1>7 DEF QueueInv, ItemTells
<1>9. gate # "closed" BY <1>1 DEF QueueInv
<1> QED BY <1>1, <1>4, <1>5, <1>6, <1>8, <1>9, LaneStep

LEMMA FinishKeeps ==
    ASSUME QueueInv, NEW h \in Households, NEW r \in {"result", "error"}, WorkerFinish(h, r)
    PROVE  QueueInv'
<1>1. LaneTells(h) /\ queue[h] \in Seq(Items) /\ counts[h] \in Nat BY DEF QueueInv, QueueTypeOK
<1>2. worker[h] = "busy" BY DEF WorkerFinish
<1>3. PICK i \in Items : i = running[h] BY <1>1, <1>2 DEF LaneTells
<1>4. home[i] = h /\ ~Within(queue[h], i) BY <1>1, <1>2, <1>3 DEF LaneTells
<1>5. Runs(i) /\ ~Waiting(i) /\ future[i] = "pending"
  BY <1>2, <1>3, <1>4 DEF Runs, Waiting, Within, QueueInv, ItemTells
<1>6. /\ future' = [future EXCEPT ![i] = r] /\ TakeNext(h) /\ UNCHANGED <<gate, home, caller>>
      /\ counts' = [counts EXCEPT ![h] = counts[h] - 1] /\ total' = total - 1
  BY <1>3, <1>5 DEF WorkerFinish, ReleaseCapacity, QueueInv, QueueTypeOK
<1>7. counts[h] = Len(queue[h]) + 1 /\ Len(queue[h]) \in Nat
  BY <1>1, <1>2 DEF LaneTells, Occupied
<1>8. /\ counts' \in [Households -> Nat] /\ counts'[h] = Len(queue[h])
      /\ \A g \in Households \ {h} : counts'[g] = counts[g]
  BY <1>6, <1>7 DEF QueueInv, QueueTypeOK
<1>9. /\ queue' \in [Households -> Seq(Items)]
      /\ worker' \in [Households -> {"none", "spawned", "busy"}]
      /\ running' \in [Households -> Items \cup {NoItem}]
      /\ \A g \in Households \ {h} :
           queue'[g] = queue[g] /\ worker'[g] = worker[g] /\ running'[g] = running[g]
      /\ LaneTells(h)'
      /\ \A q \in Items : home[q] = h =>
           /\ Waiting(q)' \/ Runs(q)' <=> Waiting(q)
           /\ Waiting(q)' => Waiting(q)
  BY <1>2, <1>6, <1>8, TakenTells
<1>10. /\ future' \in [Items -> FutureStates] /\ future'[i] = r
       /\ \A q \in Items \ {i} : future'[q] = future[q]
  BY <1>6 DEF QueueInv, QueueTypeOK, FutureStates
<1>11. TotalTells' /\ total' \in Nat BY <1>5, <1>6, <1>10, TotalShrinks
<1>12. QueueTypeOK' BY <1>6, <1>8, <1>9, <1>10, <1>11 DEF QueueInv, QueueTypeOK
<1>13. \A q \in Items : home[q] = h => ItemTells(q)'
  <2>1. TAKE q \in Items
  <2>2. HAVE home[q] = h
  <2>3. CASE q = i BY <1>4, <1>5, <1>9, <1>10, <2>3 DEF ItemTells
  <2>4. CASE q # i
    <3>1. ~Runs(q) BY <1>3, <2>2, <2>4 DEF Runs
    <3> QED BY <1>6, <1>9, <1>10, <2>2, <2>4, <3>1 DEF QueueInv, ItemTells
  <2> QED BY <2>3, <2>4
<1>14. gate # "closed" BY <1>2 DEF QueueInv
<1>15. \A q \in Items : home[q] # h => future'[q] = future[q] /\ caller'[q] = caller[q]
  BY <1>4, <1>6, <1>10
<1> QED BY <1>6, <1>8, <1>9, <1>11, <1>12, <1>13, <1>14, <1>15, LaneStep

LEMMA CloseBeginKeeps == ASSUME QueueInv, CloseBegin PROVE QueueInv'
<1>1. /\ gate = "open" /\ gate' = "draining" /\ queue' = [h \in Households |-> <<>>]
      /\ counts' = [h \in Households |-> counts[h] - Len(queue[h])]
      /\ total' = total - Cardinality({i \in Items : Waiting(i)})
      /\ future' = [i \in Items |-> IF Waiting(i) THEN "closed" ELSE future[i]]
      /\ UNCHANGED <<worker, running, home, caller>>
  BY DEF CloseBegin, DrainedFutures
<1>2. QueueTypeOK /\ TotalTells BY DEF QueueInv
<1> DEFINE W == {i \in Items : Waiting(i)}
<1>3. \A h \in Households : LaneTells(h) /\ queue[h] \in Seq(Items) /\ Len(queue[h]) \in Nat
                           /\ counts[h] \in Nat
  BY <1>2 DEF QueueInv, QueueTypeOK
<1>4. /\ \A i \in Items : future'[i] = "pending" <=> Runs(i)
      /\ future' \in [Items -> FutureStates]
  <2>1. future \in [Items -> FutureStates] /\ home \in [Items -> Households] BY <1>2 DEF QueueTypeOK
  <2>2. future' \in [Items -> FutureStates] BY <1>1, <2>1 DEF FutureStates
  <2>3. ASSUME NEW i \in Items PROVE Runs(i) => ~Waiting(i)
    <3>1. home[i] \in Households /\ LaneTells(home[i]) BY <1>3, <2>1
    <3>2. Runs(i) => ~Within(queue[home[i]], i) BY <3>1 DEF Runs, LaneTells
    <3> QED BY <3>2 DEF Waiting, Within
  <2>4. \A i \in Items : future[i] = "pending" <=> Waiting(i) \/ Runs(i) BY DEF QueueInv, ItemTells
  <2>5. \A i \in Items : future'[i] = IF Waiting(i) THEN "closed" ELSE future[i] BY <1>1
  <2> QED BY <2>2, <2>3, <2>4, <2>5
<1>5. Pending' = Pending \ W /\ W \subseteq Pending
  BY <1>1 DEF Pending, QueueInv, ItemTells
<1>6. IsFiniteSet(Pending) /\ total = Cardinality(Pending) /\ total \in Nat /\ total <= MaxTotal
  BY <1>2 DEF TotalTells, QueueTypeOK
<1>7. /\ IsFiniteSet(Pending \ W)
      /\ Cardinality(Pending \ W) = Cardinality(Pending) - Cardinality(Pending \cap W)
  BY <1>6, FS_Difference
<1>8. Pending \cap W = W BY <1>5
<1>9. IsFiniteSet(W) BY <1>5, <1>6, FS_Subset
<1>10. Cardinality(W) \in Nat /\ Cardinality(Pending \ W) \in Nat
  BY <1>7, <1>9, FS_CardinalityType
<1>11. total' = Cardinality(Pending') /\ total' \in Nat /\ total' <= MaxTotal
  <2>1. total' = total - Cardinality(W) BY <1>1
  <2> HIDE DEF W
  <2>2. total' = Cardinality(Pending \ W) BY <1>6, <1>7, <1>8, <2>1
  <2>3. Cardinality(Pending \ W) <= MaxTotal
    <3>1. PICK w \in Nat : w = Cardinality(W) BY <1>10
    <3>2. total' = total - w BY <2>1, <3>1
    <3>3. total - w <= MaxTotal BY <1>6, CapacityAssumption
    <3> QED BY <2>2, <3>2, <3>3
  <2> QED BY <1>5, <1>10, <2>2, <2>3
<1>12. TotalTells' BY <1>5, <1>7, <1>11 DEF TotalTells
<1>13. \A h \in Households : LaneTells(h)' /\ counts'[h] \in Nat
  <2>1. TAKE h \in Households
  <2>2. queue'[h] = <<>> /\ counts'[h] = counts[h] - Len(queue[h]) BY <1>1
  <2>3. counts[h] = Occupied(h) /\ counts[h] <= MaxPerHousehold BY <1>3 DEF LaneTells
  <2>4. counts'[h] = (IF worker[h] = "busy" THEN 1 ELSE 0) BY <1>3, <2>2, <2>3 DEF Occupied
  <2>5. counts'[h] \in Nat /\ counts'[h] <= MaxPerHousehold BY <2>4, CapacityAssumption
  <2>6. counts'[h] = Occupied(h)' BY <1>1, <2>2, <2>4 DEF Occupied
  <2>7. LaneTells(h)'
    BY <1>1, <1>3, <2>2, <2>5, <2>6 DEF LaneTells, Distinct, Within
  <2> QED BY <2>5, <2>7
<1>14. counts' \in [Households -> Nat] BY <1>1, <1>13
<1>15. queue' \in [Households -> Seq(Items)] BY <1>1
<1>16. QueueTypeOK' BY <1>1, <1>2, <1>4, <1>11, <1>14, <1>15 DEF QueueTypeOK
<1>17. \A i \in Items : ItemTells(i)'
  <2>1. TAKE i \in Items
  <2>2. home[i] \in Households BY <1>2 DEF QueueTypeOK
  <2>3. ~Waiting(i)' /\ (Runs(i)' <=> Runs(i)) BY <1>1, <2>2 DEF Waiting, Runs
  <2> QED BY <1>1, <1>4, <2>3 DEF QueueInv, ItemTells
<1> QED BY <1>1, <1>12, <1>13, <1>16, <1>17 DEF QueueInv

LEMMA CloseEndKeeps == ASSUME QueueInv, CloseEnd PROVE QueueInv'
<1>1. /\ gate = "draining" /\ gate' = "closed" /\ queue' = [h \in Households |-> <<>>]
      /\ counts' = [h \in Households |-> 0] /\ total' = 0
      /\ UNCHANGED <<worker, running, home, future, caller>>
      /\ \A h \in Households : worker[h] = "none"
  BY DEF CloseEnd, WorkersEnded
<1>2. \A i \in Items : home[i] \in Households /\ ~Runs(i) /\ ~Runs(i)' /\ ~Waiting(i)'
  BY <1>1 DEF QueueInv, QueueTypeOK, Runs, Waiting
<1>3. \A h \in Households : queue[h] = <<>> BY <1>1 DEF QueueInv, LaneTells
<1>4. \A i \in Items : ~Waiting(i) BY <1>2, <1>3 DEF Waiting
<1>5. \A i \in Items : future[i] # "pending" BY <1>2, <1>4 DEF QueueInv, ItemTells
<1>6. Pending' = {} BY <1>1, <1>5 DEF Pending
<1>7. TotalTells' BY <1>1, <1>6, FS_EmptySet, CapacityAssumption DEF TotalTells
<1>8. \A h \in Households : LaneTells(h)'
  BY <1>1, CapacityAssumption DEF LaneTells, Distinct, Within, Occupied
<1>9. \A i \in Items : ItemTells(i)' BY <1>1, <1>2, <1>5 DEF ItemTells
<1>10. QueueTypeOK' BY <1>1 DEF QueueInv, QueueTypeOK
<1> QED BY <1>1, <1>7, <1>8, <1>9, <1>10 DEF QueueInv

LEMMA QueueKeeps == QueueInv /\ [QueueNext]_queueVars => QueueInv'
<1> SUFFICES ASSUME QueueInv, [QueueNext]_queueVars PROVE QueueInv' OBVIOUS
<1>1. CASE UNCHANGED queueVars
  <2>1. TotalTells' BY <1>1, TotalStays DEF queueVars
  <2>2. \A h \in Households : LaneTells(h)' BY <1>1 DEF queueVars, QueueInv, LaneTells, Occupied
  <2>3. \A i \in Items : ItemTells(i)' BY <1>1 DEF queueVars, QueueInv, ItemTells, Waiting, Runs
  <2> QED BY <1>1, <2>1, <2>2, <2>3 DEF queueVars, QueueInv, QueueTypeOK
<1>2. CASE QueueNext
  BY <1>2, CallersKeep, SubmitKeeps, CancelQueuedKeeps, StartKeeps, FinishKeeps, CloseBeginKeeps,
     CloseEndKeeps
     DEF QueueNext, Worker
<1> QED BY <1>1, <1>2

\* Admitted work is counted exactly and tended to its end: what waits has a
\* worker, what runs has its caller, and nothing is left when close() returns
\* (submit, _run, _release_capacity, close).
THEOREM QueuedWorkIsTended == QueueSpec => [](QueueTypeOK /\ WorkIsTended)
<1>1. QueueInv => QueueTypeOK /\ WorkIsTended
  <2> SUFFICES ASSUME QueueInv PROVE QueueTypeOK /\ WorkIsTended OBVIOUS
  <2>1. CountsAreExact BY DEF QueueInv, LaneTells, TotalTells, Pending, CountsAreExact
  <2>2. WaitingWorkHasWorker /\ ClosedMeansQuiet
    BY DEF QueueInv, LaneTells, WaitingWorkHasWorker, ClosedMeansQuiet
  <2>3. RunningWorkIsAwaited
    BY DEF QueueInv, LaneTells, ItemTells, Runs, RunningWorkIsAwaited
  <2> QED BY <2>1, <2>2, <2>3 DEF QueueInv, WorkIsTended
<1>2. QueueInit => QueueInv BY QueueInitially
<1>3. QueueInv /\ [QueueNext]_queueVars => QueueInv' BY QueueKeeps
<1> QED BY <1>1, <1>2, <1>3, PTL DEF QueueSpec

-----------------------------------------------------------------------------
(* The audit outbox                                                         *)

Rows == [event : Events, status : OutboxStatus, holder : Dispatchers \cup {NoDispatcher},
         lapsed : BOOLEAN]

OutboxType ==
    /\ outbox \in Seq(Rows) /\ batch \in [Dispatchers -> Seq(Events)]
    /\ handling \in [Dispatchers -> Handling]
    /\ received \in [Events -> Nat] /\ excuse \in [Events -> Nat]

\* One row for an event; nobody holds one that is delivered.
RowsUnique == \A i, j \in DOMAIN outbox : outbox[i].event = outbox[j].event => i = j
RowTells(i) == outbox[i].status = "delivered" =>
                 outbox[i].holder = NoDispatcher /\ received[outbox[i].event] > 0

\* The dispatcher d is still to deliver e.
Owes(d, e) == Within(batch[d], e) /\ (Head(batch[d]) = e => handling[d] = "next")

BatchTells(d) ==
    /\ Distinct(batch[d])
    /\ \A e \in Events : Within(batch[d], e) => \E i \in DOMAIN outbox : outbox[i].event = e
    /\ handling[d] # "next" => batch[d] # <<>>
    /\ handling[d] = "accepted" => received[Head(batch[d])] > 0

\* The row may be claimed, or will be, without an excuse for a repeat: it is free,
\* or its holder failed to deliver it, or left it before it delivered it.
Open(i) ==
    LET d == outbox[i].holder
        e == outbox[i].event
    IN  /\ outbox[i].status = "pending"
        /\ \/ d = NoDispatcher \/ outbox[i].lapsed
           \/ Within(batch[d], e) /\ Head(batch[d]) = e /\ handling[d] = "failed"
           \/ ~Within(batch[d], e) /\ received[e] = 0

\* Somebody may yet come to owe e.
Chance(e) == (\A i \in DOMAIN outbox : outbox[i].event # e)
             \/ \E i \in DOMAIN outbox : outbox[i].event = e /\ Open(i)

Unit(b) == IF b THEN 1 ELSE 0
Owing(e) == {d \in Dispatchers : Owes(d, e)}

\* What the destination has seen of e and may yet see without a further excuse.
Account(e) ==
    /\ IsFiniteSet(Owing(e))
    /\ received[e] + Cardinality(Owing(e)) + Unit(Chance(e)) <= 1 + excuse[e]

OutboxInv ==
    /\ OutboxType /\ RowsUnique
    /\ \A i \in DOMAIN outbox : RowTells(i)
    /\ \A d \in Dispatchers : BatchTells(d)
    /\ \A e \in Events : Account(e)

-----------------------------------------------------------------------------
(* Lemmas *)

LEMMA ListIsSeq == ASSUME NEW S, NEW n \in Nat, NEW f \in [1..n -> S] PROVE f \in Seq(S)
OBVIOUS

LEMMA UnitIs == \A b : Unit(b) \in {0, 1} /\ (Unit(b) = 1 <=> b)
BY DEF Unit

LEMMA RowTypes == OutboxType => \A i \in DOMAIN outbox :
    /\ outbox[i] \in Rows /\ outbox[i].event \in Events
    /\ outbox[i].status \in {"pending", "delivered"}
    /\ outbox[i].holder \in Dispatchers \cup {NoDispatcher}
<1> SUFFICES ASSUME OutboxType, NEW i \in DOMAIN outbox
             PROVE  /\ outbox[i] \in Rows /\ outbox[i].event \in Events
                    /\ outbox[i].status \in {"pending", "delivered"}
                    /\ outbox[i].holder \in Dispatchers \cup {NoDispatcher}
  OBVIOUS
<1>1. outbox \in Seq(Rows) BY DEF OutboxType
<1>2. outbox[i] \in Rows BY <1>1
<1> QED BY <1>2 DEF Rows, OutboxStatus

\* A step of one dispatcher that takes from its debt and from the chances what it
\* adds to what was received, or has an excuse for it, keeps the account.
LEMMA Tally ==
    ASSUME OutboxInv, NEW d \in Dispatchers, NEW e \in Events,
           \A c \in Dispatchers \ {d} : Owes(c, e)' <=> Owes(c, e),
           received'[e] \in Nat, excuse'[e] \in Nat,
           received'[e] + Unit(Owes(d, e)') + Unit(Chance(e)') + excuse[e]
             <= received[e] + Unit(Owes(d, e)) + Unit(Chance(e)) + excuse'[e]
    PROVE  Account(e)'
<1>1. /\ IsFiniteSet(Owing(e)) /\ received[e] \in Nat /\ excuse[e] \in Nat
      /\ received[e] + Cardinality(Owing(e)) + Unit(Chance(e)) <= 1 + excuse[e]
  BY DEF OutboxInv, OutboxType, Account
<1>2. PICK n \in Nat : n = Cardinality(Owing(e)) BY <1>1, FS_CardinalityType
<1>3. IsFiniteSet(Owing(e)') /\ Cardinality(Owing(e)') + Unit(Owes(d, e)) = n + Unit(Owes(d, e)')
  <2>1. CASE Owes(d, e) /\ Owes(d, e)'
    <3>1. Owing(e)' = Owing(e) BY <2>1 DEF Owing
    <3> QED BY <1>1, <1>2, <2>1, <3>1 DEF Unit
  <2>2. CASE ~Owes(d, e) /\ ~Owes(d, e)'
    <3>1. Owing(e)' = Owing(e) BY <2>2 DEF Owing
    <3> QED BY <1>1, <1>2, <2>2, <3>1 DEF Unit
  <2>3. CASE ~Owes(d, e) /\ Owes(d, e)'
    <3>1. Owing(e)' = Owing(e) \cup {d} /\ d \notin Owing(e) BY <2>3 DEF Owing
    <3>2. IsFiniteSet(Owing(e) \cup {d}) /\ Cardinality(Owing(e) \cup {d}) = n + 1
      BY <1>1, <1>2, <3>1, FS_AddElement
    <3> QED BY <2>3, <3>1, <3>2 DEF Unit
  <2>4. CASE Owes(d, e) /\ ~Owes(d, e)'
    <3>1. Owing(e)' = Owing(e) \ {d} /\ d \in Owing(e) BY <2>4 DEF Owing
    <3>2. IsFiniteSet(Owing(e) \ {d}) /\ Cardinality(Owing(e) \ {d}) = n - 1
      BY <1>1, <1>2, <3>1, FS_RemoveElement
    <3> QED BY <2>4, <3>1, <3>2 DEF Unit
  <2> QED BY <2>1, <2>2, <2>3, <2>4
<1>4. Cardinality(Owing(e)') \in Nat BY <1>3, FS_CardinalityType
<1>5. /\ Unit(Owes(d, e)) \in {0, 1} /\ Unit(Owes(d, e)') \in {0, 1}
      /\ Unit(Chance(e)) \in {0, 1} /\ Unit(Chance(e)') \in {0, 1}
  BY DEF Unit
<1>6. received'[e] + Cardinality(Owing(e)') + Unit(Chance(e)') <= 1 + excuse'[e]
  BY <1>1, <1>2, <1>3, <1>4, <1>5
<1> QED BY <1>3, <1>6 DEF Account, Unit

\* Two ways to keep it: no more is received, owed or possible than before ...
LEMMA NothingMore ==
    ASSUME OutboxInv, NEW d \in Dispatchers, NEW e \in Events,
           \A c \in Dispatchers \ {d} : Owes(c, e)' <=> Owes(c, e),
           received'[e] = received[e], excuse'[e] \in Nat, excuse'[e] >= excuse[e],
           Owes(d, e)' => Owes(d, e), Chance(e)' => Chance(e)
    PROVE  Account(e)'
<1>1. received[e] \in Nat /\ excuse[e] \in Nat BY DEF OutboxInv, OutboxType
<1>2. Unit(Owes(d, e)') <= Unit(Owes(d, e)) /\ Unit(Chance(e)') <= Unit(Chance(e)) BY DEF Unit
<1>3. /\ Unit(Owes(d, e)) \in {0, 1} /\ Unit(Owes(d, e)') \in {0, 1}
      /\ Unit(Chance(e)) \in {0, 1} /\ Unit(Chance(e)') \in {0, 1}
  BY DEF Unit
<1>4. received'[e] + Unit(Owes(d, e)') + Unit(Chance(e)') + excuse[e]
        <= received[e] + Unit(Owes(d, e)) + Unit(Chance(e)) + excuse'[e]
  BY <1>1, <1>2, <1>3
<1> QED BY <1>1, <1>4, Tally

\* ... or the chance that arises was a debt, or there is an excuse for it.
LEMMA ChanceForDebt ==
    ASSUME OutboxInv, NEW d \in Dispatchers, NEW e \in Events,
           \A c \in Dispatchers \ {d} : Owes(c, e)' <=> Owes(c, e),
           received'[e] = received[e], excuse'[e] \in Nat,
           ~Owes(d, e)',
           \/ Owes(d, e) /\ excuse'[e] = excuse[e]
           \/ excuse'[e] = excuse[e] + 1
    PROVE  Account(e)'
<1>1. received[e] \in Nat /\ excuse[e] \in Nat BY DEF OutboxInv, OutboxType
<1>2. /\ Unit(Owes(d, e)) \in {0, 1} /\ Unit(Owes(d, e)') = 0
      /\ Unit(Chance(e)) \in {0, 1} /\ Unit(Chance(e)') \in {0, 1}
      /\ Owes(d, e) => Unit(Owes(d, e)) = 1
  BY DEF Unit
<1>3. received'[e] + Unit(Owes(d, e)') + Unit(Chance(e)') + excuse[e]
        <= received[e] + Unit(Owes(d, e)) + Unit(Chance(e)) + excuse'[e]
  BY <1>1, <1>2
<1> QED BY <1>1, <1>3, Tally

\* A row is the only one of its event.
LEMMA ChanceAt ==
    ASSUME OutboxType, RowsUnique, NEW i \in DOMAIN outbox, NEW e, outbox[i].event = e
    PROVE  Chance(e) <=> Open(i)
BY DEF RowsUnique, Chance

LEMMA ChanceNext ==
    ASSUME NEW e, DOMAIN outbox' = DOMAIN outbox,
           \A i \in DOMAIN outbox : outbox'[i].event = outbox[i].event,
           \A i \in DOMAIN outbox : outbox[i].event = e => (Open(i)' => Open(i))
    PROVE  Chance(e)' => Chance(e)
BY DEF Chance

-----------------------------------------------------------------------------
(* Steps *)

LEMMA OutboxInitially == OutboxInit => OutboxInv
<1> SUFFICES ASSUME OutboxInit PROVE OutboxInv OBVIOUS
<1>1. OutboxType BY DEF OutboxInit, OutboxType, Handling
<1>2. \A e \in Events : Account(e)
  <2>1. TAKE e \in Events
  <2>2. Owing(e) = {} BY DEF OutboxInit, Owing, Owes, Within
  <2>3. received[e] = 0 /\ excuse[e] = 0 BY DEF OutboxInit
  <2> QED BY <2>2, <2>3, FS_EmptySet DEF Account, Unit
<1>3. RowsUnique /\ \A i \in DOMAIN outbox : RowTells(i) BY DEF OutboxInit, RowsUnique
<1>4. \A d \in Dispatchers : BatchTells(d) BY DEF OutboxInit, BatchTells, Distinct, Within
<1> QED BY <1>1, <1>2, <1>3, <1>4 DEF OutboxInv

\* A new event is as good as a chance to owe it.
LEMMA AppendKeeps == ASSUME OutboxInv, NEW f \in Events, AppendEvent(f) PROVE OutboxInv'
<1> DEFINE new == [event |-> f, status |-> "pending", holder |-> NoDispatcher, lapsed |-> FALSE]
<1>1. /\ outbox' = Append(outbox, new) /\ UNCHANGED <<batch, handling, received, excuse>>
      /\ \A i \in DOMAIN outbox : outbox[i].event # f
  BY DEF AppendEvent
<1>2. outbox \in Seq(Rows) /\ new \in Rows BY DEF OutboxInv, OutboxType, Rows, OutboxStatus
<1>3. /\ outbox' \in Seq(Rows) /\ DOMAIN outbox' = DOMAIN outbox \cup {Len(outbox) + 1}
      /\ \A i \in DOMAIN outbox : outbox'[i] = outbox[i]
      /\ outbox'[Len(outbox) + 1] = new /\ Len(outbox) + 1 \notin DOMAIN outbox
  <2> HIDE DEF new
  <2>1. /\ outbox' \in Seq(Rows) /\ Len(outbox') = Len(outbox) + 1
        /\ \A i \in 1..Len(outbox) : outbox'[i] = outbox[i]
        /\ outbox'[Len(outbox) + 1] = new
    BY <1>1, <1>2, AppendProperties
  <2>2. DOMAIN outbox = 1..Len(outbox) /\ DOMAIN outbox' = 1..Len(outbox') /\ Len(outbox) \in Nat
    BY <1>2, <2>1, LenProperties
  <2> QED BY <2>1, <2>2
<1>4. OutboxType' BY <1>1, <1>3 DEF OutboxInv, OutboxType
<1>5. RowsUnique' BY <1>1, <1>3 DEF OutboxInv, RowsUnique
<1>6. \A i \in DOMAIN outbox' : RowTells(i)' BY <1>1, <1>3 DEF OutboxInv, RowTells
<1>7. \A d \in Dispatchers : BatchTells(d)' BY <1>1, <1>3 DEF OutboxInv, BatchTells
<1>8. \A e \in Events : Account(e)'
  <2>1. TAKE e \in Events
  <2>2. Owing(e)' = Owing(e) BY <1>1 DEF Owing, Owes
  <2>3. Chance(e)' => Chance(e)
    <3>1. CASE e = f BY <1>1, <3>1 DEF Chance
    <3>2. CASE e # f
      <4>1. \A i \in DOMAIN outbox : Open(i)' <=> Open(i) BY <1>1, <1>3 DEF Open
      <4>2. outbox'[Len(outbox) + 1].event # e BY <1>3, <3>2
      <4> QED BY <1>3, <4>1, <4>2 DEF Chance
    <3> QED BY <3>1, <3>2
  <2>4. Unit(Chance(e)') <= Unit(Chance(e)) /\ Unit(Chance(e)) \in {0, 1} /\ Unit(Chance(e)') \in {0, 1}
    BY <2>3 DEF Unit
  <2>5. Cardinality(Owing(e)) \in Nat /\ received[e] \in Nat /\ excuse[e] \in Nat /\ Account(e)
    BY FS_CardinalityType DEF OutboxInv, OutboxType, Account
  <2>6. received[e] + Cardinality(Owing(e)) + Unit(Chance(e)') <= 1 + excuse[e]
    BY <2>4, <2>5 DEF Account
  <2> QED BY <1>1, <2>2, <2>5, <2>6 DEF Account, Unit
<1> QED BY <1>4, <1>5, <1>6, <1>7, <1>8 DEF OutboxInv

\* A dispatcher takes its batch: a chance becomes its debt.
LEMMA ClaimKeeps == ASSUME OutboxInv, NEW d \in Dispatchers, ClaimPendingOutbox(d) PROVE OutboxInv'
<1> DEFINE mine == {i \in DOMAIN outbox : Claims(i)}
<1>1. PICK order \in Bijection(1..Cardinality(mine), mine) :
        batch' = [batch EXCEPT ![d] = [n \in DOMAIN order |-> outbox[order[n]].event]]
  BY DEF ClaimPendingOutbox
<1>2. /\ batch[d] = <<>> /\ UNCHANGED <<handling, received, excuse>>
      /\ outbox' = [i \in DOMAIN outbox |->
                      IF i \in mine THEN [outbox[i] EXCEPT !.holder = d, !.lapsed = FALSE]
                                    ELSE outbox[i]]
  BY DEF ClaimPendingOutbox
<1>3. /\ mine \subseteq DOMAIN outbox
      /\ \A i \in mine : outbox[i].status = "pending" /\ Open(i)
  BY DEF Claims, ClaimableRow, Open
<1>4. outbox \in Seq(Rows) /\ DOMAIN outbox = 1..Len(outbox) /\ Len(outbox) \in Nat
  BY DEF OutboxInv, OutboxType
<1>5. IsFiniteSet(mine) /\ Cardinality(mine) \in Nat
  <2>1. IsFiniteSet(1..Len(outbox)) BY <1>4, FS_Interval
  <2>2. mine \in SUBSET (1..Len(outbox)) BY <1>3, <1>4
  <2> QED BY <2>1, <2>2, FS_Subset, FS_CardinalityType
<1> HIDE DEF mine
<1>6. PICK n \in Nat : n = Cardinality(mine) BY <1>5
<1>7. /\ order \in [1..n -> mine] /\ \A a, b \in 1..n : order[a] = order[b] => a = b
      /\ \A i \in mine : \E a \in 1..n : order[a] = i
  BY <1>1, <1>6 DEF Bijection, Injection, Surjection, IsInjective
<1>8. \A i \in DOMAIN outbox : outbox[i] \in Rows /\ outbox[i].event \in Events BY RowTypes DEF OutboxInv
<1>9. PICK s \in Seq(Events) : s = [k \in 1..n |-> outbox[order[k]].event]
  <2>1. \A k \in 1..n : outbox[order[k]].event \in Events BY <1>3, <1>7, <1>8
  <2>2. [k \in 1..n |-> outbox[order[k]].event] \in [1..n -> Events] BY <2>1
  <2> QED BY <2>2, ListIsSeq
<1>10. Len(s) = n /\ \A k \in 1..n : s[k] = outbox[order[k]].event BY <1>6, <1>9
<1>11. /\ batch' \in [Dispatchers -> Seq(Events)] /\ batch'[d] = s
       /\ \A c \in Dispatchers \ {d} : batch'[c] = batch[c]
  <2>1. DOMAIN order = 1..n BY <1>7
  <2>2. batch' = [batch EXCEPT ![d] = s] BY <1>1, <1>9, <2>1
  <2> QED BY <2>2 DEF OutboxInv, OutboxType
<1>12. \A e \in Events : Within(s, e) <=> \E i \in mine : outbox[i].event = e
  BY <1>7, <1>10 DEF Within
<1>13. Distinct(s)
  <2> SUFFICES ASSUME NEW a \in 1..n, NEW b \in 1..n, s[a] = s[b] PROVE a = b
    BY <1>10 DEF Distinct
  <2>1. order[a] \in DOMAIN outbox /\ order[b] \in DOMAIN outbox BY <1>3, <1>7
  <2>2. order[a] = order[b] BY <1>10, <2>1 DEF OutboxInv, RowsUnique
  <2> QED BY <1>7, <2>2
<1>14. /\ DOMAIN outbox' = DOMAIN outbox
       /\ \A i \in DOMAIN outbox \ mine : outbox'[i] = outbox[i]
       /\ \A i \in mine : /\ outbox'[i] \in Rows /\ outbox'[i].event = outbox[i].event
                          /\ outbox'[i].status = outbox[i].status
                          /\ outbox'[i].holder = d /\ ~outbox'[i].lapsed
  <2>1. DOMAIN outbox' = DOMAIN outbox /\ \A i \in DOMAIN outbox \ mine : outbox'[i] = outbox[i]
    BY <1>2
  <2>2. \A i \in mine : outbox'[i] = [outbox[i] EXCEPT !.holder = d, !.lapsed = FALSE]
    BY <1>2, <1>3
  <2>3. ASSUME NEW i \in mine
        PROVE  /\ outbox'[i] \in Rows /\ outbox'[i].event = outbox[i].event
               /\ outbox'[i].status = outbox[i].status
               /\ outbox'[i].holder = d /\ ~outbox'[i].lapsed
    <3>1. outbox[i] \in Rows BY <1>3, <1>8
    <3> QED BY <2>2, <3>1 DEF Rows
  <2> QED BY <2>1, <2>3
<1>15. outbox' \in Seq(Rows)
  <2>1. \A i \in 1..Len(outbox) : outbox'[i] \in Rows BY <1>4, <1>8, <1>14
  <2>2. outbox' = [i \in 1..Len(outbox) |-> outbox'[i]] BY <1>2, <1>4
  <2> QED BY <1>4, <2>1, <2>2, IsASeq
<1>16. OutboxType' BY <1>2, <1>11, <1>15 DEF OutboxInv, OutboxType
<1>17. \A i \in DOMAIN outbox : outbox'[i].event = outbox[i].event BY <1>14
<1>18. RowsUnique' BY <1>14, <1>17 DEF OutboxInv, RowsUnique
<1>19. \A i \in DOMAIN outbox' : RowTells(i)'
  BY <1>2, <1>3, <1>14 DEF OutboxInv, RowTells
<1>20. handling[d] = "next" BY <1>2 DEF OutboxInv, BatchTells
<1>21. \A c \in Dispatchers : BatchTells(c)'
  <2>1. handling' = handling /\ received' = received BY <1>2
  <2>2. BatchTells(d)'
    <3>1. \A e \in Events : Within(batch'[d], e) => \E i \in DOMAIN outbox' : outbox'[i].event = e
      BY <1>3, <1>11, <1>12, <1>14
    <3>2. Distinct(batch'[d]) BY <1>11, <1>13
    <3> QED BY <1>20, <2>1, <3>1, <3>2 DEF BatchTells
  <2>3. ASSUME NEW c \in Dispatchers \ {d} PROVE BatchTells(c)'
    <3>1. BatchTells(c) /\ batch'[c] = batch[c] BY <1>11 DEF OutboxInv
    <3>2. \A e \in Events : Within(batch'[c], e) => \E i \in DOMAIN outbox' : outbox'[i].event = e
      BY <1>14, <1>17, <3>1 DEF BatchTells
    <3> QED BY <2>1, <3>1, <3>2 DEF BatchTells
  <2> QED BY <2>2, <2>3
<1>22. \A e \in Events : Account(e)'
  <2>1. TAKE e \in Events
  <2>2. \A c \in Dispatchers \ {d} : Owes(c, e)' <=> Owes(c, e) BY <1>2, <1>11 DEF Owes
  <2>3. /\ received[e] \in Nat /\ excuse[e] \in Nat
        /\ received'[e] = received[e] /\ excuse'[e] = excuse[e]
    BY <1>2 DEF OutboxInv, OutboxType
  <2>4. CASE \E i \in mine : outbox[i].event = e
    <3>1. PICK i \in mine : outbox[i].event = e BY <2>4
    <3>2. Chance(e) BY <1>3, <3>1 DEF Chance
    <3>3. ~Open(i)'
      <4>1. outbox'[i].holder = d /\ ~outbox'[i].lapsed /\ outbox'[i].event = e BY <1>14, <3>1
      <4>2. Within(batch'[d], e) /\ handling'[d] # "failed" BY <1>2, <1>11, <1>12, <1>20, <3>1
      <4>3. d # NoDispatcher BY OutboxAssumption
      <4> QED BY <4>1, <4>2, <4>3 DEF Open
    <3>4. ~Chance(e)' BY <1>3, <1>14, <1>17, <1>18, <3>1, <3>3 DEF Chance, RowsUnique
    <3>5. /\ Unit(Chance(e)) = 1 /\ Unit(Chance(e)') = 0
          /\ Unit(Owes(d, e)) \in {0, 1} /\ Unit(Owes(d, e)') \in {0, 1}
      BY <3>2, <3>4 DEF Unit
    <3>6. received'[e] + Unit(Owes(d, e)') + Unit(Chance(e)') + excuse[e]
            <= received[e] + Unit(Owes(d, e)) + Unit(Chance(e)) + excuse'[e]
      BY <2>3, <3>5
    <3> QED BY <2>2, <2>3, <3>6, Tally
  <2>5. CASE ~\E i \in mine : outbox[i].event = e
    <3>1. ~Owes(d, e)' BY <1>11, <1>12, <2>5 DEF Owes
    <3>2. \A i \in DOMAIN outbox : outbox[i].event = e => (Open(i)' => Open(i))
      <4> SUFFICES ASSUME NEW i \in DOMAIN outbox, outbox[i].event = e, Open(i)' PROVE Open(i)
        OBVIOUS
      <4>1. outbox'[i] = outbox[i] BY <1>14, <2>5
      <4>2. ~Within(batch[d], e) /\ ~Within(batch'[d], e)
        <5>1. batch[d] = <<>> BY <1>2
        <5>2. ~Within(batch[d], e) BY <5>1 DEF Within
        <5> QED BY <1>11, <1>12, <2>5, <5>2
      <4>3. outbox[i].holder \in Dispatchers \cup {NoDispatcher} BY RowTypes DEF OutboxInv
      <4>4. CASE outbox[i].holder = d BY <1>2, <4>1, <4>2, <4>4 DEF Open
      <4>5. CASE outbox[i].holder # d BY <1>2, <1>11, <4>1, <4>3, <4>5 DEF Open
      <4> QED BY <4>4, <4>5
    <3>3. Chance(e)' => Chance(e) BY <1>14, <1>17, <3>2, ChanceNext
    <3>4. excuse'[e] >= excuse[e] /\ excuse'[e] \in Nat BY <2>3
    <3> QED BY <2>2, <2>3, <3>1, <3>3, <3>4, NothingMore
  <2> QED BY <2>4, <2>5
<1> QED BY <1>16, <1>18, <1>19, <1>21, <1>22 DEF OutboxInv

-----------------------------------------------------------------------------
(* The loop *)

LEMMA HeadIs ==
    ASSUME OutboxInv, NEW d \in Dispatchers, batch[d] # <<>>
    PROVE  /\ batch[d] \in Seq(Events) /\ Head(batch[d]) \in Events
           /\ Within(batch[d], Head(batch[d])) /\ Distinct(batch[d])
<1>1. batch[d] \in Seq(Events) /\ Distinct(batch[d]) BY DEF OutboxInv, OutboxType, BatchTells
<1> QED BY <1>1, WithinTail

\* The dispatcher learns what became of the event at its head: all the rest is as it was.
LEMMA HeadTold ==
    ASSUME OutboxInv, NEW d \in Dispatchers, batch[d] # <<>>, NEW h \in Events, h = Head(batch[d]),
           NEW x \in Handling, x # "next", handling' = [handling EXCEPT ![d] = x],
           outbox' = outbox, batch' = batch,
           received' \in [Events -> Nat], excuse' \in [Events -> Nat],
           \A e \in Events \ {h} : received'[e] = received[e] /\ excuse'[e] = excuse[e],
           received'[h] >= received[h], x = "accepted" => received'[h] > 0,
           Account(h)'
    PROVE  OutboxInv'
<1>1. /\ received \in [Events -> Nat] /\ excuse \in [Events -> Nat]
      /\ handling \in [Dispatchers -> Handling]
  BY DEF OutboxInv, OutboxType
<1>2. handling'[d] = x /\ \A c \in Dispatchers \ {d} : handling'[c] = handling[c] BY <1>1
<1>3. \A e \in Events : received[e] > 0 => received'[e] > 0 BY <1>1
<1>4. OutboxType' BY DEF OutboxInv, OutboxType
<1>5. RowsUnique' BY DEF OutboxInv, RowsUnique
<1>6. \A i \in DOMAIN outbox' : RowTells(i)'
  <2> SUFFICES ASSUME NEW i \in DOMAIN outbox PROVE RowTells(i)' OBVIOUS
  <2>1. outbox[i].event \in Events /\ RowTells(i) BY RowTypes DEF OutboxInv
  <2> QED BY <1>3, <2>1 DEF RowTells
<1>7. \A c \in Dispatchers : BatchTells(c)'
  <2>1. TAKE c \in Dispatchers
  <2>2. BatchTells(c) BY DEF OutboxInv
  <2>3. CASE c = d BY <1>2, <2>2, <2>3 DEF BatchTells
  <2>4. CASE c # d
    <3>1. batch[c] # <<>> => Head(batch[c]) \in Events BY HeadIs
    <3> QED BY <1>2, <1>3, <2>2, <2>4, <3>1 DEF BatchTells
  <2> QED BY <2>3, <2>4
<1>8. \A e \in Events : Account(e)'
  <2>1. TAKE e \in Events
  <2>2. CASE e = h BY <2>2
  <2>3. CASE e # h
    <3>1. received'[e] = received[e] /\ excuse'[e] = excuse[e] BY <2>3
    <3>2. \A c \in Dispatchers : Owes(c, e)' <=> Owes(c, e) BY <1>2, <2>3 DEF Owes
    <3>3. \A i \in DOMAIN outbox : outbox[i].event = e => (Open(i)' => Open(i))
      <4> SUFFICES ASSUME NEW i \in DOMAIN outbox, outbox[i].event = e, Open(i)' PROVE Open(i)
        OBVIOUS
      <4>1. outbox[i].holder \in Dispatchers \cup {NoDispatcher} BY RowTypes DEF OutboxInv
      <4> QED BY <1>2, <2>3, <3>1, <4>1 DEF Open
    <3>4. Chance(e)' => Chance(e) BY <3>3, ChanceNext
    <3>5. excuse'[e] \in Nat /\ excuse'[e] >= excuse[e] BY <1>1, <3>1
    <3> QED BY <3>1, <3>2, <3>4, <3>5, NothingMore
  <2> QED BY <2>2, <2>3
<1> QED BY <1>4, <1>5, <1>6, <1>7, <1>8 DEF OutboxInv

\* What becomes of the debt for the event at the head.
LEMMA HeadDebt ==
    ASSUME OutboxInv, NEW d \in Dispatchers, batch[d] # <<>>, NEW h \in Events, h = Head(batch[d]),
           NEW x \in Handling, x # "next", handling' = [handling EXCEPT ![d] = x], batch' = batch
    PROVE  /\ \A c \in Dispatchers \ {d} : Owes(c, h)' <=> Owes(c, h)
           /\ ~Owes(d, h)' /\ (handling[d] = "next" => Owes(d, h))
<1>1. handling'[d] = x /\ \A c \in Dispatchers \ {d} : handling'[c] = handling[c]
  BY DEF OutboxInv, OutboxType
<1> QED BY <1>1, HeadIs DEF Owes

\* The debt is paid.
LEMMA DeliverKeeps == ASSUME OutboxInv, NEW d \in Dispatchers, Deliver(d) PROVE OutboxInv'
<1>1. PICK h \in Events : h = Head(batch[d]) BY HeadIs DEF Deliver
<1>2. /\ batch[d] # <<>> /\ handling[d] = "next" /\ outbox' = outbox /\ batch' = batch
      /\ excuse' = excuse /\ handling' = [handling EXCEPT ![d] = "accepted"]
      /\ received' = [received EXCEPT ![h] = received[h] + 1]
  BY <1>1 DEF Deliver
<1>3. "accepted" \in Handling BY DEF Handling
<1>4. received \in [Events -> Nat] /\ excuse \in [Events -> Nat] /\ handling \in [Dispatchers -> Handling]
  BY DEF OutboxInv, OutboxType
<1>5. /\ received' \in [Events -> Nat] /\ received'[h] = received[h] + 1
      /\ \A e \in Events \ {h} : received'[e] = received[e]
  BY <1>2, <1>4
<1>6. /\ \A c \in Dispatchers \ {d} : Owes(c, h)' <=> Owes(c, h)
      /\ ~Owes(d, h)' /\ Owes(d, h)
  BY <1>1, <1>2, <1>3, HeadDebt
<1>7. Chance(h)' => Chance(h)
  <2>1. \A i \in DOMAIN outbox : outbox[i].event = h => (Open(i)' => Open(i))
    <3> SUFFICES ASSUME NEW i \in DOMAIN outbox, outbox[i].event = h, Open(i)' PROVE Open(i)
      OBVIOUS
    <3>1. outbox[i].holder \in Dispatchers \cup {NoDispatcher} BY RowTypes DEF OutboxInv
    <3>2. received'[h] # 0 BY <1>4, <1>5
    <3>3. \A c \in Dispatchers : handling'[c] = "failed" => handling[c] = "failed" BY <1>2, <1>4
    <3> QED BY <1>2, <3>1, <3>2, <3>3 DEF Open
  <2> QED BY <1>2, <2>1, ChanceNext
<1>8. Account(h)'
  <2>1. /\ Unit(Owes(d, h)) = 1 /\ Unit(Owes(d, h)') = 0
        /\ Unit(Chance(h)) \in {0, 1} /\ Unit(Chance(h)') \in {0, 1}
        /\ Unit(Chance(h)') <= Unit(Chance(h))
    BY <1>6, <1>7 DEF Unit
  <2>2. /\ received[h] \in Nat /\ received'[h] \in Nat /\ received'[h] = received[h] + 1
        /\ excuse[h] \in Nat /\ excuse'[h] = excuse[h]
    BY <1>2, <1>4, <1>5
  <2>3. received'[h] + Unit(Owes(d, h)') + Unit(Chance(h)') + excuse[h]
          <= received[h] + Unit(Owes(d, h)) + Unit(Chance(h)) + excuse'[h]
    BY <2>1, <2>2
  <2> QED BY <1>6, <2>2, <2>3, Tally
<1>9. received'[h] >= received[h] /\ received'[h] > 0 BY <1>4, <1>5
<1>10. excuse' \in [Events -> Nat] /\ \A e \in Events \ {h} : excuse'[e] = excuse[e] BY <1>2, <1>4
<1> QED BY <1>1, <1>2, <1>3, <1>5, <1>8, <1>9, <1>10, HeadTold

LEMMA ExcusedIs ==
    ASSUME excuse \in [Events -> Nat], NEW h \in Events
    PROVE  /\ Excused({h}) \in [Events -> Nat] /\ Excused({h})[h] = excuse[h] + 1
           /\ \A e \in Events \ {h} : Excused({h})[e] = excuse[e]
BY DEF Excused

\* The debt is a chance again; what was taken unseen has its excuse.
LEMMA DeliverFailsKeeps == ASSUME OutboxInv, NEW d \in Dispatchers, DeliverFails(d) PROVE OutboxInv'
<1>1. PICK h \in Events : h = Head(batch[d]) BY HeadIs DEF DeliverFails
<1>2. /\ batch[d] # <<>> /\ handling[d] = "next" /\ outbox' = outbox /\ batch' = batch
      /\ handling' = [handling EXCEPT ![d] = "failed"]
  BY DEF DeliverFails
<1>3. "failed" \in Handling BY DEF Handling
<1>4. received \in [Events -> Nat] /\ excuse \in [Events -> Nat]
  BY DEF OutboxInv, OutboxType
<1>5. /\ \A c \in Dispatchers \ {d} : Owes(c, h)' <=> Owes(c, h)
      /\ ~Owes(d, h)' /\ Owes(d, h)
  BY <1>1, <1>2, <1>3, HeadDebt
<1>6. CASE UNCHANGED <<received, excuse>>
  <2>1. received' = received /\ excuse' = excuse BY <1>6
  <2>2. received'[h] = received[h] /\ excuse'[h] = excuse[h] /\ excuse'[h] \in Nat BY <1>4, <2>1
  <2>3. Account(h)' BY <1>5, <2>2, ChanceForDebt
  <2>4. received'[h] >= received[h] /\ received' \in [Events -> Nat] /\ excuse' \in [Events -> Nat]
    BY <1>4, <2>1
  <2> QED BY <1>1, <1>2, <1>3, <2>1, <2>3, <2>4, HeadTold
<1>7. CASE /\ received' = [received EXCEPT ![Head(batch[d])] = @ + 1]
           /\ excuse' = Excused({Head(batch[d])})
  <2>1. received' = [received EXCEPT ![h] = received[h] + 1] /\ excuse' = Excused({h}) BY <1>1, <1>7
  <2>2. /\ received' \in [Events -> Nat] /\ received'[h] = received[h] + 1
        /\ \A e \in Events \ {h} : received'[e] = received[e]
    BY <1>4, <2>1
  <2>3. /\ excuse' \in [Events -> Nat] /\ excuse'[h] = excuse[h] + 1
        /\ \A e \in Events \ {h} : excuse'[e] = excuse[e]
    BY <1>4, <2>1, ExcusedIs
  <2>4. Account(h)'
    <3>1. /\ Unit(Owes(d, h)) = 1 /\ Unit(Owes(d, h)') = 0
          /\ Unit(Chance(h)) \in {0, 1} /\ Unit(Chance(h)') \in {0, 1}
      BY <1>5 DEF Unit
    <3>2. received[h] \in Nat /\ excuse[h] \in Nat /\ received'[h] \in Nat /\ excuse'[h] \in Nat
      BY <1>4, <2>2, <2>3
    <3>3. received'[h] + Unit(Owes(d, h)') + Unit(Chance(h)') + excuse[h]
            <= received[h] + Unit(Owes(d, h)) + Unit(Chance(h)) + excuse'[h]
      BY <2>2, <2>3, <3>1, <3>2
    <3> QED BY <1>5, <3>2, <3>3, Tally
  <2>5. received'[h] >= received[h] BY <1>4, <2>2
  <2> QED BY <1>1, <1>2, <1>3, <2>2, <2>3, <2>4, <2>5, HeadTold
<1> QED BY <1>6, <1>7 DEF DeliverFails

\* What was accepted is taken for refused, which has its excuse.
LEMMA MarkFailsKeeps == ASSUME OutboxInv, NEW d \in Dispatchers, MarkFails(d) PROVE OutboxInv'
<1>1. PICK h \in Events : h = Head(batch[d]) BY HeadIs DEF MarkFails
<1>2. /\ batch[d] # <<>> /\ outbox' = outbox /\ batch' = batch /\ received' = received
      /\ handling' = [handling EXCEPT ![d] = "failed"] /\ excuse' = Excused({h})
  BY <1>1 DEF MarkFails
<1>3. "failed" \in Handling BY DEF Handling
<1>4. received \in [Events -> Nat] /\ excuse \in [Events -> Nat]
  BY DEF OutboxInv, OutboxType
<1>5. \A c \in Dispatchers \ {d} : Owes(c, h)' <=> Owes(c, h) BY <1>1, <1>2, <1>3, HeadDebt
<1>6. ~Owes(d, h)' BY <1>1, <1>2, <1>3, HeadDebt
<1>7. /\ excuse' \in [Events -> Nat] /\ excuse'[h] = excuse[h] + 1
      /\ \A e \in Events \ {h} : excuse'[e] = excuse[e]
  BY <1>2, <1>4, ExcusedIs
<1>8. excuse'[h] \in Nat /\ received'[h] = received[h] BY <1>2, <1>7
<1>9. Account(h)' BY <1>5, <1>6, <1>7, <1>8, ChanceForDebt
<1>10. received'[h] >= received[h] /\ received' \in [Events -> Nat] BY <1>2, <1>4
<1> QED BY <1>1, <1>2, <1>3, <1>7, <1>9, <1>10, HeadTold

\* What a step that leaves the events and the receipts alone must show of the rows.
LEMMA RowsKept ==
    ASSUME OutboxInv, outbox' \in Seq(Rows), DOMAIN outbox' = DOMAIN outbox,
           \A i \in DOMAIN outbox : outbox'[i].event = outbox[i].event, received' = received,
           \A i \in DOMAIN outbox : RowTells(i)',
           batch' \in [Dispatchers -> Seq(Events)], handling' \in [Dispatchers -> Handling],
           excuse' \in [Events -> Nat],
           NEW d \in Dispatchers,
           \A c \in Dispatchers \ {d} : batch'[c] = batch[c] /\ handling'[c] = handling[c],
           Distinct(batch'[d]), \A e \in Events : Within(batch'[d], e) => Within(batch[d], e),
           \/ handling'[d] = "next"
           \/ handling'[d] = handling[d] /\ batch'[d] = batch[d],
           \A e \in Events : Account(e)'
    PROVE  OutboxInv'
<1>1. OutboxType' BY DEF OutboxInv, OutboxType
<1>2. RowsUnique' BY DEF OutboxInv, RowsUnique
<1>3. \A c \in Dispatchers : BatchTells(c)'
  <2>1. TAKE c \in Dispatchers
  <2>2. BatchTells(c) BY DEF OutboxInv
  <2>3. \A e \in Events : Within(batch'[c], e) => \E i \in DOMAIN outbox' : outbox'[i].event = e
    BY <2>2 DEF BatchTells
  <2>4. Distinct(batch'[c]) BY <2>2 DEF BatchTells
  <2> QED BY <2>2, <2>3, <2>4 DEF BatchTells
<1> QED BY <1>1, <1>2, <1>3 DEF OutboxInv

LEMMA UnleaseIs ==
    ASSUME OutboxInv, NEW d \in Dispatchers, NEW st \in OutboxStatus,
           outbox' = Unlease(d, st)
    PROVE  /\ outbox' \in Seq(Rows) /\ DOMAIN outbox' = DOMAIN outbox
           /\ \A i \in DOMAIN outbox :
                IF outbox[i].event = Head(batch[d]) /\ HeldBy(outbox[i], d)
                THEN /\ outbox'[i].event = outbox[i].event /\ outbox'[i].status = st
                     /\ outbox'[i].holder = NoDispatcher
                ELSE outbox'[i] = outbox[i]
<1>1. /\ outbox \in Seq(Rows) /\ DOMAIN outbox = 1..Len(outbox) /\ Len(outbox) \in Nat
      /\ \A i \in DOMAIN outbox : outbox[i] \in Rows
  BY RowTypes DEF OutboxInv, OutboxType
<1>2. outbox' = [i \in DOMAIN outbox |->
        IF outbox[i].event = Head(batch[d]) /\ HeldBy(outbox[i], d)
        THEN [outbox[i] EXCEPT !.status = st, !.holder = NoDispatcher, !.lapsed = FALSE]
        ELSE outbox[i]]
  BY DEF Unlease
<1>3. ASSUME NEW i \in DOMAIN outbox
      PROVE  /\ outbox'[i] \in Rows
             /\ IF outbox[i].event = Head(batch[d]) /\ HeldBy(outbox[i], d)
                THEN /\ outbox'[i].event = outbox[i].event /\ outbox'[i].status = st
                     /\ outbox'[i].holder = NoDispatcher
                ELSE outbox'[i] = outbox[i]
  <2>1. CASE outbox[i].event = Head(batch[d]) /\ HeldBy(outbox[i], d)
    <3>1. outbox'[i] = [outbox[i] EXCEPT !.status = st, !.holder = NoDispatcher, !.lapsed = FALSE]
      BY <1>2, <2>1
    <3>2. PICK r \in Rows : r = outbox[i] BY <1>1
    <3> QED BY <2>1, <3>1, <3>2 DEF Rows
  <2>2. CASE ~(outbox[i].event = Head(batch[d]) /\ HeldBy(outbox[i], d))
    <3>1. outbox'[i] = outbox[i] BY <1>2, <2>2
    <3> QED BY <1>1, <2>2, <3>1
  <2> QED BY <2>1, <2>2
<1>4. DOMAIN outbox' = DOMAIN outbox BY <1>2
<1>5. outbox' \in [1..Len(outbox) -> Rows]
  <2>1. outbox' = [i \in 1..Len(outbox) |-> outbox'[i]] BY <1>1, <1>2
  <2> QED BY <1>1, <1>3, <2>1
<1>6. outbox' \in Seq(Rows) BY <1>1, <1>5, ListIsSeq
<1> QED BY <1>3, <1>4, <1>6

\* The head of the batch is settled: delivered, or left to be claimed again.
LEMMA SettledKeeps ==
    ASSUME OutboxInv, NEW d \in Dispatchers, batch[d] # <<>>, NEW st \in OutboxStatus,
           outbox' = Unlease(d, st), NextEvent(d), received' = received, excuse' = excuse,
           \/ st = "delivered" /\ handling[d] = "accepted"
           \/ st = "pending" /\ handling[d] = "failed"
    PROVE  OutboxInv'
<1>1. PICK h \in Events : h = Head(batch[d]) /\ Within(batch[d], h) BY HeadIs
<1>2. /\ batch \in [Dispatchers -> Seq(Events)] /\ handling \in [Dispatchers -> Handling]
      /\ received \in [Events -> Nat] /\ excuse \in [Events -> Nat]
  BY DEF OutboxInv, OutboxType
<1>3. /\ Tail(batch[d]) \in Seq(Events) /\ Distinct(Tail(batch[d]))
      /\ \A e \in Events : Within(Tail(batch[d]), e) <=> Within(batch[d], e) /\ e # h
  BY <1>1, HeadIs, WithinTail
<1>4. /\ batch'[d] = Tail(batch[d]) /\ handling'[d] = "next"
      /\ \A c \in Dispatchers \ {d} : batch'[c] = batch[c] /\ handling'[c] = handling[c]
      /\ batch' \in [Dispatchers -> Seq(Events)] /\ handling' \in [Dispatchers -> Handling]
  BY <1>2, <1>3 DEF NextEvent, Handling
<1>5. /\ outbox' \in Seq(Rows) /\ DOMAIN outbox' = DOMAIN outbox
      /\ \A i \in DOMAIN outbox :
           IF outbox[i].event = h /\ HeldBy(outbox[i], d)
           THEN /\ outbox'[i].event = outbox[i].event /\ outbox'[i].status = st
                /\ outbox'[i].holder = NoDispatcher
           ELSE outbox'[i] = outbox[i]
  BY <1>1, UnleaseIs
<1>6. \A i \in DOMAIN outbox : outbox'[i].event = outbox[i].event BY <1>5
<1>7. \A i \in DOMAIN outbox : RowTells(i)'
  <2>1. TAKE i \in DOMAIN outbox
  <2>2. RowTells(i) BY DEF OutboxInv
  <2>3. st = "delivered" => received[h] > 0 BY <1>1 DEF OutboxInv, BatchTells
  <2> QED BY <1>5, <2>2, <2>3 DEF RowTells
<1>8. \A e \in Events : Account(e)'
  <2>1. TAKE e \in Events
  <2>2. \A c \in Dispatchers \ {d} : Owes(c, e)' <=> Owes(c, e) BY <1>4 DEF Owes
  <2>3. Owes(d, e)' => Owes(d, e) BY <1>1, <1>3, <1>4 DEF Owes
  <2>4. \A i \in DOMAIN outbox : outbox[i].event = e => (Open(i)' => Open(i))
    <3> SUFFICES ASSUME NEW i \in DOMAIN outbox, outbox[i].event = e, Open(i)' PROVE Open(i)
      OBVIOUS
    <3>1. outbox[i].holder \in Dispatchers \cup {NoDispatcher} BY RowTypes DEF OutboxInv
    <3>2. CASE outbox[i].event = h /\ HeldBy(outbox[i], d)
      <4>1. outbox'[i].status = st BY <1>5, <3>2
      <4>2. st = "pending" BY <4>1 DEF Open
      <4> QED BY <1>1, <3>2, <4>2 DEF Open, HeldBy
    <3>3. CASE ~(outbox[i].event = h /\ HeldBy(outbox[i], d))
      <4>1. outbox'[i] = outbox[i] BY <1>5, <3>3
      <4>2. outbox[i].status = "pending" BY <4>1 DEF Open
      <4>3. CASE outbox[i].holder = d
        <5>1. e # h BY <3>3, <4>2, <4>3 DEF HeldBy
        <5>2. Within(batch'[d], e) <=> Within(batch[d], e) BY <1>3, <1>4, <5>1
        <5> QED BY <1>4, <4>1, <4>2, <4>3, <5>2 DEF Open
      <4>4. CASE outbox[i].holder # d BY <1>4, <3>1, <4>1, <4>4 DEF Open
      <4> QED BY <4>3, <4>4
    <3> QED BY <3>2, <3>3
  <2>5. Chance(e)' => Chance(e) BY <1>5, <1>6, <2>4, ChanceNext
  <2>6. received'[e] = received[e] /\ excuse'[e] \in Nat /\ excuse'[e] >= excuse[e] BY <1>2
  <2> QED BY <2>2, <2>3, <2>5, <2>6, NothingMore
<1>9. Distinct(batch'[d]) /\ \A e \in Events : Within(batch'[d], e) => Within(batch[d], e)
  BY <1>3, <1>4
<1> QED BY <1>2, <1>4, <1>5, <1>6, <1>7, <1>8, <1>9, RowsKept

LEMMA MarkKeeps == ASSUME OutboxInv, NEW d \in Dispatchers, MarkOutboxDelivered(d) PROVE OutboxInv'
<1>1. /\ batch[d] # <<>> /\ handling[d] = "accepted" /\ outbox' = Unlease(d, "delivered")
      /\ NextEvent(d) /\ received' = received /\ excuse' = excuse
  BY DEF MarkOutboxDelivered, MayMark
<1>2. "delivered" \in OutboxStatus BY DEF OutboxStatus
<1> QED BY <1>1, <1>2, SettledKeeps

LEMMA RetryKeeps == ASSUME OutboxInv, NEW d \in Dispatchers, RecordOutboxRetry(d) PROVE OutboxInv'
<1>1. /\ batch[d] # <<>> /\ handling[d] = "failed" /\ outbox' = Unlease(d, "pending")
      /\ NextEvent(d) /\ received' = received /\ excuse' = excuse
  BY DEF RecordOutboxRetry
<1>2. "pending" \in OutboxStatus BY DEF OutboxStatus
<1> QED BY <1>1, <1>2, SettledKeeps

\* What it still owed is a chance again; what it had delivered waits for its lease.
LEMMA AbandonKeeps == ASSUME OutboxInv, NEW d \in Dispatchers, AbandonBatch(d) PROVE OutboxInv'
<1>1. PICK h \in Events : h = Head(batch[d]) /\ Within(batch[d], h) BY HeadIs DEF AbandonBatch
<1>2. /\ batch \in [Dispatchers -> Seq(Events)] /\ handling \in [Dispatchers -> Handling]
      /\ received \in [Events -> Nat] /\ excuse \in [Events -> Nat] /\ outbox \in Seq(Rows)
  BY DEF OutboxInv, OutboxType
<1>3. outbox' = outbox /\ received' = received /\ excuse' = excuse BY DEF AbandonBatch
<1>4. /\ batch'[d] = <<>> /\ handling'[d] = "next"
      /\ \A c \in Dispatchers \ {d} : batch'[c] = batch[c] /\ handling'[c] = handling[c]
      /\ batch' \in [Dispatchers -> Seq(Events)] /\ handling' \in [Dispatchers -> Handling]
  BY <1>2 DEF AbandonBatch, Handling
<1>5. Distinct(batch'[d]) /\ \A e \in Events : ~Within(batch'[d], e)
  <2>1. \A k : k \notin 1..Len(<<>>) OBVIOUS
  <2> QED BY <1>4, <2>1 DEF Distinct, Within
<1>6. \A i \in DOMAIN outbox : RowTells(i)' BY <1>3 DEF OutboxInv, RowTells
<1>7. \A e \in Events : Account(e)'
  <2>1. TAKE e \in Events
  <2>2. \A c \in Dispatchers \ {d} : Owes(c, e)' <=> Owes(c, e) BY <1>4 DEF Owes
  <2>3. ~Owes(d, e)' BY <1>5 DEF Owes
  <2>4. received'[e] = received[e] /\ excuse'[e] \in Nat /\ excuse'[e] = excuse[e] BY <1>2, <1>3
  <2>5. CASE Owes(d, e) BY <2>2, <2>3, <2>4, <2>5, ChanceForDebt
  <2>6. CASE ~Owes(d, e)
    <3>1. \A i \in DOMAIN outbox : outbox[i].event = e => (Open(i)' => Open(i))
      <4> SUFFICES ASSUME NEW i \in DOMAIN outbox, outbox[i].event = e, Open(i)' PROVE Open(i)
        OBVIOUS
      <4>1. outbox[i].holder \in Dispatchers \cup {NoDispatcher} BY RowTypes DEF OutboxInv
      <4>2. CASE outbox[i].holder # d BY <1>3, <1>4, <4>1, <4>2 DEF Open
      <4>3. CASE outbox[i].holder = d
        <5>1. CASE ~Within(batch[d], e) BY <1>3, <1>4, <1>5, <4>3, <5>1 DEF Open
        <5>2. CASE Within(batch[d], e)
          <6>1. Head(batch[d]) = e /\ handling[d] # "next" BY <2>6, <5>2 DEF Owes
          <6>2. CASE handling[d] = "failed" BY <1>3, <4>3, <5>2, <6>1, <6>2 DEF Open
          <6>3. CASE handling[d] = "accepted"
            <7>1. received[e] > 0 BY <6>1, <6>3 DEF OutboxInv, BatchTells
            <7>2. received'[e] # 0 BY <1>2, <2>4, <7>1
            <7> QED BY <1>3, <1>4, <1>5, <4>3, <7>2 DEF Open
          <6> QED BY <1>2, <6>1, <6>2, <6>3 DEF Handling
        <5> QED BY <5>1, <5>2
      <4> QED BY <4>2, <4>3
    <3>2. Chance(e)' => Chance(e) BY <1>3, <3>1, ChanceNext
    <3>3. excuse'[e] >= excuse[e] BY <1>2, <2>4
    <3> QED BY <2>2, <2>3, <2>4, <3>2, <3>3, NothingMore
  <2> QED BY <2>5, <2>6
<1> QED BY <1>2, <1>3, <1>4, <1>5, <1>6, <1>7, RowsKept

\* A lease that ends brings a chance, and an excuse with it, unless there was one.
LEMMA LeaseEndsKeeps == ASSUME OutboxInv, NEW j \in DOMAIN outbox, LeaseEnds(j) PROVE OutboxInv'
<1>1. PICK d \in Dispatchers : d = outbox[j].holder BY RowTypes DEF OutboxInv, LeaseEnds
<1>2. PICK h \in Events : h = outbox[j].event BY RowTypes DEF OutboxInv
<1>3. /\ batch \in [Dispatchers -> Seq(Events)] /\ handling \in [Dispatchers -> Handling]
      /\ received \in [Events -> Nat] /\ excuse \in [Events -> Nat]
      /\ outbox \in Seq(Rows) /\ outbox[j] \in Rows
  BY RowTypes DEF OutboxInv, OutboxType
<1>4. /\ outbox' = [outbox EXCEPT ![j] = [outbox[j] EXCEPT !.lapsed = TRUE]]
      /\ batch' = batch /\ handling' = handling /\ received' = received
  BY DEF LeaseEnds
<1>5. \/ excuse' = Excused({h})
      \/ excuse' = Excused({}) /\ ~Within(batch[d], h) /\ ~(received[h] > 0)
  <2>1. DOMAIN batch[d] = 1..Len(batch[d]) BY <1>3
  <2> QED BY <1>1, <1>2, <2>1 DEF LeaseEnds, Within
<1>6. /\ outbox' \in Seq(Rows) /\ DOMAIN outbox' = DOMAIN outbox
      /\ \A i \in DOMAIN outbox \ {j} : outbox'[i] = outbox[i]
      /\ outbox'[j].event = h /\ outbox'[j].status = outbox[j].status
      /\ outbox'[j].holder = d /\ outbox'[j].lapsed
  <2>1. PICK r \in Rows : r = [outbox[j] EXCEPT !.lapsed = TRUE] BY <1>3 DEF Rows
  <2>2. r.event = h /\ r.status = outbox[j].status /\ r.holder = d /\ r.lapsed
    BY <1>1, <1>2, <1>3, <2>1 DEF Rows
  <2>3. outbox' = [outbox EXCEPT ![j] = r] BY <1>4, <2>1
  <2> HIDE <2>1
  <2> QED BY <1>3, <2>2, <2>3
<1>7. \A i \in DOMAIN outbox : outbox'[i].event = outbox[i].event BY <1>2, <1>6
<1>8. \A i \in DOMAIN outbox : RowTells(i)'
  <2>1. TAKE i \in DOMAIN outbox
  <2>2. RowTells(i) BY DEF OutboxInv
  <2> QED BY <1>1, <1>2, <1>4, <1>6, <2>2 DEF RowTells
<1>9. outbox[j].status = "pending"
  <2>1. d # NoDispatcher BY OutboxAssumption
  <2>2. outbox[j].status \in {"pending", "delivered"} BY RowTypes DEF OutboxInv
  <2> QED BY <1>1, <2>1, <2>2 DEF OutboxInv, RowTells
<1>10. excuse' \in [Events -> Nat] /\ \A e \in Events \ {h} : excuse'[e] = excuse[e]
  <2>1. Excused({}) \in [Events -> Nat] /\ \A e \in Events : Excused({})[e] = excuse[e]
    BY <1>3 DEF Excused
  <2> QED BY <1>3, <1>5, <2>1, ExcusedIs
<1>11. \A e \in Events : \A c \in Dispatchers : Owes(c, e)' <=> Owes(c, e) BY <1>4 DEF Owes
<1>12. \A e \in Events : Account(e)'
  <2>1. TAKE e \in Events
  <2>2. received'[e] = received[e] /\ received[e] \in Nat /\ excuse'[e] \in Nat /\ excuse[e] \in Nat
    BY <1>3, <1>4, <1>10
  <2>3. CASE e # h
    <3>1. \A i \in DOMAIN outbox : outbox[i].event = e => (Open(i)' => Open(i))
      BY <1>2, <1>4, <1>6, <2>3 DEF Open
    <3>2. Chance(e)' => Chance(e) BY <1>6, <1>7, <3>1, ChanceNext
    <3>3. excuse'[e] >= excuse[e] BY <1>10, <2>2, <2>3
    <3> QED BY <1>11, <2>2, <3>2, <3>3, NothingMore
  <2>4. CASE e = h /\ excuse' = Excused({h})
    <3>1. excuse'[e] = excuse[e] + 1 BY <1>3, <2>4, ExcusedIs
    <3>2. /\ Unit(Owes(d, e)') = Unit(Owes(d, e)) /\ Unit(Owes(d, e)) \in {0, 1}
          /\ Unit(Chance(e)) \in {0, 1} /\ Unit(Chance(e)') \in {0, 1}
      BY <1>11 DEF Unit
    <3>3. received'[e] + Unit(Owes(d, e)') + Unit(Chance(e)') + excuse[e]
            <= received[e] + Unit(Owes(d, e)) + Unit(Chance(e)) + excuse'[e]
      BY <2>2, <3>1, <3>2
    <3> QED BY <1>11, <2>2, <3>3, Tally
  <2>5. CASE e = h /\ excuse' = Excused({}) /\ ~Within(batch[d], h) /\ ~(received[h] > 0)
    <3>1. received[h] = 0 BY <1>3, <2>5
    <3>2. Open(j) BY <1>1, <1>2, <1>9, <2>5, <3>1 DEF Open
    <3>3. Chance(e) BY <1>2, <2>5, <3>2 DEF Chance
    <3>4. excuse'[e] = excuse[e] BY <1>3, <2>5 DEF Excused
    <3>5. excuse'[e] >= excuse[e] BY <2>2, <3>4
    <3> QED BY <1>11, <2>2, <3>3, <3>5, NothingMore
  <2> QED BY <1>5, <2>3, <2>4, <2>5
<1>13. OutboxType' BY <1>3, <1>4, <1>6, <1>10 DEF OutboxType
<1>14. RowsUnique' BY <1>6, <1>7 DEF OutboxInv, RowsUnique
<1>15. \A c \in Dispatchers : BatchTells(c)'
  <2>1. TAKE c \in Dispatchers
  <2>2. BatchTells(c) BY DEF OutboxInv
  <2>3. \A e \in Events : Within(batch[c], e) => \E i \in DOMAIN outbox' : outbox'[i].event = e
    BY <1>6, <1>7, <2>2 DEF BatchTells
  <2> QED BY <1>4, <2>2, <2>3 DEF BatchTells
<1> QED BY <1>6, <1>8, <1>12, <1>13, <1>14, <1>15 DEF OutboxInv

LEMMA OutboxKeeps == OutboxInv /\ [OutboxNext]_outboxVars => OutboxInv'
<1> SUFFICES ASSUME OutboxInv, [OutboxNext]_outboxVars PROVE OutboxInv' OBVIOUS
<1>1. CASE UNCHANGED outboxVars
  <2>1. UNCHANGED <<outbox, batch, handling, received, excuse>> BY <1>1 DEF outboxVars
  <2>2. OutboxType' /\ RowsUnique' BY <2>1 DEF OutboxInv, OutboxType, RowsUnique
  <2>3. \A i \in DOMAIN outbox' : RowTells(i)' BY <2>1 DEF OutboxInv, RowTells
  <2>4. \A d \in Dispatchers : BatchTells(d)' BY <2>1 DEF OutboxInv, BatchTells
  <2>5. \A e \in Events : Account(e)'
    <3>1. TAKE e \in Events
    <3>2. Owing(e)' = Owing(e) BY <2>1 DEF Owing, Owes
    <3>3. Chance(e)' = Chance(e) BY <2>1 DEF Chance, Open
    <3> QED BY <2>1, <3>2, <3>3 DEF OutboxInv, Account, Unit
  <2> QED BY <2>2, <2>3, <2>4, <2>5 DEF OutboxInv
<1>2. CASE OutboxNext
  BY <1>2, AppendKeeps, ClaimKeeps, DeliverKeeps, DeliverFailsKeeps, MarkKeeps, MarkFailsKeeps,
     RetryKeeps, AbandonKeeps, LeaseEndsKeeps DEF OutboxNext, DispatchStep
<1> QED BY <1>1, <1>2

LEMMA OutboxInvTells == OutboxInv => OutboxTypeOK /\ DeliveryIsAccounted
<1> SUFFICES ASSUME OutboxInv PROVE OutboxTypeOK /\ DeliveryIsAccounted OBVIOUS
<1>1. OutboxTypeOK BY RowTypes DEF OutboxInv, OutboxType, OutboxTypeOK, Rows
<1>2. DeliveredWasReceived BY DEF OutboxInv, DeliveredWasReceived, RowTells
<1>3. RepeatsAreExcused
  <2> SUFFICES ASSUME NEW e \in Events PROVE received[e] <= 1 + excuse[e] BY DEF RepeatsAreExcused
  <2>1. Cardinality(Owing(e)) \in Nat /\ Unit(Chance(e)) \in {0, 1} /\ Account(e)
    BY FS_CardinalityType DEF OutboxInv, Account, Unit
  <2>2. received[e] \in Nat /\ excuse[e] \in Nat BY DEF OutboxInv, OutboxType
  <2> QED BY <2>1, <2>2 DEF Account
<1> QED BY <1>1, <1>2, <1>3 DEF DeliveryIsAccounted

\* Whatever the dispatchers of any number of hosts do, and whatever is refused, lost,
\* abandoned or runs out: a row is marked delivered only when the destination took its
\* event, and the destination sees no event more often than the lapsed leases and the
\* lost acceptances of that event explain (dispatch_once, claim_pending_outbox,
\* mark_outbox_delivered, record_outbox_retry).
THEOREM DeliveriesAreAccounted == OutboxSpec => [](OutboxTypeOK /\ DeliveryIsAccounted)
<1>1. OutboxSpec => []OutboxInv BY OutboxInitially, OutboxKeeps, PTL DEF OutboxSpec
<1> QED BY <1>1, OutboxInvTells, PTL

-----------------------------------------------------------------------------
(* Recurring schedules.  The calendar first: a local instant has one date, a *)
(* candidate stays on its day, and readings that are compared tell which     *)
(* instant is earlier.                                                       *)

LEMMA DayOf ==
    ASSUME NEW l \in Nat
    PROVE  Date(l) \in Nat /\ Date(l) * DayLength <= l /\ l < Date(l) * DayLength + DayLength
BY RecurringAssumption, SMT DEF Date

LEMMA DaysApart ==
    ASSUME NEW c \in Nat, NEW d \in Nat, c < d
    PROVE  c * DayLength + DayLength <= d * DayLength /\ c * DayLength \in Nat /\ d * DayLength \in Nat
BY RecurringAssumption, SMT

LEMMA OneDay ==
    ASSUME NEW l \in Nat, NEW d \in Nat, d * DayLength <= l, l < d * DayLength + DayLength
    PROVE  Date(l) = d
<1>1. Date(l) \in Nat /\ Date(l) * DayLength <= l /\ l < Date(l) * DayLength + DayLength BY DayOf
<1>2. ~(Date(l) < d) /\ ~(d < Date(l)) BY <1>1, DaysApart, RecurringAssumption
<1> QED BY <1>1, <1>2

LEMMA DatesOrdered ==
    ASSUME NEW l \in Nat, NEW m \in Nat, l <= m
    PROVE  Date(l) <= Date(m)
<1>1. Date(l) \in Nat /\ Date(l) * DayLength <= l /\ l < Date(l) * DayLength + DayLength BY DayOf
<1>2. Date(m) \in Nat /\ Date(m) * DayLength <= m /\ m < Date(m) * DayLength + DayLength BY DayOf
<1>3. ~(Date(m) < Date(l)) BY <1>1, <1>2, DaysApart, RecurringAssumption
<1> QED BY <1>1, <1>2, <1>3

LEMMA Remainder ==
    ASSUME NEW n \in Nat, NEW k \in Nat \ {0}
    PROVE  \E q \in Nat, r \in 0 .. k - 1 : n = q * k + r /\ n % k = r
<1>1. n % k \in 0 .. k - 1 OBVIOUS
<1>2. n \div k \in Nat OBVIOUS
<1>3. n = (n \div k) * k + (n % k) OBVIOUS
<1> QED BY <1>1, <1>2, <1>3

LEMMA RemainderIs ==
    ASSUME NEW n \in Nat, NEW k \in Nat \ {0}, NEW p \in Nat, NEW w \in 0 .. k - 1, n = p * k + w
    PROVE  n % k = w
<1>1. PICK q \in Nat, r \in 0 .. k - 1 : n = q * k + r /\ n % k = r BY Remainder
<1>2. ~(p < q)
  <2>1. p < q => p * k + k <= q * k OBVIOUS
  <2> QED BY <1>1, <2>1
<1>3. ~(q < p)
  <2>1. q < p => q * k + k <= p * k OBVIOUS
  <2> QED BY <1>1, <2>1
<1>4. p = q BY <1>2, <1>3
<1>5. r = w BY <1>1, <1>4
<1> QED BY <1>1, <1>5

LEMMA WeekdayComes ==
    ASSUME NEW today \in Nat, NEW w \in 0 .. Week - 1
    PROVE  \E d \in (today + 1) .. (today + 7) : d % Week = w
<1>1. Week \in Nat \ {0} /\ Week <= 7 BY RecurringAssumption DEF MaxDaysSearched
<1>2. PICK q \in Nat, r \in 0 .. Week - 1 : today = q * Week + r BY <1>1, Remainder
<1>3. CASE r < w
  <2>1. PICK d \in Nat : d = today + (w - r) BY <1>1, <1>3
  <2>2. d = q * Week + w BY <1>1, <1>2, <2>1
  <2>3. d % Week = w BY <1>1, <2>2, RemainderIs
  <2>4. d \in (today + 1) .. (today + 7) BY <1>1, <1>3, <2>1
  <2> QED BY <2>3, <2>4
<1>4. CASE ~(r < w)
  <2>1. PICK d \in Nat : d = today + (w - r) + Week BY <1>1, <1>4
  <2>2. d = (q + 1) * Week + w BY <1>1, <1>2, <2>1
  <2>3. d % Week = w BY <1>1, <2>2, RemainderIs
  <2>4. d \in (today + 1) .. (today + 7) BY <1>1, <1>4, <2>1
  <2> QED BY <2>3, <2>4
<1> QED BY <1>3, <1>4

LEMMA LeastNatural == ASSUME NEW S \in SUBSET Nat, S # {} PROVE \E m \in S : \A n \in S : m <= n
<1>1. \E R : R = OpToRel(<, Nat) /\ IsWellFoundedOn(R, Nat) BY NatLessThanWellFounded, Zenon
<1>2. PICK R : R = {ss \in Nat \X Nat : ss[1] < ss[2]} /\ IsWellFoundedOn(R, Nat)
  BY <1>1, Zenon DEF OpToRel
<1>3. PICK x \in S : \A y \in S : <<y, x>> \notin R BY <1>2, WFMin
<1>4. \A y \in S : y \in Nat /\ x \in Nat /\ ~(y < x) BY <1>2, <1>3
<1> QED BY <1>4

LEMMA LeastIs ==
    ASSUME NEW S \in SUBSET Nat, NEW m \in S, \A n \in S : m <= n
    PROVE  Min(S) = m
<1>1. Min(S) \in S /\ \A n \in S : Min(S) <= n BY Zenon DEF Min
<1>2. Min(S) <= m /\ m <= Min(S) /\ Min(S) \in Nat /\ m \in Nat BY <1>1
<1> QED BY <1>2

LEMMA ZoneTells ==
    ASSUME zone \in Transitions
    PROVE  /\ zone.at \in Nat /\ zone.shift \in Int /\ zone.at + zone.shift \in Nat
           /\ zone.shift > 0 => Date(zone.at) = Date(zone.at + zone.shift + zone.shift - 1)
BY ZoneAssumption DEF Date

LEMMA FoldIsShort == ASSUME zone \in Transitions PROVE zone.shift > -2 * DayLength
BY ZoneAssumption

LEMMA LocalTimeIs ==
    ASSUME zone \in Transitions, NEW t \in Nat
    PROVE  /\ t < zone.at => LocalTime(t) = t
           /\ zone.at <= t => LocalTime(t) = t + zone.shift
           /\ LocalTime(t) \in Nat
BY ZoneTells DEF LocalTime

LEMMA UtcIs ==
    ASSUME zone \in Transitions, NEW l \in Nat
    PROVE  /\ l < zone.at => Utc(l) = l
           /\ zone.shift > 0 /\ l < zone.at + zone.shift => Utc(l) = l
           /\ zone.at <= l /\ zone.at + zone.shift <= l => Utc(l) = l - zone.shift
           /\ Utc(l) \in Nat
BY ZoneTells DEF Utc

\* A candidate is on its day and is the local reading of its instant.
LEMMA CandidateIs ==
    ASSUME zone \in Transitions, NEW s \in Schedules, NEW d \in Nat
    PROVE  /\ Candidate(s, d) \in Nat /\ Date(Candidate(s, d)) = d
           /\ Utc(Candidate(s, d)) \in Nat /\ LocalTime(Utc(Candidate(s, d))) = Candidate(s, d)
<1>0. /\ zone.at \in Nat /\ zone.shift \in Int /\ zone.at + zone.shift \in Nat
      /\ zone.shift > 0 => Date(zone.at) = Date(zone.at + zone.shift + zone.shift - 1)
  BY ZoneTells
<1>1. TimeOfDay[s] \in 0 .. DayLength - 1 /\ DayLength \in Nat \ {0} BY RecurringAssumption
<1>2. PICK b \in Nat : b = d * DayLength BY <1>1
<1>3. PICK l \in Nat : l = b + TimeOfDay[s] BY <1>1
<1>4. b <= l /\ l < b + DayLength BY <1>1, <1>3
<1>5. Date(l) = d BY <1>2, <1>4, OneDay
<1>6. Candidate(s, d) = LocalTime(Utc(l)) BY <1>2, <1>3 DEF Candidate
<1>7. CASE l < zone.at
  <2>1. Utc(l) = l BY <1>7, UtcIs
  <2>2. LocalTime(l) = l BY <1>7, LocalTimeIs
  <2> QED BY <1>5, <1>6, <2>1, <2>2
<1>8. CASE zone.at <= l /\ zone.shift > 0 /\ l < zone.at + zone.shift
  <2>1. Utc(l) = l BY <1>8, UtcIs
  <2>2. LocalTime(l) = l + zone.shift BY <1>8, LocalTimeIs
  <2>3. PICK c \in Nat : c = l + zone.shift BY <1>0, <1>8
  <2>4. PICK z \in Nat : z = zone.at + zone.shift + zone.shift - 1 BY <1>0, <1>8
  <2>5. l <= c /\ c <= z /\ zone.at <= l BY <1>0, <1>8, <2>3, <2>4
  <2>6. Date(zone.at) <= Date(l) /\ Date(l) <= Date(c) /\ Date(c) <= Date(z)
    BY <1>0, <2>5, DatesOrdered
  <2>7. Date(z) = Date(zone.at) BY <1>0, <1>8, <2>4
  <2>8. Date(zone.at) \in Nat /\ Date(l) \in Nat /\ Date(c) \in Nat /\ Date(z) \in Nat BY <1>0, DayOf
  <2>9. Date(c) = d BY <1>5, <2>6, <2>7, <2>8
  <2>10. zone.at <= c /\ zone.at + zone.shift <= c /\ c - zone.shift = l BY <1>0, <1>8, <2>3
  <2>11. Utc(c) = l BY <2>10, UtcIs
  <2> QED BY <1>6, <2>1, <2>2, <2>3, <2>9, <2>11
<1>9. CASE zone.at <= l /\ zone.at + zone.shift <= l
  <2>1. Utc(l) = l - zone.shift /\ Utc(l) \in Nat BY <1>9, UtcIs
  <2>2. PICK u \in Nat : u = Utc(l) BY <2>1
  <2>3. zone.at <= u /\ u + zone.shift = l BY <1>0, <1>9, <2>1, <2>2
  <2>4. LocalTime(u) = l BY <2>3, LocalTimeIs
  <2> QED BY <1>5, <1>6, <2>1, <2>2, <2>4
<1> QED BY <1>0, <1>7, <1>8, <1>9

\* Where readings are compared, so are instants, but for the second pass.
LEMMA ReadingsTell ==
    ASSUME zone \in Transitions, NEW t \in Nat, NEW u \in Nat
    PROVE  /\ LocalTime(t) < LocalTime(u) /\ Utc(LocalTime(u)) = u => t < u \/ SecondPass(t)
           /\ t < u /\ Utc(LocalTime(u)) = u => LocalTime(t) < LocalTime(u)
<1>0. zone.at \in Nat /\ zone.shift \in Int BY ZoneTells
<1>1. /\ t < zone.at => LocalTime(t) = t
      /\ zone.at <= t => LocalTime(t) = t + zone.shift
      /\ u < zone.at => LocalTime(u) = u
      /\ zone.at <= u => LocalTime(u) = u + zone.shift
      /\ LocalTime(t) \in Nat /\ LocalTime(u) \in Nat
  BY LocalTimeIs
<1>2. LocalTime(u) < zone.at => Utc(LocalTime(u)) = LocalTime(u) BY <1>1, UtcIs
<1> QED BY <1>0, <1>1, <1>2 DEF SecondPass

LEMMA FirstPass ==
    ASSUME zone \in Transitions, NEW u \in Nat, Utc(LocalTime(u)) = u
    PROVE  ~SecondPass(u)
<1>0. zone.at \in Nat /\ zone.shift \in Int BY ZoneTells
<1>1. zone.at <= u => LocalTime(u) = u + zone.shift /\ LocalTime(u) \in Nat BY LocalTimeIs
<1>2. LocalTime(u) \in Nat /\ LocalTime(u) < zone.at => Utc(LocalTime(u)) = LocalTime(u) BY UtcIs
<1> QED BY <1>0, <1>1, <1>2 DEF SecondPass

LEMMA NextOccurrenceIs ==
    ASSUME zone \in Transitions, NEW s \in Schedules, NEW t \in Nat
    PROVE  \E d \in Nat :
             /\ OnWeekday(s, d) /\ NextOccurrence(s, t) = Utc(Candidate(s, d))
             /\ Candidate(s, d) > LocalTime(t)
             /\ d <= Date(LocalTime(t)) + 7
             /\ \A e \in Nat : /\ Date(LocalTime(t)) <= e /\ e <= Date(LocalTime(t)) + 7
                               /\ OnWeekday(s, e) /\ Candidate(s, e) > LocalTime(t)
                               => d <= e
<1>1. PICK now \in Nat : now = LocalTime(t) BY LocalTimeIs
<1>2. PICK today \in Nat : today = Date(now) BY DayOf
<1>3. PICK hits : hits = {d \in today .. today + MaxDaysSearched - 1 :
                            OnWeekday(s, d) /\ After(Candidate(s, d), t)} OBVIOUS
<1>4. NextOccurrence(s, t) = Utc(Candidate(s, Min(hits))) BY <1>1, <1>2, <1>3 DEF NextOccurrence
<1>5. \A d : d \in hits <=> /\ d \in Nat /\ today <= d /\ d <= today + 7
                            /\ OnWeekday(s, d) /\ Candidate(s, d) > now
  BY <1>1, <1>3 DEF MaxDaysSearched, After
<1>6. hits # {}
  <2>1. PICK w \in 0 .. Week - 1 : w \in Weekdays[s] BY RecurringAssumption
  <2>2. PICK d \in (today + 1) .. (today + 7) : d % Week = w BY WeekdayComes
  <2>3. OnWeekday(s, d) BY <2>1, <2>2 DEF OnWeekday
  <2>4. d \in Nat /\ today < d /\ d <= today + 7 OBVIOUS
  <2>5. PICK c \in Nat : c = Candidate(s, d) /\ Date(c) = d BY <2>4, CandidateIs
  <2>6. ~(c <= now)
    <3>1. c <= now => Date(c) <= Date(now) BY DatesOrdered
    <3> QED BY <1>2, <2>4, <2>5, <3>1
  <2>7. d \in hits BY <1>5, <2>3, <2>4, <2>5, <2>6
  <2> QED BY <2>7
<1>7. hits \in SUBSET Nat BY <1>5
<1>8. PICK d \in hits : \A e \in hits : d <= e BY <1>6, <1>7, LeastNatural
<1>9. Min(hits) = d BY <1>7, <1>8, LeastIs
<1> QED BY <1>1, <1>2, <1>4, <1>5, <1>8, <1>9

LEMMA HorizonIsFar ==
    ASSUME zone \in Transitions, NEW t \in 0 .. MaxTime
    PROVE  Horizon \in Nat /\ Date(LocalTime(t)) + 7 <= Date(Horizon)
<1>0. MaxTime \in Nat /\ DayLength \in Nat \ {0} /\ t \in Nat /\ t <= MaxTime BY RecurringAssumption
<1>1. zone.at \in Nat /\ zone.shift \in Int /\ zone.at + zone.shift \in Nat BY ZoneTells
<1>2. zone.shift <= DayLength
  <2>1. CASE zone.shift > 0
    <3>1. PICK z \in Nat : z = zone.at + zone.shift + zone.shift - 1 BY <1>1, <2>1
    <3>2. PICK a \in Nat : a = Date(zone.at) /\ a * DayLength <= zone.at BY <1>1, DayOf
    <3>3. Date(z) = a BY <2>1, <3>1, <3>2, ZoneTells
    <3>4. z < a * DayLength + DayLength BY <3>3, DayOf
    <3>5. PICK b \in Nat : b = a * DayLength BY <1>0
    <3> QED BY <1>0, <1>1, <2>1, <3>1, <3>2, <3>4, <3>5
  <2> QED BY <1>0, <1>1, <2>1
<1>3. PICK now \in Nat : now = LocalTime(t) /\ now <= MaxTime + DayLength
  BY <1>0, <1>1, <1>2, LocalTimeIs
<1>4. PICK today \in Nat : today = Date(now) /\ today * DayLength <= now BY DayOf
<1>5. Horizon = MaxTime + 10 * DayLength /\ Horizon \in Nat BY <1>0 DEF Horizon, MaxDaysSearched
<1>6. (today + 7) * DayLength = today * DayLength + 7 * DayLength BY <1>0
<1>7. PICK l \in Nat : l = (today + 7) * DayLength BY <1>0
<1>8. l <= Horizon BY <1>0, <1>3, <1>4, <1>5, <1>6, <1>7
<1>9. today + 7 \in Nat /\ l < (today + 7) * DayLength + DayLength BY <1>0, <1>7
<1>10. Date(l) = today + 7 BY <1>7, <1>9, OneDay
<1> QED BY <1>3, <1>4, <1>5, <1>8, <1>10, DatesOrdered

LEMMA NextIsFirstHolds == ASSUME zone \in Transitions, clock \in 0 .. MaxTime PROVE NextIsFirst
<1> SUFFICES ASSUME NEW s \in Schedules, ~SecondPass(clock)
             PROVE  NextOccurrence(s, clock) =
                        Min({u \in {Utc(Candidate(s, d)) : d \in {x \in 0 .. Date(Horizon) : OnWeekday(s, x)}} :
                                u > clock})
  BY DEF NextIsFirst
<1>0. clock \in Nat BY RecurringAssumption
<1>1. PICK S : S = {u \in {Utc(Candidate(s, d)) : d \in {x \in 0 .. Date(Horizon) : OnWeekday(s, x)}} :
                        u > clock} OBVIOUS
<1>2. PICK now \in Nat : now = LocalTime(clock) BY <1>0, LocalTimeIs
<1>3. PICK today \in Nat : today = Date(now) BY DayOf
<1>4. PICK d \in Nat :
             /\ OnWeekday(s, d) /\ NextOccurrence(s, clock) = Utc(Candidate(s, d))
             /\ Candidate(s, d) > now /\ d <= today + 7
             /\ \A e \in Nat : today <= e /\ e <= today + 7 /\ OnWeekday(s, e) /\ Candidate(s, e) > now
                               => d <= e
  BY <1>0, <1>2, <1>3, NextOccurrenceIs
<1>5. Horizon \in Nat /\ today + 7 <= Date(Horizon) /\ Date(Horizon) \in Nat
  BY <1>2, <1>3, HorizonIsFar, DayOf
<1>6. PICK c \in Nat, m \in Nat : /\ c = Candidate(s, d) /\ Date(c) = d
                                  /\ m = Utc(c) /\ LocalTime(m) = c
  BY CandidateIs
<1>7. m \in S
  <2>1. m > clock BY <1>0, <1>2, <1>4, <1>6, ReadingsTell
  <2>2. d \in 0 .. Date(Horizon) BY <1>4, <1>5
  <2> QED BY <1>1, <1>4, <1>6, <2>1, <2>2
<1>8. ASSUME NEW n \in S PROVE n \in Nat /\ m <= n
  <2>1. PICK e \in Nat : OnWeekday(s, e) /\ n = Utc(Candidate(s, e)) /\ n > clock BY <1>1, <1>5
  <2>2. PICK b \in Nat, k \in Nat : /\ b = Candidate(s, e) /\ Date(b) = e
                                    /\ k = Utc(b) /\ LocalTime(k) = b
    BY CandidateIs
  <2>3. now < b BY <1>0, <1>2, <2>1, <2>2, ReadingsTell
  <2>4. today <= e BY <1>3, <2>2, <2>3, DatesOrdered
  <2>5. d <= e BY <1>4, <2>1, <2>2, <2>3, <2>4
  <2>6. CASE d = e BY <1>6, <2>1, <2>2, <2>6
  <2>7. CASE d # e
    <3>1. c < b
      <4>1. b <= c => e <= d BY <1>6, <2>2, DatesOrdered
      <4> QED BY <2>5, <2>7, <4>1
    <3>2. m < k \/ SecondPass(m) BY <1>6, <2>2, <3>1, ReadingsTell
    <3>3. ~SecondPass(m) BY <1>6, FirstPass
    <3> QED BY <2>1, <2>2, <3>2, <3>3
  <2> QED BY <2>6, <2>7
<1>9. Min(S) = m
  <2>1. S \in SUBSET Nat /\ \A n \in S : m <= n BY <1>8
  <2> QED BY <1>7, <2>1, LeastIs
<1> QED BY <1>1, <1>4, <1>6, <1>9

\* The instants at which a rule fires.
Instants(s) == {o \in Nat : \E d \in Nat : OnWeekday(s, d) /\ o = Utc(Candidate(s, d))}

ScheduleRows  == [status : {"none", "active", "cancelled"}, next : Nat]
SweepEntries  == [id : Schedules, due : Nat]
SweepPlaces   == {"rest", "visit", "reconcile", "validate", "claim", "send", "settle", "advance"}
PlanStates    == {"none", "executing", "unknown", "settled"}

RecurringType ==
    /\ zone \in Transitions /\ clock \in 0 .. MaxTime
    /\ row \in [Schedules -> ScheduleRows]
    /\ evidence \in [Schedules -> [0 .. MaxTime -> PlanStates]]
    /\ fired \in [Schedules -> [0 .. MaxTime -> Seq(Nat)]]
    /\ sweep \in [pc : SweepPlaces, at : Nat, todo : Seq(SweepEntries)]

RowsOK == \A s \in Schedules : Active(s) => row[s].next \in Instants(s)

\* What was dispatched was due, once, and is on record.
FiredOK ==
    \A s \in Schedules : \A o \in 0 .. MaxTime : fired[s][o] # << >> =>
        /\ Len(fired[s][o]) = 1 /\ fired[s][o][1] >= o
        /\ o \in Instants(s) /\ evidence[s][o] # "none"

\* What the sweep knows of the entry it handles.
EntryTells ==
    /\ Entry.due <= sweep.at
    /\ sweep.pc \in {"validate", "claim"} => StoredPlan(Entry) = "none"
    /\ sweep.pc = "send" => StoredPlan(Entry) # "none" /\ fired[Entry.id][Entry.due] = << >>

SweepOK ==
    /\ sweep.at <= clock
    /\ \A i \in DOMAIN sweep.todo : sweep.todo[i].due \in Instants(sweep.todo[i].id)
    /\ sweep.pc # "rest" => sweep.todo # << >>
    /\ sweep.pc \notin {"rest", "visit"} => EntryTells

RecurringInv == RecurringType /\ RowsOK /\ FiredOK /\ SweepOK

LEMMA NextIsInstant ==
    ASSUME zone \in Transitions, NEW s \in Schedules, NEW t \in Nat
    PROVE  NextOccurrence(s, t) \in Nat /\ NextOccurrence(s, t) \in Instants(s)
<1>1. PICK d \in Nat : OnWeekday(s, d) /\ NextOccurrence(s, t) = Utc(Candidate(s, d)) BY NextOccurrenceIs
<1>2. Utc(Candidate(s, d)) \in Nat BY CandidateIs
<1> QED BY <1>1, <1>2 DEF Instants

LEMMA InstantsStay == zone' = zone => \A s : Instants(s)' = Instants(s)
BY DEF Instants, Candidate, Utc, LocalTime, OnWeekday

LEMMA RestingSweep == Resting \in [pc : SweepPlaces, at : Nat, todo : Seq(SweepEntries)]
BY DEF Resting, SweepPlaces

LEMMA RecurringInitially == RecurringInit => RecurringInv
<1> SUFFICES ASSUME RecurringInit PROVE RecurringInv OBVIOUS
<1>0. MaxTime \in Nat /\ StartTime \in 0 .. MaxTime BY RecurringAssumption
<1>1. sweep \in [pc : SweepPlaces, at : Nat, todo : Seq(SweepEntries)] BY RestingSweep DEF RecurringInit
<1>2. row \in [Schedules -> ScheduleRows] BY DEF RecurringInit, ScheduleRows
<1>3. evidence \in [Schedules -> [0 .. MaxTime -> PlanStates]] BY DEF RecurringInit, PlanStates
<1>4. fired \in [Schedules -> [0 .. MaxTime -> Seq(Nat)]] BY DEF RecurringInit
<1>5. RecurringType BY <1>0, <1>1, <1>2, <1>3, <1>4 DEF RecurringInit, RecurringType
<1>6. RowsOK BY DEF RecurringInit, RowsOK, Active
<1>7. FiredOK BY DEF RecurringInit, FiredOK
<1>8. sweep.pc = "rest" /\ sweep.at = 0 /\ sweep.todo = << >> BY DEF RecurringInit, Resting
<1>9. SweepOK BY <1>0, <1>8 DEF RecurringInit, SweepOK
<1> QED BY <1>5, <1>6, <1>7, <1>9 DEF RecurringInv

\* The entry in hand.
LEMMA EntryIs ==
    ASSUME RecurringInv, sweep.pc # "rest"
    PROVE  /\ Entry \in SweepEntries /\ Entry.id \in Schedules /\ Entry.due \in Nat
           /\ Entry.due \in Instants(Entry.id) /\ sweep.todo \in Seq(SweepEntries)
           /\ sweep.todo # << >> /\ sweep.at \in Nat /\ sweep.at <= clock
           /\ sweep.pc # "visit" => Entry.due \in 0 .. MaxTime
<1>1. sweep.todo \in Seq(SweepEntries) /\ sweep.todo # << >> /\ sweep.at \in Nat /\ sweep.at <= clock
  BY DEF RecurringInv, RecurringType, SweepOK
<1>2. Entry = sweep.todo[1] /\ 1 \in DOMAIN sweep.todo BY <1>1 DEF Entry
<1>3. Entry \in SweepEntries BY <1>1, <1>2
<1>4. Entry.id \in Schedules /\ Entry.due \in Nat BY <1>3 DEF SweepEntries
<1>5. Entry.due \in Instants(Entry.id) BY <1>2 DEF RecurringInv, SweepOK
<1>6. ASSUME sweep.pc # "visit" PROVE Entry.due \in 0 .. MaxTime
  <2>1. Entry.due <= sweep.at BY <1>6 DEF RecurringInv, SweepOK, EntryTells
  <2>2. clock \in 0 .. MaxTime BY DEF RecurringInv, RecurringType
  <2>3. MaxTime \in Nat BY RecurringAssumption
  <2> QED BY <1>1, <1>4, <2>1, <2>2, <2>3
<1> QED BY <1>1, <1>3, <1>4, <1>5, <1>6

LEMMA NextEntryStays ==
    ASSUME RecurringInv, sweep.pc # "rest", NextEntry, zone' = zone, clock' = clock
    PROVE  sweep' \in [pc : SweepPlaces, at : Nat, todo : Seq(SweepEntries)] /\ SweepOK'
<1>1. /\ sweep.todo \in Seq(SweepEntries) /\ sweep.todo # << >> /\ sweep.at \in Nat /\ sweep.at <= clock
  BY EntryIs
<1>2. clock \in Nat BY RecurringAssumption DEF RecurringInv, RecurringType
<1>3. CASE Len(sweep.todo) = 1
  <2>1. sweep' = Resting BY <1>3 DEF NextEntry
  <2>2. sweep'.pc = "rest" /\ sweep'.at = 0 /\ sweep'.todo = << >> BY <2>1 DEF Resting
  <2>3. SweepOK' BY <1>2, <2>2 DEF SweepOK
  <2> QED BY <2>1, <2>3, RestingSweep
<1>4. CASE Len(sweep.todo) # 1
  <2>1. PICK rest : rest = Tail(sweep.todo) OBVIOUS
  <2>2. /\ rest \in Seq(SweepEntries) /\ rest # << >>
        /\ \A i \in DOMAIN rest : i + 1 \in DOMAIN sweep.todo /\ rest[i] = sweep.todo[i + 1]
    <3>1. PICK n \in Nat : n = Len(sweep.todo) /\ DOMAIN sweep.todo = 1 .. n BY <1>1
    <3>2. n # 0 BY <1>1, <3>1
    <3>3. rest \in Seq(SweepEntries) /\ Len(rest) = n - 1 BY <1>1, <2>1, <3>1
    <3>4. DOMAIN rest = 1 .. (n - 1) BY <3>3
    <3>5. \A i \in 1 .. (n - 1) : rest[i] = sweep.todo[i + 1] BY <1>1, <2>1, <3>1
    <3>6. Len(rest) # 0 BY <1>4, <3>1, <3>2, <3>3
    <3>7. rest # << >> BY <3>6
    <3>8. \A i \in 1 .. (n - 1) : i + 1 \in 1 .. n BY <3>1
    <3> QED BY <3>1, <3>3, <3>4, <3>5, <3>7, <3>8
  <2>3. sweep' = [sweep EXCEPT !.pc = "visit", !.todo = rest] BY <1>4, <2>1 DEF NextEntry
  <2>4. sweep \in [pc : SweepPlaces, at : Nat, todo : Seq(SweepEntries)]
    BY DEF RecurringInv, RecurringType
  <2>5. PICK p \in SweepPlaces : p = "visit" BY DEF SweepPlaces
  <2>6. sweep' \in [pc : SweepPlaces, at : Nat, todo : Seq(SweepEntries)]
        /\ sweep'.pc = p /\ sweep'.at = sweep.at /\ sweep'.todo = rest
    BY <2>2, <2>3, <2>4, <2>5
  <2>7. \A i \in DOMAIN rest : rest[i].due \in Instants(rest[i].id)
    BY <2>2 DEF RecurringInv, SweepOK
  <2>8. \A i \in DOMAIN rest : rest[i].due \in Instants(rest[i].id)' BY <2>7, InstantsStay
  <2>9. SweepOK' BY <1>1, <2>2, <2>5, <2>6, <2>8 DEF SweepOK
  <2> QED BY <2>6, <2>9
<1> QED BY <1>3, <1>4

\* The sweep stays with its entry.
LEMMA VisitStays ==
    ASSUME RecurringInv, sweep.pc # "rest", NEW p \in SweepPlaces \ {"rest", "visit"}, VisitAt(p),
           zone' = zone, clock' = clock, Entry.due <= sweep.at,
           p \in {"validate", "claim"} => evidence'[Entry.id][Entry.due] = "none",
           p = "send" => evidence'[Entry.id][Entry.due] # "none" /\ fired'[Entry.id][Entry.due] = << >>
    PROVE  sweep' \in [pc : SweepPlaces, at : Nat, todo : Seq(SweepEntries)] /\ SweepOK'
<1>1. /\ sweep.todo \in Seq(SweepEntries) /\ sweep.todo # << >> /\ sweep.at \in Nat /\ sweep.at <= clock
  BY EntryIs
<1>2. sweep \in [pc : SweepPlaces, at : Nat, todo : Seq(SweepEntries)] BY DEF RecurringInv, RecurringType
<1>3. sweep' \in [pc : SweepPlaces, at : Nat, todo : Seq(SweepEntries)]
      /\ sweep'.pc = p /\ sweep'.at = sweep.at /\ sweep'.todo = sweep.todo
  BY <1>2 DEF VisitAt
<1>0. PICK l : l = sweep.todo OBVIOUS
<1>4. \A i \in DOMAIN l : l[i].due \in Instants(l[i].id)'
  BY <1>0, InstantsStay DEF RecurringInv, SweepOK
<1>5. PICK e : e = Entry /\ Head(sweep.todo) = e BY DEF Entry
<1>6. Entry' = e BY <1>3, <1>5 DEF Entry
<1>7. EntryTells' BY <1>3, <1>5, <1>6 DEF EntryTells, StoredPlan
<1> QED BY <1>0, <1>1, <1>3, <1>4, <1>7 DEF SweepOK

LEMMA RowsStay == ASSUME RecurringInv, zone' = zone, row' = row PROVE row' \in [Schedules -> ScheduleRows] /\ RowsOK'
BY InstantsStay DEF RecurringInv, RecurringType, RowsOK, Active

LEMMA FiredStays ==
    ASSUME RecurringInv, zone' = zone, fired' = fired,
           \A s \in Schedules : \A o \in 0 .. MaxTime : evidence[s][o] # "none" => evidence'[s][o] # "none"
    PROVE  FiredOK'
BY InstantsStay DEF RecurringInv, FiredOK

\* What is stored is never forgotten.
LEMMA StoreStays ==
    ASSUME RecurringInv, sweep.pc \notin {"rest", "visit"}, NEW st \in PlanStates \ {"none"}, Store(Entry, st)
    PROVE  /\ evidence' \in [Schedules -> [0 .. MaxTime -> PlanStates]]
           /\ \A s \in Schedules : \A o \in 0 .. MaxTime : evidence[s][o] # "none" => evidence'[s][o] # "none"
           /\ evidence'[Entry.id][Entry.due] = st
<1>1. PICK i \in Schedules, o \in 0 .. MaxTime : i = Entry.id /\ o = Entry.due BY EntryIs
<1>2. evidence \in [Schedules -> [0 .. MaxTime -> PlanStates]] BY DEF RecurringInv, RecurringType
<1>3. PICK f : f = [evidence[i] EXCEPT ![o] = st] OBVIOUS
<1>4. f \in [0 .. MaxTime -> PlanStates] /\ f[o] = st /\ \A q \in 0 .. MaxTime : q # o => f[q] = evidence[i][q]
  BY <1>2, <1>3
<1>5. evidence' = [evidence EXCEPT ![i] = f] BY <1>1, <1>3 DEF Store
<1>6. evidence' \in [Schedules -> [0 .. MaxTime -> PlanStates]] BY <1>2, <1>4, <1>5
<1>7. \A s \in Schedules : evidence'[s] = IF s = i THEN f ELSE evidence[s] BY <1>2, <1>5
<1>8. ASSUME NEW s \in Schedules, NEW q \in 0 .. MaxTime, evidence[s][q] # "none" PROVE evidence'[s][q] # "none"
  BY <1>4, <1>7, <1>8
<1> QED BY <1>1, <1>4, <1>6, <1>7, <1>8

LEMMA RowPut ==
    ASSUME RecurringInv, zone' = zone, NEW s \in Schedules, NEW r \in ScheduleRows,
           r.status = "active" => r.next \in Instants(s), row' = [row EXCEPT ![s] = r]
    PROVE  row' \in [Schedules -> ScheduleRows] /\ RowsOK'
<1>1. row \in [Schedules -> ScheduleRows] BY DEF RecurringInv, RecurringType
<1>2. \A q \in Schedules : row'[q] = IF q = s THEN r ELSE row[q] BY <1>1
<1>3. row' \in [Schedules -> ScheduleRows] BY <1>1
<1>4. \A q \in Schedules : row'[q].status = "active" => row'[q].next \in Instants(q)
  BY <1>2 DEF RecurringInv, RowsOK, Active
<1> QED BY <1>3, <1>4, InstantsStay DEF RowsOK, Active

LEMMA CancelStays ==
    ASSUME RecurringInv, zone' = zone, NEW s \in Schedules, Cancel(s)
    PROVE  row' \in [Schedules -> ScheduleRows] /\ RowsOK'
<1>1. row[s] \in ScheduleRows BY DEF RecurringInv, RecurringType
<1>2. PICK r : r = [row[s] EXCEPT !.status = "cancelled"] OBVIOUS
<1>3. r \in ScheduleRows /\ r.status = "cancelled" BY <1>1, <1>2 DEF ScheduleRows
<1>4. row' = row \/ row' = [row EXCEPT ![s] = r] BY <1>2 DEF Cancel
<1> QED BY <1>3, <1>4, RowPut, RowsStay

LEMMA AdvanceStays ==
    ASSUME RecurringInv, zone' = zone, NEW s \in Schedules, Advance(s)
    PROVE  row' \in [Schedules -> ScheduleRows] /\ RowsOK'
<1>1. row[s] \in ScheduleRows /\ sweep.at \in Nat /\ zone \in Transitions BY DEF RecurringInv, RecurringType
<1>2. PICK n \in Nat : n = NextOccurrence(s, sweep.at) /\ n \in Instants(s) BY <1>1, NextIsInstant
<1>3. PICK r : r = [row[s] EXCEPT !.next = n] OBVIOUS
<1>4. r \in ScheduleRows /\ r.next = n BY <1>1, <1>2, <1>3 DEF ScheduleRows
<1>5. row' = row \/ row' = [row EXCEPT ![s] = r] BY <1>2, <1>3 DEF Advance
<1>6. r.next \in Instants(s) BY <1>2, <1>4
<1>7. CASE row' = row BY <1>7, RowsStay
<1>8. CASE row' = [row EXCEPT ![s] = r] BY <1>4, <1>6, <1>8, RowPut
<1> QED BY <1>5, <1>7, <1>8

\* A sweep that is left alone.
LEMMA SweepStays ==
    ASSUME RecurringInv, zone' = zone, clock' \in 0 .. MaxTime, clock <= clock',
           sweep' = sweep, fired' = fired,
           \A s \in Schedules : \A o \in 0 .. MaxTime : (evidence'[s][o] = "none") <=> (evidence[s][o] = "none")
    PROVE  sweep' \in [pc : SweepPlaces, at : Nat, todo : Seq(SweepEntries)] /\ SweepOK'
<1>0. PICK w : w = sweep OBVIOUS
<1>1. w \in [pc : SweepPlaces, at : Nat, todo : Seq(SweepEntries)] /\ w.at <= clock /\ clock \in 0 .. MaxTime
  BY <1>0 DEF RecurringInv, RecurringType, SweepOK
<1>2. w.at <= clock' BY <1>1, RecurringAssumption
<1>3. \A i \in DOMAIN w.todo : w.todo[i].due \in Instants(w.todo[i].id)'
  BY <1>0, InstantsStay DEF RecurringInv, SweepOK
<1>4. w.pc # "rest" => w.todo # << >> BY <1>0 DEF RecurringInv, SweepOK
<1>5. ASSUME w.pc \notin {"rest", "visit"} PROVE EntryTells'
  <2>1. PICK e : e = Entry /\ e = Head(w.todo) /\ e.id \in Schedules /\ e.due \in 0 .. MaxTime
    BY <1>0, <1>5, EntryIs DEF Entry
  <2>2. Entry' = e BY <1>0, <2>1 DEF Entry
  <2>3. EntryTells BY <1>0, <1>5 DEF RecurringInv, SweepOK
  <2> QED BY <1>0, <2>1, <2>2, <2>3 DEF EntryTells, StoredPlan
<1> QED BY <1>0, <1>1, <1>2, <1>3, <1>4, <1>5 DEF SweepOK

LEMMA ToolsStay == ASSUME RecurringInv, NEW s \in Schedules, ScheduleRecurring(s) \/ CancelRecurring(s) PROVE RecurringInv'
<1>1. UNCHANGED <<zone, clock, evidence, fired, sweep>> BY DEF ScheduleRecurring, CancelRecurring
<1>2. zone \in Transitions /\ clock \in 0 .. MaxTime /\ clock \in Nat
  BY RecurringAssumption DEF RecurringInv, RecurringType
<1>3. row' \in [Schedules -> ScheduleRows] /\ RowsOK'
  <2>1. CASE CancelRecurring(s) BY <1>1, <2>1, CancelStays DEF CancelRecurring
  <2>2. CASE ScheduleRecurring(s)
    <3>1. PICK n \in Nat : n = NextOccurrence(s, clock) /\ n \in Instants(s) BY <1>2, NextIsInstant
    <3>2. PICK r : r = [status |-> "active", next |-> n] OBVIOUS
    <3>3. r \in ScheduleRows /\ r.next = n BY <3>1, <3>2 DEF ScheduleRows
    <3>4. row' = [row EXCEPT ![s] = r] BY <2>2, <3>1, <3>2 DEF ScheduleRecurring
    <3>5. r.next \in Instants(s) BY <3>1, <3>3
    <3> QED BY <1>1, <3>3, <3>4, <3>5, RowPut
  <2> QED BY <2>1, <2>2
<1>4. sweep' \in [pc : SweepPlaces, at : Nat, todo : Seq(SweepEntries)] /\ SweepOK'
  <2>1. clock' \in 0 .. MaxTime /\ clock <= clock' BY <1>1, <1>2
  <2> QED BY <1>1, <2>1, SweepStays
<1>5. FiredOK' BY <1>1, FiredStays
<1> QED BY <1>1, <1>3, <1>4, <1>5 DEF RecurringInv, RecurringType

LEMMA BeginSweepStays == ASSUME RecurringInv, BeginSweep PROVE RecurringInv'
<1>1. UNCHANGED <<zone, clock, row, evidence, fired>> BY DEF BeginSweep
<1>2. clock \in Nat BY RecurringAssumption DEF RecurringInv, RecurringType
<1>3. PICK A : A = {x \in Schedules : Active(x)} OBVIOUS
<1>4. PICK found : found = {[id |-> s, due |-> row[s].next] : s \in A} OBVIOUS
<1>5. PICK l \in [1 .. Cardinality(found) -> found] :
        sweep' = IF l = << >> THEN Resting ELSE [pc |-> "visit", at |-> clock, todo |-> l]
  BY <1>3, <1>4 DEF BeginSweep, ListsActive
<1>6. IsFiniteSet(found)
  <2>1. IsFiniteSet(A) BY <1>3, FS_Subset, RecurringAssumption
  <2>2. PICK f : f = [s \in A |-> [id |-> s, due |-> row[s].next]] OBVIOUS
  <2>3. \A s \in A : f[s] = [id |-> s, due |-> row[s].next] BY <2>2
  <2>4. found = {f[s] : s \in A} BY <1>4, <2>3, Zenon
  <2>5. DOMAIN f = A BY <2>2
  <2>6. f \in [A -> found] BY <2>2, <1>4
  <2>7. f \in Surjection(A, found) BY <2>4, <2>6 DEF Surjection
  <2> QED BY <2>1, <2>7, FS_Surjection
<1>7. PICK n \in Nat : n = Cardinality(found) BY <1>6, FS_CardinalityType
<1>8. \A e \in found : e \in SweepEntries /\ e.due \in Instants(e.id)
  <2>1. ASSUME NEW s \in A PROVE /\ [id |-> s, due |-> row[s].next] \in SweepEntries
                                 /\ row[s].next \in Instants(s)
    <3>1. s \in Schedules /\ Active(s) BY <1>3
    <3>2. row[s] \in ScheduleRows BY <3>1 DEF RecurringInv, RecurringType
    <3>3. row[s].next \in Instants(s) BY <3>1 DEF RecurringInv, RowsOK
    <3> QED BY <3>1, <3>2, <3>3 DEF ScheduleRows, SweepEntries
  <2> QED BY <1>4, <2>1
<1>9. l \in Seq(SweepEntries) /\ DOMAIN l = 1 .. n /\ \A i \in 1 .. n : l[i] \in found
  BY <1>5, <1>7, <1>8
<1>10. \A i \in DOMAIN l : l[i].due \in Instants(l[i].id)' BY <1>1, <1>8, <1>9, InstantsStay
<1>11. sweep' \in [pc : SweepPlaces, at : Nat, todo : Seq(SweepEntries)] /\ SweepOK'
  <2>1. CASE l = << >>
    <3>1. sweep' = Resting BY <1>5, <2>1
    <3>2. sweep'.pc = "rest" /\ sweep'.at = 0 /\ sweep'.todo = << >> BY <3>1 DEF Resting
    <3>3. SweepOK' BY <1>1, <1>2, <3>2 DEF SweepOK
    <3> QED BY <3>1, <3>3, RestingSweep
  <2>2. CASE l # << >>
    <3>1. PICK w : w = [pc |-> "visit", at |-> clock, todo |-> l] OBVIOUS
    <3>2. /\ w \in [pc : SweepPlaces, at : Nat, todo : Seq(SweepEntries)]
          /\ w.pc = "visit" /\ w.at = clock /\ w.todo = l
      BY <1>2, <1>9, <3>1 DEF SweepPlaces
    <3>3. sweep' = w BY <1>5, <2>2, <3>1
    <3>4. w.at <= clock' /\ w.todo # << >> /\ w.pc \in {"rest", "visit"} BY <1>1, <1>2, <2>2, <3>2
    <3>5. \A i \in DOMAIN w.todo : w.todo[i].due \in Instants(w.todo[i].id)' BY <1>10, <3>2
    <3>6. SweepOK' BY <3>3, <3>4, <3>5 DEF SweepOK
    <3> QED BY <3>2, <3>3, <3>6
  <2> QED BY <2>1, <2>2
<1>12. row' \in [Schedules -> ScheduleRows] /\ RowsOK' BY <1>1, RowsStay
<1>13. FiredOK' BY <1>1, FiredStays
<1> QED BY <1>1, <1>11, <1>12, <1>13 DEF RecurringInv, RecurringType

LEMMA VisitingStays == ASSUME RecurringInv, Visit PROVE RecurringInv'
<1>1. UNCHANGED <<zone, clock, evidence, fired>> /\ sweep.pc = "visit" BY DEF Visit
<1>2. Entry.id \in Schedules BY <1>1, EntryIs
<1>3. row' \in [Schedules -> ScheduleRows] /\ RowsOK' BY <1>1, <1>2, CancelStays, RowsStay DEF Visit
<1>4. sweep' \in [pc : SweepPlaces, at : Nat, todo : Seq(SweepEntries)] /\ SweepOK'
  <2>1. CASE NextEntry BY <1>1, <2>1, NextEntryStays
  <2>2. CASE ~NextEntry
    <3>1. VisitAt("reconcile") /\ Entry.due <= sweep.at BY <2>2 DEF Visit, DueNow
    <3>2. PICK p \in SweepPlaces \ {"rest", "visit"} : p = "reconcile" BY DEF SweepPlaces
    <3>3. VisitAt(p) BY <3>1, <3>2
    <3> QED BY <1>1, <3>1, <3>2, <3>3, VisitStays
  <2> QED BY <2>1, <2>2
<1>5. FiredOK' BY <1>1, FiredStays
<1> QED BY <1>1, <1>3, <1>4, <1>5 DEF RecurringInv, RecurringType

LEMMA DueEntry == ASSUME RecurringInv, sweep.pc \notin {"rest", "visit"} PROVE EntryTells /\ Entry.due <= sweep.at
BY DEF RecurringInv, SweepOK, EntryTells

LEMMA ReconcileStays == ASSUME RecurringInv, Reconcile PROVE RecurringInv'
<1>1. UNCHANGED <<zone, clock, row, fired>> /\ sweep.pc = "reconcile" BY DEF Reconcile
<1>2. Entry.due <= sweep.at /\ Entry.id \in Schedules /\ Entry.due \in 0 .. MaxTime BY <1>1, DueEntry, EntryIs
<1>3. row' \in [Schedules -> ScheduleRows] /\ RowsOK' BY <1>1, RowsStay
<1>4. CASE Known(Entry)
  <2>1. VisitAt("advance") /\ StoredPlan(Entry) \in {"executing", "unknown", "settled"}
    BY <1>4 DEF Reconcile, Known
  <2>2. PICK st : st = IF StoredPlan(Entry) = "executing" THEN "unknown" ELSE StoredPlan(Entry) OBVIOUS
  <2>3. st \in PlanStates \ {"none"} /\ Store(Entry, st) BY <1>4, <2>1, <2>2 DEF Reconcile, PlanStates
  <2>4. /\ evidence' \in [Schedules -> [0 .. MaxTime -> PlanStates]]
        /\ \A s \in Schedules : \A o \in 0 .. MaxTime : evidence[s][o] # "none" => evidence'[s][o] # "none"
    BY <1>1, <2>3, StoreStays
  <2>5. PICK p \in SweepPlaces \ {"rest", "visit"} : p = "advance" BY DEF SweepPlaces
  <2>6. VisitAt(p) /\ p \notin {"validate", "claim", "send"} BY <2>1, <2>5
  <2>7. sweep' \in [pc : SweepPlaces, at : Nat, todo : Seq(SweepEntries)] /\ SweepOK'
    BY <1>1, <1>2, <2>6, VisitStays
  <2>8. FiredOK' BY <1>1, <2>4, FiredStays
  <2> QED BY <1>1, <1>3, <2>4, <2>7, <2>8 DEF RecurringInv, RecurringType
<1>5. CASE ~Known(Entry)
  <2>1. VisitAt("validate") /\ evidence' = evidence BY <1>5 DEF Reconcile
  <2>2. evidence[Entry.id][Entry.due] \in PlanStates BY <1>2 DEF RecurringInv, RecurringType
  <2>3. evidence'[Entry.id][Entry.due] = "none" BY <1>5, <2>1, <2>2 DEF Known, StoredPlan, PlanStates
  <2>4. PICK p \in SweepPlaces \ {"rest", "visit"} : p = "validate" BY DEF SweepPlaces
  <2>5. VisitAt(p) BY <2>1, <2>4
  <2>6. sweep' \in [pc : SweepPlaces, at : Nat, todo : Seq(SweepEntries)] /\ SweepOK'
    BY <1>1, <1>2, <2>3, <2>4, <2>5, VisitStays
  <2>7. FiredOK' BY <1>1, <2>1, FiredStays
  <2> QED BY <1>1, <1>3, <2>1, <2>6, <2>7 DEF RecurringInv, RecurringType
<1> QED BY <1>4, <1>5

LEMMA ValidateStays == ASSUME RecurringInv, Validate PROVE RecurringInv'
<1>1. UNCHANGED <<zone, clock, row, evidence, fired>> /\ sweep.pc = "validate" BY DEF Validate
<1>2. Entry.due <= sweep.at /\ evidence[Entry.id][Entry.due] = "none" BY <1>1, DueEntry DEF EntryTells, StoredPlan
<1>3. PICK p \in SweepPlaces \ {"rest", "visit"} : p \in {"claim", "advance"} /\ VisitAt(p)
  BY DEF Validate, SweepPlaces
<1>4. evidence'[Entry.id][Entry.due] = "none"
  <2>1. PICK e : e = Entry OBVIOUS
  <2> QED BY <1>1, <1>2
<1>5. sweep' \in [pc : SweepPlaces, at : Nat, todo : Seq(SweepEntries)] /\ SweepOK'
  BY <1>1, <1>2, <1>3, <1>4, VisitStays
<1>6. row' \in [Schedules -> ScheduleRows] /\ RowsOK' BY <1>1, RowsStay
<1>7. FiredOK' BY <1>1, FiredStays
<1> QED BY <1>1, <1>5, <1>6, <1>7 DEF RecurringInv, RecurringType

LEMMA ClaimStays == ASSUME RecurringInv, ClaimExecution PROVE RecurringInv'
<1>1. UNCHANGED <<zone, clock, row, fired>> /\ sweep.pc = "claim" BY DEF ClaimExecution
<1>2. Entry.due <= sweep.at /\ evidence[Entry.id][Entry.due] = "none" BY <1>1, DueEntry DEF EntryTells, StoredPlan
<1>3. PICK st \in PlanStates \ {"none"} : st = "executing" BY DEF PlanStates
<1>4. Store(Entry, st) BY <1>3 DEF ClaimExecution
<1>5. /\ evidence' \in [Schedules -> [0 .. MaxTime -> PlanStates]]
      /\ \A s \in Schedules : \A o \in 0 .. MaxTime : evidence[s][o] # "none" => evidence'[s][o] # "none"
      /\ evidence'[Entry.id][Entry.due] = st
  BY <1>1, <1>4, StoreStays
<1>6. fired'[Entry.id][Entry.due] = << >>
  <2>1. Entry.id \in Schedules /\ Entry.due \in 0 .. MaxTime BY <1>1, EntryIs
  <2>2. fired[Entry.id][Entry.due] = << >> BY <1>2, <2>1 DEF RecurringInv, FiredOK
  <2> QED BY <1>1, <2>2
<1>7. PICK p \in SweepPlaces \ {"rest", "visit"} : p = "send" BY DEF SweepPlaces
<1>8. VisitAt(p) BY <1>7 DEF ClaimExecution
<1>9. sweep' \in [pc : SweepPlaces, at : Nat, todo : Seq(SweepEntries)] /\ SweepOK'
  BY <1>1, <1>2, <1>3, <1>5, <1>6, <1>7, <1>8, VisitStays
<1>10. row' \in [Schedules -> ScheduleRows] /\ RowsOK' BY <1>1, RowsStay
<1>11. FiredOK' BY <1>1, <1>5, FiredStays
<1> QED BY <1>1, <1>5, <1>9, <1>10, <1>11 DEF RecurringInv, RecurringType

\* A dispatch: of an occurrence that was not dispatched and is on record.
LEMMA DispatchStays ==
    ASSUME RecurringInv, sweep.pc = "send", DispatchOccurrence(Entry), zone' = zone,
           \A s \in Schedules : \A o \in 0 .. MaxTime : evidence[s][o] # "none" => evidence'[s][o] # "none"
    PROVE  fired' \in [Schedules -> [0 .. MaxTime -> Seq(Nat)]] /\ FiredOK'
<1>1. /\ Entry.due <= sweep.at /\ evidence[Entry.id][Entry.due] # "none" /\ fired[Entry.id][Entry.due] = << >>
  BY DueEntry DEF EntryTells, StoredPlan
<1>2. PICK i \in Schedules, o \in 0 .. MaxTime : i = Entry.id /\ o = Entry.due /\ o \in Instants(i) BY EntryIs
<1>3. clock \in Nat /\ o <= clock
  <2>1. sweep.at \in Nat /\ sweep.at <= clock BY EntryIs
  <2>2. clock \in Nat /\ MaxTime \in Nat BY RecurringAssumption DEF RecurringInv, RecurringType
  <2> QED BY <1>1, <1>2, <2>1, <2>2
<1>0. fired[i][o] \in Seq(Nat) /\ Len(fired[i][o]) = 0
  <2>1. fired[i][o] \in Seq(Nat) BY DEF RecurringInv, RecurringType
  <2>2. fired[i][o] = << >> BY <1>1, <1>2
  <2>3. Len(<< >>) = 0 OBVIOUS
  <2> QED BY <2>1, <2>2, <2>3
<1>4. PICK t : t = Append(fired[i][o], clock) OBVIOUS
<1>5. t \in Seq(Nat) /\ Len(t) = 1 /\ t[1] = clock BY <1>0, <1>3, <1>4
<1>6. Append(fired[i][o], clock) = t BY <1>4
<1>7. fired \in [Schedules -> [0 .. MaxTime -> Seq(Nat)]] BY DEF RecurringInv, RecurringType
<1>8. PICK f : f = [fired[i] EXCEPT ![o] = t] OBVIOUS
<1>9. f \in [0 .. MaxTime -> Seq(Nat)] /\ f[o] = t /\ \A q \in 0 .. MaxTime : q # o => f[q] = fired[i][q]
  BY <1>5, <1>7, <1>8
<1>10. fired' = [fired EXCEPT ![i] = f] BY <1>2, <1>6, <1>8 DEF DispatchOccurrence
<1>11. fired' \in [Schedules -> [0 .. MaxTime -> Seq(Nat)]] BY <1>7, <1>9, <1>10
<1>12. \A s \in Schedules : fired'[s] = IF s = i THEN f ELSE fired[s] BY <1>7, <1>10
<1>13. ASSUME NEW s \in Schedules, NEW q \in 0 .. MaxTime, fired'[s][q] # << >>
       PROVE  /\ Len(fired'[s][q]) = 1 /\ fired'[s][q][1] >= q
              /\ q \in Instants(s) /\ evidence'[s][q] # "none"
  <2>1. CASE s = i /\ q = o
    <3>1. fired'[s][q] = t BY <1>9, <1>12, <2>1
    <3>2. t[1] >= q BY <1>3, <1>5, <2>1
    <3>3. evidence[s][q] # "none" BY <1>1, <1>2, <2>1
    <3> QED BY <1>2, <1>5, <2>1, <3>1, <3>2, <3>3
  <2>2. CASE ~(s = i /\ q = o)
    <3>1. fired'[s][q] = fired[s][q] BY <1>9, <1>12, <2>2
    <3> QED BY <1>13, <3>1 DEF RecurringInv, FiredOK
  <2> QED BY <2>1, <2>2
<1> QED BY <1>11, <1>13, InstantsStay DEF FiredOK

LEMMA SendStays == ASSUME RecurringInv, SendOccurrence PROVE RecurringInv'
<1>1. UNCHANGED <<zone, clock, row, evidence>> /\ sweep.pc = "send" /\ DispatchOccurrence(Entry)
  BY DEF SendOccurrence
<1>2. fired' \in [Schedules -> [0 .. MaxTime -> Seq(Nat)]] /\ FiredOK' BY <1>1, DispatchStays
<1>3. Entry.due <= sweep.at BY <1>1, DueEntry
<1>4. PICK p \in SweepPlaces \ {"rest", "visit"} : p = "settle" BY DEF SweepPlaces
<1>5. VisitAt(p) /\ p \notin {"validate", "claim", "send"} BY <1>4 DEF SendOccurrence
<1>6. sweep' \in [pc : SweepPlaces, at : Nat, todo : Seq(SweepEntries)] /\ SweepOK'
  BY <1>1, <1>3, <1>5, VisitStays
<1>7. row' \in [Schedules -> ScheduleRows] /\ RowsOK' BY <1>1, RowsStay
<1> QED BY <1>1, <1>2, <1>6, <1>7 DEF RecurringInv, RecurringType

LEMMA SettleStays == ASSUME RecurringInv, SettleOccurrence PROVE RecurringInv'
<1>1. UNCHANGED <<zone, clock, row, fired>> /\ sweep.pc = "settle" BY DEF SettleOccurrence
<1>2. Entry.due <= sweep.at BY <1>1, DueEntry
<1>3. PICK st \in PlanStates \ {"none"} : st = "settled" BY DEF PlanStates
<1>4. Store(Entry, st) BY <1>3 DEF SettleOccurrence
<1>5. /\ evidence' \in [Schedules -> [0 .. MaxTime -> PlanStates]]
      /\ \A s \in Schedules : \A o \in 0 .. MaxTime : evidence[s][o] # "none" => evidence'[s][o] # "none"
  BY <1>1, <1>4, StoreStays
<1>6. PICK p \in SweepPlaces \ {"rest", "visit"} : p = "advance" BY DEF SweepPlaces
<1>7. VisitAt(p) /\ p \notin {"validate", "claim", "send"} BY <1>6 DEF SettleOccurrence
<1>8. sweep' \in [pc : SweepPlaces, at : Nat, todo : Seq(SweepEntries)] /\ SweepOK'
  BY <1>1, <1>2, <1>7, VisitStays
<1>9. row' \in [Schedules -> ScheduleRows] /\ RowsOK' BY <1>1, RowsStay
<1>10. FiredOK' BY <1>1, <1>5, FiredStays
<1> QED BY <1>1, <1>5, <1>8, <1>9, <1>10 DEF RecurringInv, RecurringType

LEMMA AdvanceRowStays == ASSUME RecurringInv, AdvanceRow PROVE RecurringInv'
<1>1. UNCHANGED <<zone, clock, evidence, fired>> /\ sweep.pc = "advance" /\ NextEntry BY DEF AdvanceRow
<1>2. sweep' \in [pc : SweepPlaces, at : Nat, todo : Seq(SweepEntries)] /\ SweepOK' BY <1>1, NextEntryStays
<1>3. Entry.id \in Schedules /\ Advance(Entry.id) BY <1>1, EntryIs DEF AdvanceRow
<1>4. row' \in [Schedules -> ScheduleRows] /\ RowsOK' BY <1>1, <1>3, AdvanceStays
<1>5. FiredOK' BY <1>1, FiredStays
<1> QED BY <1>1, <1>2, <1>4, <1>5 DEF RecurringInv, RecurringType

LEMMA EntryFailsStays == ASSUME RecurringInv, EntryFails PROVE RecurringInv'
<1>1. UNCHANGED <<zone, clock, row>> /\ sweep.pc \notin {"rest", "visit"} /\ NextEntry BY DEF EntryFails
<1>2. sweep' \in [pc : SweepPlaces, at : Nat, todo : Seq(SweepEntries)] /\ SweepOK' BY <1>1, NextEntryStays
<1>3. /\ evidence' \in [Schedules -> [0 .. MaxTime -> PlanStates]]
      /\ \A s \in Schedules : \A o \in 0 .. MaxTime : evidence[s][o] # "none" => evidence'[s][o] # "none"
  <2>1. CASE evidence' = evidence BY <2>1 DEF RecurringInv, RecurringType
  <2>2. CASE evidence' # evidence
    <3>1. PICK st \in PlanStates \ {"none"} : st = "unknown" BY DEF PlanStates
    <3>2. Store(Entry, st) BY <2>2, <3>1 DEF EntryFails
    <3> QED BY <1>1, <3>2, StoreStays
  <2> QED BY <2>1, <2>2
<1>4. fired' \in [Schedules -> [0 .. MaxTime -> Seq(Nat)]] /\ FiredOK'
  <2>1. CASE fired' = fired BY <1>1, <1>3, <2>1, FiredStays DEF RecurringInv, RecurringType
  <2>2. CASE fired' # fired
    <3>1. sweep.pc = "send" /\ DispatchOccurrence(Entry) BY <2>2 DEF EntryFails
    <3> QED BY <1>1, <1>3, <3>1, DispatchStays
  <2> QED BY <2>1, <2>2
<1>5. row' \in [Schedules -> ScheduleRows] /\ RowsOK' BY <1>1, RowsStay
<1> QED BY <1>1, <1>2, <1>3, <1>4, <1>5 DEF RecurringInv, RecurringType

LEMMA HostStays == ASSUME RecurringInv, KillHost \/ RestartHost \/ Tick \/ UNCHANGED recurringVars PROVE RecurringInv'
<1>0. clock \in 0 .. MaxTime /\ MaxTime \in Nat BY RecurringAssumption DEF RecurringInv, RecurringType
<1>1. UNCHANGED <<zone, row, fired>> /\ clock' \in 0 .. MaxTime /\ clock <= clock'
  BY <1>0 DEF KillHost, RestartHost, Tick, recurringVars
<1>2. /\ evidence' \in [Schedules -> [0 .. MaxTime -> PlanStates]]
      /\ \A s \in Schedules : \A o \in 0 .. MaxTime : (evidence'[s][o] = "none") <=> (evidence[s][o] = "none")
  <2>0. evidence \in [Schedules -> [0 .. MaxTime -> PlanStates]] BY DEF RecurringInv, RecurringType
  <2>1. CASE evidence' = evidence BY <2>0, <2>1
  <2>2. CASE evidence' # evidence
    <3>1. evidence' = [s \in Schedules |-> [o \in 0 .. MaxTime |->
                         IF evidence[s][o] = "executing" THEN "unknown" ELSE evidence[s][o]]]
      BY <2>2 DEF KillHost, RestartHost, Tick, recurringVars
    <3> QED BY <2>0, <3>1 DEF PlanStates
  <2> QED BY <2>1, <2>2
<1>3. sweep' \in [pc : SweepPlaces, at : Nat, todo : Seq(SweepEntries)] /\ SweepOK'
  <2>1. CASE sweep' = sweep BY <1>1, <1>2, <2>1, SweepStays
  <2>2. CASE sweep' # sweep
    <3>1. sweep' = Resting BY <2>2 DEF KillHost, RestartHost, Tick, recurringVars
    <3>2. sweep'.pc = "rest" /\ sweep'.at = 0 /\ sweep'.todo = << >> BY <3>1 DEF Resting
    <3>3. SweepOK' BY <1>0, <1>1, <3>2 DEF SweepOK
    <3> QED BY <3>1, <3>3, RestingSweep
  <2> QED BY <2>1, <2>2
<1>4. row' \in [Schedules -> ScheduleRows] /\ RowsOK' BY <1>1, RowsStay
<1>5. FiredOK' BY <1>1, <1>2, FiredStays
<1> QED BY <1>1, <1>2, <1>3, <1>4, <1>5 DEF RecurringInv, RecurringType

LEMMA RecurringStays == RecurringInv /\ [RecurringNext]_recurringVars => RecurringInv'
<1> SUFFICES ASSUME RecurringInv, [RecurringNext]_recurringVars PROVE RecurringInv' OBVIOUS
<1>1. ASSUME NEW s \in Schedules, ScheduleRecurring(s) \/ CancelRecurring(s) PROVE RecurringInv'
  BY <1>1, ToolsStay
<1>2. CASE SweepStep
  BY <1>2, BeginSweepStays, VisitingStays, ReconcileStays, ValidateStays, ClaimStays, SendStays,
     SettleStays, AdvanceRowStays DEF SweepStep
<1>3. CASE EntryFails BY <1>3, EntryFailsStays
<1>4. CASE KillHost \/ RestartHost \/ Tick \/ UNCHANGED recurringVars BY <1>4, HostStays
<1> QED BY <1>1, <1>2, <1>3, <1>4 DEF RecurringNext

\* Instants on one local day are one instant.
LEMMA InstantOfDay ==
    ASSUME zone \in Transitions, NEW s \in Schedules, NEW o \in Instants(s)
    PROVE  /\ OnWeekday(s, Date(LocalTime(o))) /\ LocalTime(o) = Candidate(s, Date(LocalTime(o)))
           /\ o = Utc(Candidate(s, Date(LocalTime(o))))
<1>1. PICK d \in Nat : OnWeekday(s, d) /\ o = Utc(Candidate(s, d)) BY DEF Instants
<1>2. Date(Candidate(s, d)) = d /\ LocalTime(Utc(Candidate(s, d))) = Candidate(s, d) BY CandidateIs
<1>3. Date(LocalTime(o)) = d BY <1>1, <1>2
<1> QED BY <1>1, <1>2, <1>3

LEMMA RecurringTells == RecurringInv => OccurrencesAreExact
<1> SUFFICES ASSUME RecurringInv PROVE OccurrencesAreExact OBVIOUS
<1>1. zone \in Transitions /\ clock \in 0 .. MaxTime /\ fired \in [Schedules -> [0 .. MaxTime -> Seq(Nat)]]
  BY DEF RecurringInv, RecurringType
<1>2. ASSUME NEW s \in Schedules, NEW o \in Fired(s)
      PROVE  o \in Instants(s) /\ Sends(s, o) = 1 /\ fired[s][o][1] >= o
  <2>1. o \in 0 .. MaxTime /\ Len(fired[s][o]) > 0 BY DEF Fired, Sends
  <2>2. fired[s][o] # << >> BY <1>1, <2>1
  <2> QED BY <2>1, <2>2 DEF RecurringInv, FiredOK, Sends
<1>3. OncePerLocalDay
  <2>1. ASSUME NEW s \in Schedules, NEW o \in Fired(s), NEW p \in Fired(s),
               Date(LocalTime(o)) = Date(LocalTime(p))
        PROVE  o = p /\ Sends(s, o) = 1
    <3>1. o \in Instants(s) /\ p \in Instants(s) /\ Sends(s, o) = 1 BY <1>2
    <3>2. o = Utc(Candidate(s, Date(LocalTime(o)))) BY <1>1, <3>1, InstantOfDay
    <3>3. p = Utc(Candidate(s, Date(LocalTime(p)))) BY <1>1, <3>1, InstantOfDay
    <3> QED BY <2>1, <3>1, <3>2, <3>3
  <2> QED BY <2>1 DEF OncePerLocalDay
<1>4. DispatchedOnTime
  <2>1. ASSUME NEW s \in Schedules, NEW o \in Fired(s)
        PROVE  /\ \A i \in 1 .. Sends(s, o) : fired[s][o][i] >= o
               /\ OnWeekday(s, Date(LocalTime(o)))
               /\ LocalTime(o) = Candidate(s, Date(LocalTime(o)))
    <3>1. o \in Instants(s) /\ Sends(s, o) = 1 /\ fired[s][o][1] >= o BY <1>2
    <3>2. \A i \in 1 .. Sends(s, o) : i = 1 BY <3>1
    <3> QED BY <1>1, <3>1, <3>2, InstantOfDay
  <2> QED BY <2>1 DEF DispatchedOnTime
<1>5. NextIsFirst BY <1>1, NextIsFirstHolds
<1> QED BY <1>3, <1>4, <1>5 DEF OccurrencesAreExact

\* For any rules, zone change, crashes and errors (recurrence.py, run_due_recurring): a
\* schedule fires at most once on a local day and not again for one occurrence, at or
\* after the rule's local time on a day the rule names; and next_occurrence is the first
\* such instant after its argument, outside the second pass of a repeated hour.
THEOREM OccurrencesStayExact == RecurringSpec => []OccurrencesAreExact
<1>1. RecurringSpec => []RecurringInv BY RecurringInitially, RecurringStays, PTL DEF RecurringSpec
<1> QED BY <1>1, RecurringTells, PTL

\* The next occurrence is within the search and one change of the clocks.
LEMMA NextIsNear ==
    ASSUME zone \in Transitions, NEW s \in Schedules, NEW t \in 0 .. MaxTime
    PROVE  NextOccurrence(s, t) \in 0 .. Horizon
<1>0. MaxTime \in Nat /\ DayLength \in Nat \ {0} /\ t \in Nat /\ t <= MaxTime BY RecurringAssumption
<1>1. zone.at \in Nat /\ zone.shift \in Int /\ zone.at + zone.shift \in Nat /\ zone.shift > -2 * DayLength
  BY ZoneTells, FoldIsShort
<1>2. PICK now \in Nat : now = LocalTime(t) BY <1>0, LocalTimeIs
<1>3. PICK d \in Nat : /\ NextOccurrence(s, t) = Utc(Candidate(s, d))
                       /\ Candidate(s, d) > now /\ d <= Date(now) + 7
  BY <1>0, <1>2, NextOccurrenceIs
<1>4. PICK c \in Nat : c = Candidate(s, d) /\ Date(c) = d BY CandidateIs
<1>5. PICK today \in Nat : today = Date(now) /\ today * DayLength <= now BY DayOf
<1>6. c < now + 8 * DayLength
  <2>1. c < d * DayLength + DayLength BY <1>4, DayOf
  <2>2. d * DayLength <= (today + 7) * DayLength BY <1>0, <1>3, <1>5
  <2>3. (today + 7) * DayLength = today * DayLength + 7 * DayLength BY <1>0
  <2>4. PICK e \in Nat, f \in Nat : e = d * DayLength /\ f = today * DayLength BY <1>0
  <2> QED BY <1>0, <1>5, <2>1, <2>2, <2>3, <2>4
<1>7. /\ c < zone.at => Utc(c) = c
      /\ zone.shift > 0 /\ c < zone.at + zone.shift => Utc(c) = c
      /\ zone.at <= c /\ zone.at + zone.shift <= c => Utc(c) = c - zone.shift
      /\ Utc(c) \in Nat
  BY UtcIs
<1>8. (t < zone.at => now = t) /\ (zone.at <= t => now = t + zone.shift) BY <1>0, <1>2, LocalTimeIs
<1>9. Horizon = MaxTime + 10 * DayLength BY <1>0 DEF Horizon, MaxDaysSearched
<1>10. now < c BY <1>3, <1>4
<1>11. Utc(c) <= Horizon
  <2>1. CASE t < zone.at BY <1>0, <1>1, <1>6, <1>7, <1>8, <1>9, <2>1
  <2>2. CASE zone.at <= t BY <1>0, <1>1, <1>6, <1>7, <1>8, <1>9, <1>10, <2>2
  <2> QED BY <1>0, <1>1, <2>1, <2>2
<1> QED BY <1>0, <1>3, <1>4, <1>7, <1>9, <1>11

\* How far rows look ahead, what a resting sweep leaves, and the bounds of the model.
RecurringBounds ==
    /\ \A s \in Schedules : row[s].next \in 0 .. Horizon
    /\ sweep.pc = "rest" => sweep.todo = << >>
    /\ crashes \in 0 .. MaxCrashes /\ faults \in 0 .. MaxFaults

LEMMA RowsNear ==
    ASSUME RecurringInv, RecurringBounds, NEW s \in Schedules,
           Cancel(s) \/ Advance(s) \/ ScheduleRecurring(s) \/ row' = row
    PROVE  \A q \in Schedules : row'[q].next \in 0 .. Horizon
<1>1. row \in [Schedules -> ScheduleRows] /\ zone \in Transitions /\ clock \in 0 .. MaxTime
      /\ sweep.at \in Nat /\ sweep.at <= clock
  BY DEF RecurringInv, RecurringType, SweepOK
<1>2. sweep.at \in 0 .. MaxTime BY <1>1, RecurringAssumption
<1>3. \A q \in Schedules : row[q].next \in 0 .. Horizon BY DEF RecurringBounds
<1>4. ASSUME NEW r, r.next \in 0 .. Horizon, row' = [row EXCEPT ![s] = r]
      PROVE  \A q \in Schedules : row'[q].next \in 0 .. Horizon
  BY <1>1, <1>3, <1>4
<1>5. CASE row' = row BY <1>3, <1>5
<1>6. CASE Cancel(s) /\ row' # row
  <2>1. PICK r : r = [row[s] EXCEPT !.status = "cancelled"] OBVIOUS
  <2>2. row[s] \in ScheduleRows BY <1>1
  <2>3. r.next = row[s].next BY <2>1, <2>2 DEF ScheduleRows
  <2>4. row' = [row EXCEPT ![s] = r] BY <1>6, <2>1 DEF Cancel
  <2>5. r.next \in 0 .. Horizon BY <1>3, <2>3
  <2> QED BY <1>4, <2>4, <2>5
<1>7. CASE Advance(s) /\ row' # row
  <2>1. PICK n \in 0 .. Horizon : n = NextOccurrence(s, sweep.at) BY <1>1, <1>2, NextIsNear
  <2>2. PICK r : r = [row[s] EXCEPT !.next = n] OBVIOUS
  <2>3. row[s] \in ScheduleRows BY <1>1
  <2>4. r.next = n BY <2>2, <2>3 DEF ScheduleRows
  <2>5. row' = [row EXCEPT ![s] = r] BY <1>7, <2>1, <2>2 DEF Advance
  <2>6. r.next \in 0 .. Horizon BY <2>1, <2>4
  <2> QED BY <1>4, <2>5, <2>6
<1>8. CASE ScheduleRecurring(s)
  <2>1. PICK n \in 0 .. Horizon : n = NextOccurrence(s, clock) BY <1>1, NextIsNear
  <2>2. PICK r : r = [status |-> "active", next |-> n] OBVIOUS
  <2>3. r.next = n BY <2>2
  <2>4. row' = [row EXCEPT ![s] = r] BY <1>8, <2>1, <2>2 DEF ScheduleRecurring
  <2>5. r.next \in 0 .. Horizon BY <2>1, <2>3
  <2> QED BY <1>4, <2>4, <2>5
<1> QED BY <1>5, <1>6, <1>7, <1>8

LEMMA RestLeavesNothing ==
    ASSUME RecurringInv, RecurringBounds, [RecurringNext]_recurringVars
    PROVE  sweep'.pc = "rest" => sweep'.todo = << >>
<1>1. sweep \in [pc : SweepPlaces, at : Nat, todo : Seq(SweepEntries)] BY DEF RecurringInv, RecurringType
<1>2. CASE sweep' = sweep BY <1>2 DEF RecurringBounds
<1>3. CASE sweep' = Resting BY <1>3 DEF Resting
<1>4. ASSUME NEW p \in SweepPlaces \ {"rest"}, VisitAt(p) PROVE sweep'.pc # "rest"
  BY <1>1, <1>4 DEF VisitAt
<1>5. CASE NextEntry /\ sweep' # Resting
  <2>1. PICK p \in SweepPlaces \ {"rest"} : p = "visit" BY DEF SweepPlaces
  <2>2. PICK l : l = Tail(sweep.todo) OBVIOUS
  <2>3. sweep' = [sweep EXCEPT !.pc = p, !.todo = l] BY <1>5, <2>1, <2>2 DEF NextEntry
  <2>4. sweep'.pc = p BY <1>1, <2>3
  <2> QED BY <2>1, <2>4
<1>6. CASE BeginSweep
  <2>1. PICK l : sweep' = IF l = << >> THEN Resting ELSE [pc |-> "visit", at |-> clock, todo |-> l]
    BY <1>6 DEF BeginSweep
  <2>2. sweep' = Resting \/ sweep' = [pc |-> "visit", at |-> clock, todo |-> l] BY <2>1
  <2> QED BY <1>3, <2>2
<1>7. \/ sweep' = sweep \/ sweep' = Resting \/ NextEntry \/ BeginSweep
      \/ \E p \in SweepPlaces \ {"rest"} : VisitAt(p)
  <2>1. ASSUME NEW s \in Schedules, ScheduleRecurring(s) \/ CancelRecurring(s) PROVE sweep' = sweep
    BY <2>1 DEF ScheduleRecurring, CancelRecurring
  <2>2. CASE SweepStep
    BY <2>2 DEF SweepStep, Visit, Reconcile, Validate, ClaimExecution, SendOccurrence, SettleOccurrence,
                AdvanceRow, SweepPlaces
  <2>3. CASE EntryFails BY <2>3 DEF EntryFails
  <2>4. CASE KillHost \/ RestartHost \/ Tick \/ UNCHANGED recurringVars
    BY <2>4 DEF KillHost, RestartHost, Tick, recurringVars
  <2> QED BY <2>1, <2>2, <2>3, <2>4 DEF RecurringNext
<1> QED BY <1>2, <1>3, <1>4, <1>5, <1>6, <1>7

LEMMA BoundsStay == RecurringInv /\ RecurringBounds /\ [RecurringNext]_recurringVars => RecurringBounds'
<1> SUFFICES ASSUME RecurringInv, RecurringBounds, [RecurringNext]_recurringVars PROVE RecurringBounds'
  OBVIOUS
<1>1. \A q \in Schedules : row'[q].next \in 0 .. Horizon
  <2>1. ASSUME NEW s \in Schedules, ScheduleRecurring(s) \/ CancelRecurring(s)
        PROVE  \A q \in Schedules : row'[q].next \in 0 .. Horizon
    BY <2>1, RowsNear DEF CancelRecurring
  <2>2. CASE row' = row BY <2>2 DEF RecurringBounds
  <2>3. CASE Visit \/ AdvanceRow
    <3>1. sweep.pc # "rest" BY <2>3 DEF Visit, AdvanceRow
    <3>2. PICK s \in Schedules : s = Entry.id BY <3>1, EntryIs
    <3>3. Cancel(s) \/ Advance(s) \/ row' = row BY <2>3, <3>2 DEF Visit, AdvanceRow
    <3> QED BY <3>3, RowsNear
  <2>4. CASE SweepStep /\ ~(Visit \/ AdvanceRow)
    BY <2>2, <2>4 DEF SweepStep, BeginSweep, Reconcile, Validate, ClaimExecution, SendOccurrence,
                      SettleOccurrence
  <2>5. CASE EntryFails \/ KillHost \/ RestartHost \/ Tick \/ UNCHANGED recurringVars
    BY <2>2, <2>5 DEF EntryFails, KillHost, RestartHost, Tick, recurringVars
  <2> QED BY <2>1, <2>3, <2>4, <2>5 DEF RecurringNext
<1>2. sweep'.pc = "rest" => sweep'.todo = << >> BY RestLeavesNothing
<1>3. crashes' \in 0 .. MaxCrashes /\ faults' \in 0 .. MaxFaults
  <2>0. crashes \in 0 .. MaxCrashes /\ faults \in 0 .. MaxFaults /\ MaxCrashes \in Nat /\ MaxFaults \in Nat
    BY RecurringAssumption DEF RecurringBounds
  <2>1. CASE EntryFails BY <2>0, <2>1 DEF EntryFails
  <2>2. CASE KillHost BY <2>0, <2>2 DEF KillHost
  <2>3. CASE ~EntryFails /\ ~KillHost
    <3>1. UNCHANGED <<crashes, faults>>
      BY <2>3 DEF RecurringNext, SweepStep, ScheduleRecurring, CancelRecurring, BeginSweep, Visit,
                  Reconcile, Validate, ClaimExecution, SendOccurrence, SettleOccurrence, AdvanceRow,
                  RestartHost, Tick, recurringVars
    <3> QED BY <2>0, <3>1
  <2> QED BY <2>1, <2>2, <2>3
<1> QED BY <1>1, <1>2, <1>3 DEF RecurringBounds

LEMMA BoundsInitially == RecurringInit => RecurringBounds
<1> SUFFICES ASSUME RecurringInit PROVE RecurringBounds OBVIOUS
<1>1. MaxCrashes \in Nat /\ MaxFaults \in Nat /\ MaxTime \in Nat /\ DayLength \in Nat BY RecurringAssumption
<1>2. Horizon \in Nat BY <1>1 DEF Horizon, MaxDaysSearched
<1>3. sweep.todo = << >> BY DEF RecurringInit, Resting
<1> QED BY <1>1, <1>2, <1>3 DEF RecurringInit, RecurringBounds

LEMMA RecurringTyped == RecurringInv /\ RecurringBounds => RecurringTypeOK
<1> SUFFICES ASSUME RecurringInv, RecurringBounds PROVE RecurringTypeOK OBVIOUS
<1>1. /\ clock \in 0 .. MaxTime /\ row \in [Schedules -> ScheduleRows]
      /\ evidence \in [Schedules -> [0 .. MaxTime -> PlanStates]]
      /\ sweep \in [pc : SweepPlaces, at : Nat, todo : Seq(SweepEntries)]
  BY DEF RecurringInv, RecurringType
<1>2. \A s \in Schedules : row[s].status \in {"none", "active", "cancelled"} BY <1>1 DEF ScheduleRows
<1>3. sweep.pc \in SweepPlaces BY <1>1
<1>4. (sweep.pc = "rest") <=> (sweep.todo = << >>) BY DEF RecurringBounds, RecurringInv, SweepOK
<1>5. \A s \in Schedules : \A o \in 0 .. MaxTime : evidence[s][o] \in PlanStates BY <1>1
<1> QED BY <1>1, <1>2, <1>3, <1>4, <1>5 DEF RecurringBounds, RecurringTypeOK, SweepPlaces, PlanStates

-----------------------------------------------------------------------------
(* The services side by side                                                *)

LEMMA QueueInvTells == QueueInv => QueueTypeOK
BY DEF QueueInv

LEMMA StorageInvTells == StorageInv => StorageTypeOK
<1> SUFFICES ASSUME StorageInv PROVE StorageTypeOK OBVIOUS
<1>1. Cardinality(Held) \in Nat BY FS_CardinalityType DEF StorageInv, SlotsCounted
<1>2. slots \in 0..(Capacity + 1)
  BY <1>1, StorageAssumption DEF StorageInv, SlotsCounted, StorageType
<1> QED BY <1>2 DEF StorageInv, StorageType, StorageTypeOK

ServicesInv == QueueInv /\ RecurringInv /\ RecurringBounds /\ OutboxInv /\ StorageInv

\* Each service keeps to its own types whichever of them moves (household_queue.py,
\* run_due_recurring, the outbox tables, storage_engine.py): futures, claims, slots
\* and rows stay in the states the code can store; a row looks ahead no further than
\* the eight days that next_occurrence searches and a change of the clocks.
THEOREM ServicesStayTyped == ServicesSpec => []ServicesTypeOK
<1>1. ServicesInit => ServicesInv
  BY QueueInitially, RecurringInitially, BoundsInitially, OutboxInitially, StorageInitially
     DEF ServicesInit, ServicesInv
<1>2. ServicesInv /\ [ServicesNext]_servicesVars => ServicesInv'
  <2> SUFFICES ASSUME ServicesInv, [ServicesNext]_servicesVars PROVE ServicesInv' OBVIOUS
  <2>1. /\ [QueueNext]_queueVars /\ [RecurringNext]_recurringVars
        /\ [OutboxNext]_outboxVars /\ [StorageNext]_storageVars
    BY DEF ServicesNext, servicesVars, QueueRests, RecurringRests, OutboxRests, StorageRests
  <2>2. QueueInv' BY <2>1, QueueKeeps DEF ServicesInv
  <2>3. RecurringInv' BY <2>1, RecurringStays DEF ServicesInv
  <2>4. RecurringBounds' BY <2>1, BoundsStay DEF ServicesInv
  <2>5. OutboxInv' BY <2>1, OutboxKeeps DEF ServicesInv
  <2>6. StorageInv' BY <2>1, StorageKeeps DEF ServicesInv
  <2> QED BY <2>2, <2>3, <2>4, <2>5, <2>6 DEF ServicesInv
<1>3. ServicesInv => ServicesTypeOK
  BY QueueInvTells, RecurringTyped, OutboxInvTells, StorageInvTells DEF ServicesInv, ServicesTypeOK
<1> QED BY <1>1, <1>2, <1>3, PTL DEF ServicesSpec
=============================================================================
