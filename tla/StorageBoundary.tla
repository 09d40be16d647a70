--------------------------- MODULE StorageBoundary ---------------------------
(***************************************************************************)
(* The bounded boundary between the event loop and the one storage thread: *)
(*   persistence/serialized.py   SerializedStorageExecutor,                *)
(*                               SerializedRepositoryProxy                 *)
(*                                                                         *)
(* Callers on the loop, the storage thread and the thread that closes the  *)
(* executor interleave at the points where the code waits or takes a lock. *)
(* An operation is only its passage through the boundary; whether it       *)
(* succeeds or raises makes no difference to slots and queue.              *)
(***************************************************************************)
EXTENDS Naturals, Sequences, FiniteSets

CONSTANTS
    Ops,        \* calls of run() and submit_nowait()
    Mode,       \* op -> "plain" or "drain" (run, drain_on_timeout), or "nowait"
    NoOp,
    Stop,       \* the None that ends the storage thread
    Capacity    \* queue_capacity

\* The constructor's check of its capacity; the sentinel is no operation.
ASSUME StorageAssumption ==
    /\ Capacity \in Nat \ {0}
    /\ Mode \in [Ops -> {"plain", "drain", "nowait"}]
    /\ NoOp \notin Ops /\ Stop \notin Ops /\ NoOp # Stop

VARIABLES
    slots,      \* free permits of the semaphore
    fifo,       \* queue.Queue
    thread,     \* what the storage thread has taken, Stop once it returned
    outcome,    \* op -> its Future
    waiter,     \* op -> where its caller is
    callback,   \* ops whose future releases their slot when done
    shutting    \* how far close() is

storageVars == <<slots, fifo, thread, outcome, waiter, callback, shutting>>

Futures == {"none", "queued", "done"}
\* A caller cancelled while it asks may leave its thread behind ("orphaned"), and with
\* it a slot that no one will give back ("lost").
Callers == {"idle", "asked", "admitted", "checked", "waiting", "draining", "left",
            "orphaned", "lost"}

StorageInit ==
    /\ slots = Capacity + 1
    /\ fifo = <<>> /\ thread = NoOp
    /\ outcome = [o \in Ops |-> "none"]
    /\ waiter = [o \in Ops |-> "idle"]
    /\ callback = {}
    /\ shutting = "open"

Move(o, c) == waiter' = [waiter EXCEPT ![o] = c]

\* BoundedSemaphore.release, by whoever gives the slot back.
Release == slots' = slots + 1

-----------------------------------------------------------------------------
(* Admission.                                                               *)

\* submit_nowait looks whether the executor is open before it takes a slot;
\* run waits for a slot first, and gives up when queue_wait_seconds pass.
BeginRun(o) ==
    /\ waiter[o] = "idle"
    /\ Mode[o] = "nowait" => shutting = "open"
    /\ Move(o, "asked")
    /\ UNCHANGED <<slots, fifo, thread, outcome, callback, shutting>>

\* _acquire_slot, in a thread of its own for run(), whoever still waits for it.
AcquireSlot(o) ==
    /\ waiter[o] \in {"asked", "orphaned"} /\ slots > 0
    /\ slots' = slots - 1
    /\ Move(o, IF waiter[o] = "asked" THEN "admitted" ELSE "lost")
    /\ UNCHANGED <<fifo, thread, outcome, callback, shutting>>

Overloaded(o) ==
    /\ waiter[o] \in {"asked", "orphaned"} /\ slots = 0
    /\ Move(o, "left")
    /\ UNCHANGED <<slots, fifo, thread, outcome, callback, shutting>>

\* run() is cancelled while it awaits _acquire_slot, which lies outside its try: before
\* the pool begins it, while the thread waits for a slot, or when it has one already.
CancelAsking(o) ==
    /\ Mode[o] # "nowait"
    /\ \/ waiter[o] = "asked" /\ (Move(o, "left") \/ Move(o, "orphaned"))
       \/ waiter[o] = "admitted" /\ Move(o, "lost")
    /\ UNCHANGED <<slots, fifo, thread, outcome, callback, shutting>>

\* _ensure_open, under the state lock.
EnsureOpen(o) ==
    /\ waiter[o] = "admitted"
    /\ IF shutting = "open" THEN Move(o, "checked") /\ UNCHANGED slots
                            ELSE Move(o, "left") /\ Release
    /\ UNCHANGED <<fifo, thread, outcome, callback, shutting>>

\* _enqueue from put_nowait on: a full queue gives the slot back.
Enqueue(o) ==
    /\ waiter[o] = "checked"
    /\ IF Len(fifo) < Capacity
       THEN /\ fifo' = Append(fifo, o)
            /\ outcome' = [outcome EXCEPT ![o] = "queued"]
            /\ IF Mode[o] = "nowait"
               THEN Move(o, "left") /\ callback' = callback \cup {o}
               ELSE Move(o, "waiting") /\ UNCHANGED callback
            /\ UNCHANGED slots
       ELSE Move(o, "left") /\ Release /\ UNCHANGED <<fifo, outcome, callback>>
    /\ UNCHANGED <<thread, shutting>>

-----------------------------------------------------------------------------
(* Waiting for the result.                                                  *)

\* Mutant: the slot is given back again although the future will, or did.
ReturnsSlotAlways(o) == TRUE
ReturnsSlot(o) == o \notin callback

\* The result, or the error the operation raised, reaches the caller.
Resume(o) ==
    /\ waiter[o] \in {"waiting", "draining"} /\ outcome[o] = "done"
    /\ IF ReturnsSlot(o) THEN Release ELSE UNCHANGED slots
    /\ Move(o, "left")
    /\ UNCHANGED <<fifo, thread, outcome, callback, shutting>>

Drains(o) == Mode[o] = "drain"

\* The wait times out.  The slot stays with the operation.
Timeout(o) ==
    /\ waiter[o] = "waiting" /\ outcome[o] # "done"
    /\ callback' = callback \cup {o}
    /\ Move(o, IF Drains(o) THEN "draining" ELSE "left")
    /\ UNCHANGED <<slots, fifo, thread, outcome, shutting>>

\* The caller is cancelled: it waits for the operation in both modes; a second
\* cancellation sends it away unless it drains.
CancelCaller(o) ==
    /\ outcome[o] # "done"
    /\ \/ waiter[o] = "waiting" /\ Move(o, "draining")
       \/ waiter[o] = "draining" /\ ~Drains(o) /\ Move(o, "left")
    /\ callback' = callback \cup {o}
    /\ UNCHANGED <<slots, fifo, thread, outcome, shutting>>

-----------------------------------------------------------------------------
(* The storage thread.                                                      *)

\* Mutant: the thread leaves as soon as the executor is closing.
TakesUntilClosed == thread = NoOp /\ fifo # <<>> /\ shutting = "open"
Takes == thread = NoOp /\ fifo # <<>>

WorkerTake ==
    /\ Takes
    /\ thread' = Head(fifo) /\ fifo' = Tail(fifo)
    /\ UNCHANGED <<slots, outcome, waiter, callback, shutting>>

\* The operation is over: the future is resolved, and its callback runs.
WorkerDone ==
    /\ thread \in Ops
    /\ outcome' = [outcome EXCEPT ![thread] = "done"]
    /\ IF thread \in callback THEN Release ELSE UNCHANGED slots
    /\ thread' = NoOp
    /\ UNCHANGED <<fifo, waiter, callback, shutting>>

(* close.                                                                   *)
BeginClose ==
    /\ shutting = "open" /\ shutting' = "joining"
    /\ UNCHANGED <<slots, fifo, thread, outcome, waiter, callback>>

\* Every task is done; then the sentinel is put, when there is room for it.
QueueJoined ==
    /\ shutting = "joining" /\ fifo = <<>> /\ thread = NoOp
    /\ shutting' = "stopping"
    /\ UNCHANGED <<slots, fifo, thread, outcome, waiter, callback>>

PutStop ==
    /\ shutting = "stopping" /\ Len(fifo) < Capacity
    /\ fifo' = Append(fifo, Stop) /\ shutting' = "ended"
    /\ UNCHANGED <<slots, thread, outcome, waiter, callback>>

WorkerStep == WorkerTake \/ WorkerDone
CloserStep == QueueJoined \/ PutStop
CallerStep(o) == AcquireSlot(o) \/ Overloaded(o) \/ EnsureOpen(o) \/ Enqueue(o) \/ Resume(o)

StorageNext ==
    \/ WorkerStep \/ CloserStep \/ BeginClose
    \/ \E o \in Ops : BeginRun(o) \/ CallerStep(o) \/ Timeout(o) \/ CancelAsking(o) \/ CancelCaller(o)

StorageSpec == StorageInit /\ [][StorageNext]_storageVars

\* Threads run and operations end; nobody has to call, cancel or close.
StorageFairness ==
    /\ WF_storageVars(WorkerStep) /\ WF_storageVars(CloserStep)
    /\ \A o \in Ops : WF_storageVars(CallerStep(o))

-----------------------------------------------------------------------------
StorageTypeOK ==
    /\ slots \in 0..(Capacity + 1)
    /\ fifo \in Seq(Ops \cup {Stop}) /\ Len(fifo) <= Capacity
    /\ thread \in Ops \cup {NoOp, Stop}
    /\ outcome \in [Ops -> Futures] /\ waiter \in [Ops -> Callers]
    /\ callback \subseteq Ops
    /\ shutting \in {"open", "joining", "stopping", "ended"}

HoldsSlot(o) ==
    waiter[o] \in {"admitted", "checked", "waiting", "lost"} \/ outcome[o] = "queued"

\* Each slot is free, or belongs to one operation that is being admitted, waited for or
\* run, or was taken for a caller cancelled while it asked and is gone for good; a
\* timeout, any other cancellation, a full queue and close() neither lose a slot nor
\* give one back twice (run, submit_nowait, _release_slot).
SlotsAreExact == slots + Cardinality({o \in Ops : HoldsSlot(o)}) = Capacity + 1

\* A caller that asked to drain never leaves while its operation can still run:
\* what it does next cannot overlap the write it gave up on (_drain_terminal).
DrainedCallerLeavesLast ==
    \A o \in Ops : Mode[o] = "drain" /\ waiter[o] = "left" => outcome[o] # "queued"

\* Slots and callers are accounted for whatever times out or is cancelled.
CallersAreAccounted == SlotsAreExact /\ DrainedCallerLeavesLast

\* What is queued ahead of the sentinel is run, and the caller that waits for it
\* gets its answer, whenever close() comes.
QueuedWorkIsDone ==
    \A o \in Ops :
        outcome[o] = "queued" /\ thread # Stop /\ (\A i \in DOMAIN fifo : fifo[i] # Stop)
            ~> outcome[o] = "done" /\ waiter[o] = "left"
=============================================================================
