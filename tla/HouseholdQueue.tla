--------------------------- MODULE HouseholdQueue ---------------------------
(***************************************************************************)
(* application/household_queue.py: HouseholdWorkQueues, the bounded FIFO    *)
(* lanes that carry every physical dispatch.  One worker task per household *)
(* runs the extracted item to its end; callers wait on a shielded future.   *)
(*                                                                          *)
(* Every critical section of the class runs under an asyncio.Lock that no   *)
(* section holds across an await, so each one is a single step here.  The   *)
(* worker releases capacity and looks for its next item without suspending, *)
(* so WorkerFinish covers both.                                             *)
(***************************************************************************)
EXTENDS Naturals, Sequences, FiniteSets, SequencesExt

CONSTANTS Households,       \* household ids
          Items,            \* calls of submit(), each made at most once
          NoItem,           \* no item extracted
          MaxPerHousehold,  \* max_per_household
          MaxTotal          \* max_total

\* The constructor's checks, household_queue.py:35-38.
ASSUME CapacityAssumption ==
    /\ MaxPerHousehold \in Nat \ {0}
    /\ MaxTotal \in Nat \ {0}
    /\ MaxPerHousehold <= MaxTotal

ASSUME NoItemAssumption == NoItem \notin Items

VARIABLES queue,    \* _queues: household -> waiting items, oldest first
          worker,   \* _workers: "none", "spawned" (task not yet run), "busy"
          running,  \* the item its household's worker has extracted
          counts,   \* _counts
          total,    \* _total
          gate,    \* "open"; "draining" after close() drained the queues;
                    \* "closed" once close() returned
          home,     \* the household an item was submitted to
          future,   \* item -> its future
          caller    \* item -> what its submit() call is doing

queueVars == <<queue, worker, running, counts, total, gate, home, future, caller>>

FutureStates == {"absent", "pending", "result", "error", "closed", "cancelled"}
CallerStates == {"idle", "waiting", "cancelling", "returned", "raised", "refused"}

QueueInit ==
    /\ queue = [h \in Households |-> <<>>]
    /\ worker = [h \in Households |-> "none"]
    /\ running = [h \in Households |-> NoItem]
    /\ counts = [h \in Households |-> 0]
    /\ total = 0
    /\ gate = "open"
    /\ home \in [Items -> Households]
    /\ future = [i \in Items |-> "absent"]
    /\ caller = [i \in Items |-> "idle"]

Full(h) == counts[h] >= MaxPerHousehold \/ total >= MaxTotal

\* Mutant: the new queue gets no worker task.
EnsureNoWorker(h) == UNCHANGED worker

EnsureWorker(h) == worker' = [worker EXCEPT ![h] = IF @ = "none" THEN "spawned" ELSE @]

\* submit() up to its await: admitted, and the household's worker exists.
Submit(i) ==
    LET h == home[i] IN
    /\ caller[i] = "idle"
    /\ gate = "open"
    /\ ~Full(h)
    /\ queue' = [queue EXCEPT ![h] = Append(@, i)]
    /\ counts' = [counts EXCEPT ![h] = @ + 1]
    /\ total' = total + 1
    /\ EnsureWorker(h)
    /\ future' = [future EXCEPT ![i] = "pending"]
    /\ caller' = [caller EXCEPT ![i] = "waiting"]
    /\ UNCHANGED <<running, gate, home>>

\* submit() refused: QueueClosed or QueueOverloaded.
SubmitRefused(i) ==
    /\ caller[i] = "idle"
    /\ gate # "open" \/ Full(home[i])
    /\ caller' = [caller EXCEPT ![i] = "refused"]
    /\ UNCHANGED <<queue, worker, running, counts, total, gate, home, future>>

\* The shielded await ends because the future is done.
Return(i) ==
    /\ caller[i] = "waiting"
    /\ future[i] \notin {"absent", "pending"}
    /\ caller' = [caller EXCEPT ![i] = IF future[i] = "result" THEN "returned" ELSE "raised"]
    /\ UNCHANGED <<queue, worker, running, counts, total, gate, home, future>>

\* Mutant: one item gives back two places.
ReleaseTwice(h) ==
    /\ counts' = [counts EXCEPT ![h] = @ - 2]
    /\ total' = total - 2

\* _release_capacity.
ReleaseCapacity(h) ==
    /\ counts' = [counts EXCEPT ![h] = @ - 1]
    /\ total' = total - 1

\* The caller is cancelled while its item still waits: the item is withdrawn.
CancelQueued(i) ==
    LET h == home[i] IN
    /\ caller[i] = "waiting"
    /\ \E k \in 1..Len(queue[h]) :
          /\ queue[h][k] = i
          /\ queue' = [queue EXCEPT ![h] = RemoveAt(@, k)]
    /\ ReleaseCapacity(h)
    /\ future' = [future EXCEPT ![i] = "cancelled"]
    /\ caller' = [caller EXCEPT ![i] = "raised"]
    /\ UNCHANGED <<worker, running, gate, home>>

\* The caller is cancelled after extraction (or after the queue was drained):
\* it keeps waiting for the future.
CancelExtracted(i) ==
    /\ caller[i] = "waiting"
    /\ \A k \in 1..Len(queue[home[i]]) : queue[home[i]][k] # i
    /\ caller' = [caller EXCEPT ![i] = "cancelling"]
    /\ UNCHANGED <<queue, worker, running, counts, total, gate, home, future>>

\* The cancelled caller re-raises once the future is done.
RaiseCancelled(i) ==
    /\ caller[i] = "cancelling"
    /\ future[i] # "pending"
    /\ caller' = [caller EXCEPT ![i] = "raised"]
    /\ UNCHANGED <<queue, worker, running, counts, total, gate, home, future>>

\* The head of _run's loop: extract the oldest item, or leave the tables.
TakeNext(h) ==
    IF queue[h] = <<>>
      THEN /\ worker' = [worker EXCEPT ![h] = "none"]
           /\ running' = [running EXCEPT ![h] = NoItem]
           /\ UNCHANGED queue
      ELSE /\ worker' = [worker EXCEPT ![h] = "busy"]
           /\ running' = [running EXCEPT ![h] = Head(queue[h])]
           /\ queue' = [queue EXCEPT ![h] = Tail(@)]

WorkerStart(h) ==
    /\ worker[h] = "spawned"
    /\ TakeNext(h)
    /\ UNCHANGED <<counts, total, gate, home, future, caller>>

\* The extracted work ends with a result or an exception.
WorkerFinish(h, outcome) ==
    LET i == running[h] IN
    /\ worker[h] = "busy"
    /\ future' = [future EXCEPT ![i] = IF @ = "pending" THEN outcome ELSE @]
    /\ ReleaseCapacity(h)
    /\ TakeNext(h)
    /\ UNCHANGED <<gate, home, caller>>

Waiting(i) == \E k \in 1..Len(queue[home[i]]) : queue[home[i]][k] = i

\* Mutant: drained items never learn of it.
DrainedForgotten == future

\* The futures after close() has drained the queues.
DrainedFutures == [i \in Items |-> IF Waiting(i) THEN "closed" ELSE future[i]]

\* close() up to the drain of the workers.
CloseBegin ==
    /\ gate = "open"
    /\ gate' = "draining"
    /\ queue' = [h \in Households |-> <<>>]
    /\ counts' = [h \in Households |-> counts[h] - Len(queue[h])]
    /\ total' = total - Cardinality({i \in Items : Waiting(i)})
    /\ future' = DrainedFutures
    /\ UNCHANGED <<worker, running, home, caller>>

WorkersEnded == \A h \in Households : worker[h] = "none"

\* close() after every worker of its snapshot has ended: the tables are cleared.
CloseEnd ==
    /\ gate = "draining"
    /\ WorkersEnded
    /\ gate' = "closed"
    /\ queue' = [h \in Households |-> <<>>]
    /\ counts' = [h \in Households |-> 0]
    /\ total' = 0
    /\ UNCHANGED <<worker, running, home, future, caller>>

Worker(h) == WorkerStart(h) \/ \E outcome \in {"result", "error"} : WorkerFinish(h, outcome)
Wakeup(i) == Return(i) \/ RaiseCancelled(i)

QueueNext ==
    \/ \E i \in Items : \/ Submit(i) \/ SubmitRefused(i) \/ Return(i)
                        \/ CancelQueued(i) \/ CancelExtracted(i) \/ RaiseCancelled(i)
    \/ \E h \in Households : Worker(h)
    \/ CloseBegin \/ CloseEnd

\* The event loop runs every ready task, and adapters bound their calls by a
\* timeout, so a worker ends its item; callers submit or cancel as they like.
QueueFairness ==
    /\ \A h \in Households : WF_queueVars(Worker(h))
    /\ \A i \in Items : WF_queueVars(Wakeup(i))
    /\ WF_queueVars(CloseEnd)

QueueSpec == QueueInit /\ [][QueueNext]_queueVars
QueueFairSpec == QueueSpec /\ QueueFairness

-----------------------------------------------------------------------------
\* Type correctness of the tables of HouseholdWorkQueues.
QueueTypeOK ==
    /\ queue \in [Households -> Seq(Items)]
    /\ worker \in [Households -> {"none", "spawned", "busy"}]
    /\ running \in [Households -> Items \cup {NoItem}]
    /\ counts \in [Households -> Nat]
    /\ total \in Nat
    /\ gate \in {"open", "draining", "closed"}
    /\ home \in [Items -> Households]
    /\ future \in [Items -> FutureStates]
    /\ caller \in [Items -> CallerStates]

Occupied(h) == Len(queue[h]) + (IF worker[h] = "busy" THEN 1 ELSE 0)

\* Capacity accounting is exact: a household's count is its waiting items plus
\* the one being run, through cancellation, draining and worker exit
\* (household_queue.py:66, 77, 102, 141).
\* The total counts the futures that are pending in any household, and both
\* bounds hold (household_queue.py:61).
CountsAreExact ==
    /\ \A h \in Households : counts[h] = Occupied(h)
    /\ total = Cardinality({i \in Items : future[i] = "pending"})
    /\ total <= MaxTotal
    /\ \A h \in Households : counts[h] <= MaxPerHousehold

\* No item is stranded: whatever waits in a queue has a live worker task that
\* will reach it (household_queue.py:68, 127-130).
WaitingWorkHasWorker ==
    \A h \in Households : queue[h] # <<>> => worker[h] # "none"

\* "Do not abandon it while it may still be acting": the submit() call of an
\* extracted item does not end before the work does (household_queue.py:80-91).
RunningWorkIsAwaited ==
    \A h \in Households :
        worker[h] = "busy" =>
            /\ running[h] \in Items
            /\ home[running[h]] = h
            /\ caller[running[h]] \in {"waiting", "cancelling"}
            /\ future[running[h]] = "pending"

\* Nothing acts after close() has returned (household_queue.py:106-119).
ClosedMeansQuiet ==
    gate = "closed" => \A h \in Households : worker[h] = "none" /\ queue[h] = <<>>

\* Work that was admitted is counted and tended to its end: what waits has a
\* worker, what runs has its caller, and nothing is left when close() returns.
WorkIsTended ==
    CountsAreExact /\ WaitingWorkHasWorker /\ RunningWorkIsAwaited /\ ClosedMeansQuiet

\* Every admitted call ends, whatever is cancelled or closed meanwhile.
EveryCallEnds ==
    \A i \in Items : caller[i] \in {"waiting", "cancelling"} ~> caller[i] \in {"returned", "raised"}
=============================================================================
