----------------------------- MODULE StateIngest -----------------------------
(***************************************************************************)
(* From a source's events to the durable state store:                      *)
(*   runtime/composite_adapter.py      the two event queues                *)
(*   application/event_consumer.py     SourceEventConsumer                 *)
(*   application/discovery_service.py  save_state_snapshots,               *)
(*                                     apply_source_availability           *)
(*   runtime/state_store.py            StateStore                          *)
(*   application/executor.py           _readback, beside the consumer      *)
(*                                                                         *)
(* One source with an event stream.  A reading is a value and the time its *)
(* adapter received it.  Changes of the world are numbered, so a value is  *)
(* right exactly when it is the number of the last change.                 *)
(***************************************************************************)
EXTENDS Integers, Sequences, FiniteSets

CONSTANTS
    Points,        \* (device, capability) pairs
    NoReading,
    QueueMax,      \* event_queue_max_size
    StaleAfter,    \* stale_after
    Budgets        \* bounds: how often each of Bounded may happen in a behaviour

\* A reading as it arrives, and a snapshot as it is stored.
Readings == [value : Nat, at : Nat]
Snapshots == [value : Nat, status : {"current", "stale", "unavailable"}, at : Nat, version : Nat]

\* Changes of the world, ticks of time, readbacks, lost links, failed writes, restarts.
Bounded == {"changes", "ticks", "reads", "breaks", "failures", "restarts"}

ASSUME StateAssumption ==
    /\ IsFiniteSet(Points)
    /\ NoReading \notin Readings /\ NoReading \notin Snapshots
    /\ QueueMax \in Nat \ {0}
    /\ StaleAfter \in Nat /\ Budgets \subseteq [Bounded -> Nat]

VARIABLES
    time,
    world,      \* point -> [value, at]: what is true, and since when
    linked,     \* the source's stream is connected
    pending,    \* bulk_pending: point -> the reading waiting to be applied
    bulk,       \* bulk_queue: points in order
    priority,   \* priority_queue: "lost" and "found", stream errors and reconnects
    store,      \* the StateStore in memory: [snap, counter, boot]
    disk,       \* its persisted snapshots and metadata: [snap, counter]
    job,        \* "consumer", "reader" -> the store operation it is about to do
    commit,     \* the holder of the mutation lock, its candidate and the points it writes
    late,       \* writes whose caller timed out, still in the storage queue
    astray,     \* history: points whose row such a write put on disk
    muddled,    \* history: points astray when the runtime was restarted
    named,      \* history: <<point, version, value>> ever current in memory
    budget        \* what is left of the bounds

behind == <<late, astray, muddled>>
stateVars == <<time, world, linked, pending, bulk, priority, store, disk, job, commit,
               behind, named, budget>>

Actors == {"consumer", "reader"}
NoJob == [kind |-> "none"]
SaveJob(rs) == [kind |-> "save", readings |-> rs]
LostJob == [kind |-> "lost"]
NoCommit == [by |-> "nobody"]
Unknown == [value |-> 0, status |-> "unavailable", at |-> 0, version |-> 0]

StateInit ==
    /\ time = 0 /\ linked = TRUE
    /\ world = [k \in Points |-> [value |-> 1, at |-> 0]]
    /\ pending = [k \in Points |-> NoReading] /\ bulk = <<>> /\ priority = <<>>
    /\ disk = [snap |-> [k \in Points |-> Unknown], counter |-> 0]
    /\ store = [snap |-> disk.snap, counter |-> 0, boot |-> [k \in Points |-> NoReading]]
    /\ job = [a \in Actors |-> NoJob] /\ commit = NoCommit
    /\ late = {} /\ astray = {} /\ muddled = {} /\ named = {}
    /\ budget \in Budgets

Bound(x) == budget[x] > 0 /\ budget' = [budget EXCEPT ![x] = @ - 1]

Queued == {k \in Points : pending[k] # NoReading}
ReadNow(k) == [value |-> world[k].value, at |-> time]
ReadAll == [k \in Points |-> ReadNow(k)]
Only(k, r) == [j \in Points |-> IF j = k THEN r ELSE NoReading]

-----------------------------------------------------------------------------
(* The source and the pump of CompositeAdapter._event_stream.               *)

\* A state event: the newest reading of a point replaces the one waiting; a new
\* point finds room or is dropped.
Pump(k, r) ==
    /\ pending' = IF k \in Queued \/ Cardinality(Queued) < QueueMax
                  THEN [pending EXCEPT ![k] = r] ELSE pending
    /\ bulk' = IF k \notin Queued /\ Cardinality(Queued) < QueueMax
               THEN Append(bulk, k) ELSE bulk

\* The number of the next change; each gives its point a value of its own.
NextChange(n) ==
    /\ \A j \in Points : world[j].value < n
    /\ \E j \in Points : world[j].value = n - 1

\* The world changes, and a connected source says so.
Change(k) ==
    /\ Bound("changes")
    /\ \E n \in {world[j].value + 1 : j \in Points} :
         /\ NextChange(n)
         /\ world' = [world EXCEPT ![k] = [value |-> n, at |-> time]]
         /\ IF linked THEN Pump(k, [value |-> n, at |-> time])
                      ELSE UNCHANGED <<pending, bulk>>
    /\ UNCHANGED <<time, linked, priority, store, disk, job, commit, behind, named>>

\* The stream fails, and so may the attempts to reconnect.
LoseLink ==
    /\ Bound("breaks")
    /\ linked' = FALSE /\ priority' = Append(priority, "lost")
    /\ UNCHANGED <<time, world, pending, bulk, store, disk, job, commit, behind, named>>

Reconnect ==
    /\ ~linked
    /\ linked' = TRUE /\ priority' = Append(priority, "found")
    /\ UNCHANGED <<time, world, pending, bulk, store, disk, job, commit, behind, named,
                   budget>>

-----------------------------------------------------------------------------
(* The consumer applies one event at a time, structural ones first.         *)

Give(a, j) == job' = [job EXCEPT ![a] = j]

ConsumePriority ==
    /\ job["consumer"] = NoJob /\ priority # <<>>
    /\ priority' = Tail(priority)
    /\ CASE Head(priority) = "lost" -> Give("consumer", LostJob)
         [] linked /\ Head(priority) = "found" -> Give("consumer", SaveJob(ReadAll))
         [] OTHER -> UNCHANGED job                     \* the read fails
    /\ UNCHANGED <<time, world, linked, pending, bulk, store, disk, commit, behind, named,
                   budget>>

ConsumeState ==
    /\ job["consumer"] = NoJob /\ priority = <<>> /\ bulk # <<>>
    /\ bulk' = Tail(bulk)
    /\ pending' = [pending EXCEPT ![Head(bulk)] = NoReading]
    /\ Give("consumer", SaveJob(Only(Head(bulk), pending[Head(bulk)])))
    /\ UNCHANGED <<time, world, linked, priority, store, disk, commit, behind, named,
                   budget>>

\* _readback of an execution: a live read, then StateStore.save.
ReadbackPoint(k) ==
    /\ job["reader"] = NoJob /\ linked /\ Bound("reads")
    /\ Give("reader", SaveJob(Only(k, ReadNow(k))))
    /\ UNCHANGED <<time, world, linked, pending, bulk, priority, store, disk, commit,
                   behind, named>>

-----------------------------------------------------------------------------
(* StateStore: candidates, one at a time under the mutation lock.           *)

\* _is_older_unordered_observation.
Older(r, s) == s.version # 0 /\ r.at < s.at

Accepted(rs) == {k \in Points : rs[k] # NoReading /\ ~Older(rs[k], store.snap[k])}

\* A value is new when it differs from the last one, or, for the first reading
\* after a restart, from the one that was persisted.
Changed(k, r) ==
    LET s == store.snap[k]
        b == store.boot[k]
    IN  \/ s.version = 0
        \/ IF b = NoReading THEN s.value # r.value \/ s.status # "current"
                            ELSE b.value # r.value \/ b.status # "current"

\* The points ks get new versions, the numbers after the counter's n in some order.
Numbering(n, ks) ==
    CHOOSE f \in [ks -> n + 1 .. n + Cardinality(ks)] :
        \A i, j \in ks : i # j => f[i] # f[j]

\* Snapshots, versions and counter after readings of the points acc.
Stored(rs, acc) ==
    LET new == {k \in acc : Changed(k, rs[k])}
        nr  == Numbering(store.counter, new)
    IN  [snap |-> [k \in Points |->
                     IF k \in acc
                     THEN [value |-> rs[k].value, status |-> "current", at |-> rs[k].at,
                           version |-> IF k \in new THEN nr[k] ELSE store.snap[k].version]
                     ELSE store.snap[k]],
         counter |-> store.counter + Cardinality(new),
         boot |-> [k \in Points |-> IF k \in acc THEN NoReading ELSE store.boot[k]]]

\* mark_source_unavailable: every known point of the source loses its value.
Markable == {k \in Points : store.snap[k].version # 0 /\ store.snap[k].status # "unavailable"}

MarkedUnavailable ==
    LET hit == Markable
        nr  == Numbering(store.counter, hit)
    IN  [snap |-> [k \in Points |->
                     IF k \in hit
                     THEN [value |-> 0, status |-> "unavailable", at |-> store.snap[k].at,
                           version |-> nr[k]]
                     ELSE store.snap[k]],
         counter |-> store.counter + Cardinality(hit),
         boot |-> store.boot]

\* The lock is taken and the candidate computed; readings that are all older
\* than what is stored end here.
BeginCommit(a) ==
    LET j == job[a]
    IN  /\ commit = NoCommit /\ j # NoJob
        /\ IF j.kind = "save" /\ Accepted(j.readings) = {}
           THEN Give(a, NoJob) /\ UNCHANGED commit
           ELSE /\ commit' = [by |-> a, cancelled |-> FALSE, landed |-> FALSE,
                              next |-> IF j.kind = "save" THEN Stored(j.readings, Accepted(j.readings))
                                                          ELSE MarkedUnavailable,
                              of |-> IF j.kind = "save" THEN Accepted(j.readings) ELSE Markable]
                /\ UNCHANGED job
        /\ UNCHANGED <<time, world, linked, pending, bulk, priority, store, disk, behind,
                       named, budget>>

\* What a commit writes, and the disk after it: in one transaction the snapshots
\* of the points it is about, and the metadata with every point's version.
WriteOf(c) == [snap |-> c.next.snap, counter |-> c.next.counter, of |-> c.of]

Written(w) ==
    [snap |-> [k \in Points |-> IF k \in w.of THEN w.snap[k]
                                ELSE [disk.snap[k] EXCEPT !.version = w.snap[k].version]],
     counter |-> w.counter]

\* The storage queue is served in order: late writes first.
Land ==
    /\ commit # NoCommit /\ ~commit.landed /\ late = {}
    /\ disk' = Written(WriteOf(commit))
    /\ commit' = [commit EXCEPT !.landed = TRUE]
    /\ UNCHANGED <<time, world, linked, pending, bulk, priority, store, job, behind, named,
                   budget>>

\* A write that nobody waits for any more reaches the disk.
LandLate ==
    /\ \E w \in late : /\ disk' = Written(w) /\ late' = late \ {w}
                       /\ astray' = astray \cup w.of
    /\ UNCHANGED <<time, world, linked, pending, bulk, priority, store, job, commit, muddled,
                   named, budget>>

\* The caller is cancelled: the write is drained, and installed like any other.
CancelReader ==
    /\ job["reader"] # NoJob
    /\ IF commit.by = "reader"
       THEN commit' = [commit EXCEPT !.cancelled = TRUE] /\ UNCHANGED job
       ELSE Give("reader", NoJob) /\ UNCHANGED commit
    /\ UNCHANGED <<time, world, linked, pending, bulk, priority, store, disk, behind, named,
                   budget>>

\* _install_candidate.  Mutant: a cancelled caller's candidate is thrown away.
CandidateUnlessCancelled == IF commit.cancelled THEN store ELSE commit.next
Candidate == commit.next

Install ==
    /\ commit # NoCommit /\ commit.landed
    /\ store' = Candidate
    /\ named' = named \cup {<<k, Candidate.snap[k].version, Candidate.snap[k].value>> :
                              k \in {j \in Points : Candidate.snap[j].status = "current"}}
    /\ Give(commit.by, NoJob) /\ commit' = NoCommit
    /\ astray' = astray \ commit.of
    /\ UNCHANGED <<time, world, linked, pending, bulk, priority, disk, late, muddled, budget>>

\* The write fails, or its caller times out and leaves it in the storage queue, and
\* nothing is installed.  The consumer's loop then leaves the stream, whose queues
\* go with it, and marks the source unavailable.
WriteFails ==
    /\ commit # NoCommit /\ ~commit.landed /\ Bound("failures")
    /\ commit' = NoCommit
    /\ late' \in {late, late \cup {WriteOf(commit)}}
    /\ IF commit.by = "consumer"
       THEN /\ Give("consumer", IF job["consumer"].kind = "lost" THEN NoJob ELSE LostJob)
            /\ pending' = [k \in Points |-> NoReading] /\ bulk' = <<>> /\ priority' = <<>>
       ELSE Give("reader", NoJob) /\ UNCHANGED <<pending, bulk, priority>>
    /\ UNCHANGED <<time, world, linked, store, disk, astray, muddled, named>>

RestoredCounter == disk.counter

\* Rows that the metadata gives no version.
Nameless == {k \in Points : disk.snap[k] # Unknown /\ disk.snap[k].version = 0}

\* restore_metadata and load_persisted: a nameless row gets a new version.
Restored ==
    LET nr == Numbering(RestoredCounter, Nameless)
    IN  [snap |-> [k \in Points |->
                     IF disk.snap[k] = Unknown THEN Unknown
                     ELSE [disk.snap[k] EXCEPT !.status = "stale",
                              !.version = IF k \in Nameless THEN nr[k] ELSE @]],
         counter |-> RestoredCounter + Cardinality(Nameless),
         boot |-> [k \in Points |-> IF disk.snap[k] = Unknown THEN NoReading ELSE disk.snap[k]]]

\* The runtime dies, its queue of writes with it, and starts again.
RestartRuntime ==
    /\ Bound("restarts")
    /\ store' = Restored
    /\ late' = {} /\ astray' = {} /\ muddled' = muddled \cup astray
    /\ pending' = [k \in Points |-> NoReading] /\ bulk' = <<>> /\ priority' = <<>>
    /\ job' = [a \in Actors |-> NoJob] /\ commit' = NoCommit
    /\ linked' = TRUE
    /\ UNCHANGED <<time, world, disk, named>>

TimePasses ==
    /\ Bound("ticks") /\ time' = time + 1
    /\ UNCHANGED <<world, linked, pending, bulk, priority, store, disk, job, commit,
                   behind, named>>

StateNext ==
    \/ \E k \in Points : Change(k) \/ ReadbackPoint(k)
    \/ LoseLink \/ Reconnect
    \/ ConsumePriority \/ ConsumeState
    \/ \E a \in Actors : BeginCommit(a)
    \/ Land \/ LandLate \/ Install \/ CancelReader \/ WriteFails
    \/ RestartRuntime \/ TimePasses

StateSpec == StateInit /\ [][StateNext]_stateVars

-----------------------------------------------------------------------------
\* effective_status.
EffectiveStatus(k) ==
    IF store.snap[k].status = "current" /\ time - store.snap[k].at > StaleAfter
    THEN "stale" ELSE store.snap[k].status

StateTypeOK ==
    /\ time \in Nat /\ linked \in BOOLEAN
    /\ \A k \in Points : /\ store.snap[k].version \in 0..store.counter
                         /\ store.snap[k].status \in {"current", "stale", "unavailable"}
    /\ Len(bulk) <= QueueMax
    /\ job["consumer"].kind \in {"none", "save", "lost"} /\ job["reader"].kind \in {"none", "save"}

\* While nobody commits, memory holds what is on disk, whichever caller was
\* cancelled, whichever write failed; after a restart all but the status, until
\* the first reading (_commit_candidate, _await_durable_operation).  Only the rows
\* of a write that came late may differ, until the next write of those points.
\* And one version never stands for two current values of a point, before or after
\* a restart, unless the restart found such a row: what a plan bound to a state
\* version was made for is what was read (_save_many_unlocked, restore_metadata,
\* load_persisted).
StoreIsCoherent ==
    /\ commit = NoCommit => \A k \in Points \ astray :
         \/ store.snap[k] = disk.snap[k]
         \/ /\ store.boot[k] # NoReading
            /\ store.snap[k] = [disk.snap[k] EXCEPT !.status = store.snap[k].status,
                                                    !.version = store.snap[k].version]
            /\ disk.snap[k].version \in {store.snap[k].version, 0}
    /\ \A a, b \in named : a[1] = b[1] /\ a[2] = b[2] /\ a[1] \notin muddled => a[3] = b[3]

\* A value that is given out as current and is no longer true became wrong at
\* most stale_after ago, whether its event was dropped, coalesced, overtaken by
\* a readback, lost with the stream or never sent (effective_status).
WrongIsBrief ==
    \A k \in Points :
        EffectiveStatus(k) = "current" /\ store.snap[k].value # world[k].value
            => time - world[k].at <= StaleAfter

\* No reading replaces one received later, in memory or across a restart
\* (_is_older_unordered_observation).
NeverBackwards ==
    [][\A k \in Points : store'.snap[k].at >= store.snap[k].at]_stateVars

\* What the store answers: durable, named by its version, wrong only briefly, and
\* never older than what it answered before.
ValuesAreHonest == [](StoreIsCoherent /\ WrongIsBrief) /\ NeverBackwards
=============================================================================
