----------------------------- MODULE AuditOutbox -----------------------------
(***************************************************************************)
(* Delivery of critical audit events from the durable outbox:              *)
(*   persistence/audit_outbox.py    AuditOutboxDispatcher.dispatch_once     *)
(*   persistence/repositories.py    AuditEventRepository                   *)
(*   application/runtime_factory.py run_audit_outbox_dispatcher            *)
(*                                                                         *)
(* The hosts that share a database each run one dispatcher.  A dispatcher  *)
(* claims pending rows under a lease, then hands them to the destination   *)
(* one by one and marks each.  Time enters through the end of a lease.     *)
(* Every repository call is one transaction and may fail; the destination  *)
(* may refuse, and may accept an event whose acceptance is then lost.      *)
(***************************************************************************)
EXTENDS Naturals, Sequences, FiniteSets, SequencesExt

CONSTANTS
    Events,        \* critical audit events
    Dispatchers,   \* one per host
    NoDispatcher,
    BatchSize,     \* audit_outbox_batch_size
    MaxTrouble     \* bound on crashes, refusals, storage faults and lapsed leases

ASSUME OutboxAssumption ==
    /\ NoDispatcher \notin Dispatchers
    /\ BatchSize \in Nat \ {0} /\ MaxTrouble \in Nat

VARIABLES
    outbox,     \* audit_outbox in sequence order: [event, status, holder, lapsed]
    batch,      \* dispatcher -> the events of its dispatch_once still to be handled
    handling,   \* dispatcher -> how far it is with the first of them
    received,   \* event -> times the destination accepted it
    excuse,     \* event -> times its lease ran out, or its acceptance was lost
    trouble     \* troubles so far

outboxVars == <<outbox, batch, handling, received, excuse, trouble>>

OutboxStatus == {"pending", "delivered"}
Handling == {"next", "accepted", "failed"}

OutboxInit ==
    /\ outbox = <<>>
    /\ batch = [d \in Dispatchers |-> <<>>]
    /\ handling = [d \in Dispatchers |-> "next"]
    /\ received = [e \in Events |-> 0]
    /\ excuse = [e \in Events |-> 0]
    /\ trouble = 0

Excused(es) == [e \in Events |-> excuse[e] + (IF e \in es THEN 1 ELSE 0)]

-----------------------------------------------------------------------------
(* append_event: the event and its outbox row are committed together.       *)
AppendEvent(e) ==
    /\ \A i \in DOMAIN outbox : outbox[i].event # e
    /\ outbox' = Append(outbox, [event |-> e, status |-> "pending",
                                 holder |-> NoDispatcher, lapsed |-> FALSE])
    /\ UNCHANGED <<batch, handling, received, excuse, trouble>>

\* claim_pending_outbox, the predicate of the SELECT and of the UPDATE.
\* Mutant: a lease is never seen to run out.
ClaimableFresh(r) == r.status = "pending" /\ r.holder = NoDispatcher
ClaimableRow(r) == r.status = "pending" /\ (r.holder = NoDispatcher \/ r.lapsed)

\* The rows one claim takes, the oldest first, at most limit of them.
Claims(i) ==
    /\ ClaimableRow(outbox[i])
    /\ Cardinality({j \in 1..i : ClaimableRow(outbox[j])}) <= BatchSize

\* dispatch_once up to its loop: the claim, one transaction.
ClaimPendingOutbox(d) ==
    LET mine == {i \in DOMAIN outbox : Claims(i)}
    IN  /\ batch[d] = <<>> /\ mine # {}
        /\ outbox' = [i \in DOMAIN outbox |->
                        IF i \in mine THEN [outbox[i] EXCEPT !.holder = d, !.lapsed = FALSE]
                                      ELSE outbox[i]]
        /\ \E order \in Bijection(1..Cardinality(mine), mine) :
             /\ \A m, n \in DOMAIN order : m < n => order[m] < order[n]
             /\ batch' = [batch EXCEPT ![d] = [n \in DOMAIN order |-> outbox[order[n]].event]]
        /\ UNCHANGED <<handling, received, excuse, trouble>>

-----------------------------------------------------------------------------
(* One pass of the loop.                                                    *)

\* The destination takes the event.
Deliver(d) ==
    /\ batch[d] # <<>> /\ handling[d] = "next"
    /\ handling' = [handling EXCEPT ![d] = "accepted"]
    /\ received' = [received EXCEPT ![Head(batch[d])] = @ + 1]
    /\ UNCHANGED <<outbox, batch, excuse, trouble>>

\* It refuses, or it takes the event and its answer is lost.
DeliverFails(d) ==
    /\ batch[d] # <<>> /\ handling[d] = "next" /\ trouble < MaxTrouble
    /\ handling' = [handling EXCEPT ![d] = "failed"]
    /\ \/ UNCHANGED <<received, excuse>>
       \/ /\ received' = [received EXCEPT ![Head(batch[d])] = @ + 1]
          /\ excuse' = Excused({Head(batch[d])})
    /\ trouble' = trouble + 1
    /\ UNCHANGED <<outbox, batch>>

\* The rows a completion or a retry updates: the lease must still be the caller's.
HeldBy(r, d) == r.status = "pending" /\ r.holder = d

Unlease(d, status) ==
    [i \in DOMAIN outbox |->
        IF outbox[i].event = Head(batch[d]) /\ HeldBy(outbox[i], d)
        THEN [outbox[i] EXCEPT !.status = status, !.holder = NoDispatcher, !.lapsed = FALSE]
        ELSE outbox[i]]

NextEvent(d) ==
    /\ batch' = [batch EXCEPT ![d] = Tail(@)]
    /\ handling' = [handling EXCEPT ![d] = "next"]

\* Mutant: what the destination refused is marked as delivered too.
MarkWhatever(d) == handling[d] \in {"accepted", "failed"}
MayMark(d) == handling[d] = "accepted"

\* mark_outbox_delivered.
MarkOutboxDelivered(d) ==
    /\ batch[d] # <<>> /\ MayMark(d)
    /\ outbox' = Unlease(d, "delivered")
    /\ NextEvent(d)
    /\ UNCHANGED <<received, excuse, trouble>>

\* It raises: the except branch takes the event for undelivered.
MarkFails(d) ==
    /\ batch[d] # <<>> /\ handling[d] = "accepted" /\ trouble < MaxTrouble
    /\ handling' = [handling EXCEPT ![d] = "failed"]
    /\ excuse' = Excused({Head(batch[d])})
    /\ trouble' = trouble + 1
    /\ UNCHANGED <<outbox, batch, received>>

\* record_outbox_retry.
RecordOutboxRetry(d) ==
    /\ batch[d] # <<>> /\ handling[d] = "failed"
    /\ outbox' = Unlease(d, "pending")
    /\ NextEvent(d)
    /\ UNCHANGED <<received, excuse, trouble>>

\* The retry raises, or the host dies: the rest of the batch is left to its lease.
AbandonBatch(d) ==
    /\ batch[d] # <<>> /\ trouble < MaxTrouble
    /\ batch' = [batch EXCEPT ![d] = <<>>]
    /\ handling' = [handling EXCEPT ![d] = "next"]
    /\ trouble' = trouble + 1
    /\ UNCHANGED <<outbox, received, excuse>>

-----------------------------------------------------------------------------
\* A lease runs out.  That excuses a repeat when its dispatcher is
\* still at work, or when it left a row it had delivered unmarked.
LeaseEnds(i) ==
    LET d == outbox[i].holder
        live == d # NoDispatcher /\ \E n \in DOMAIN batch[d] : batch[d][n] = outbox[i].event
    IN  /\ d # NoDispatcher /\ ~outbox[i].lapsed
        /\ live => trouble < MaxTrouble
        /\ outbox' = [outbox EXCEPT ![i].lapsed = TRUE]
        /\ excuse' = Excused(IF live \/ received[outbox[i].event] > 0
                              THEN {outbox[i].event} ELSE {})
        /\ trouble' = IF live THEN trouble + 1 ELSE trouble
        /\ UNCHANGED <<batch, handling, received>>

\* run_audit_outbox_dispatcher goes on polling whatever a dispatch does.
DispatchStep(d) ==
    \/ ClaimPendingOutbox(d)
    \/ Deliver(d)
    \/ MarkOutboxDelivered(d)
    \/ RecordOutboxRetry(d)

OutboxNext ==
    \/ \E e \in Events : AppendEvent(e)
    \/ \E d \in Dispatchers : DispatchStep(d) \/ DeliverFails(d) \/ MarkFails(d) \/ AbandonBatch(d)
    \/ \E i \in DOMAIN outbox : LeaseEnds(i)

OutboxSpec == OutboxInit /\ [][OutboxNext]_outboxVars

\* Dispatchers poll, and leases run out.
OutboxFairness ==
    /\ \A d \in Dispatchers : WF_outboxVars(DispatchStep(d))
    /\ \A n \in 1..Cardinality(Events) : WF_outboxVars(n \in DOMAIN outbox /\ LeaseEnds(n))

-----------------------------------------------------------------------------
OutboxTypeOK ==
    /\ \A i \in DOMAIN outbox :
         outbox[i] \in [event: Events, status: OutboxStatus,
                        holder: Dispatchers \cup {NoDispatcher}, lapsed: BOOLEAN]
    /\ batch \in [Dispatchers -> Seq(Events)]
    /\ handling \in [Dispatchers -> Handling]
    /\ received \in [Events -> Nat] /\ excuse \in [Events -> Nat]

\* A row says delivered only when the destination took the event
\* (dispatch_once marks after the callback, under the lease it claimed with).
DeliveredWasReceived ==
    \A i \in DOMAIN outbox : outbox[i].status = "delivered" => received[outbox[i].event] > 0

\* The destination sees an event again only when its lease ran out or its
\* acceptance was not recorded: leases keep two dispatchers apart, and a late
\* dispatcher cannot release the lease of the one that took over from it
\* (claim_pending_outbox, mark_outbox_delivered, record_outbox_retry).
RepeatsAreExcused ==
    \A e \in Events : received[e] <= 1 + excuse[e]

\* The outbox is truthful both ways: nothing is marked that was not taken, and
\* nothing is repeated without cause.
DeliveryIsAccounted == DeliveredWasReceived /\ RepeatsAreExcused

\* Every critical event reaches the destination and is marked, across refusals,
\* storage faults, dead hosts and lapsed leases.
EventsAreDelivered ==
    \A e \in Events :
        (\E i \in DOMAIN outbox : outbox[i].event = e)
            ~> (\E i \in DOMAIN outbox : outbox[i].event = e /\ outbox[i].status = "delivered")
=============================================================================
