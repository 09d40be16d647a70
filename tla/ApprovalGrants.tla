--------------------------- MODULE ApprovalGrants ---------------------------
(***************************************************************************)
(* The consent ledger of one household and the calls that use it           *)
(* (runtime/approval_store.py, the ApprovalGrantRepository of              *)
(* persistence/repositories.py, management/consent.py and the approval     *)
(* paths of mcp/domotics_server.py).                                       *)
(*                                                                         *)
(* Every repository method is one BEGIN IMMEDIATE transaction, hence one   *)
(* action.  A method that reads in one transaction and writes in another   *)
(* (issuing under a nonce, revoking under a control version, preparing a   *)
(* delivery under a control version) is two.                               *)
(*                                                                         *)
(* A grant is named by the attempt that issues it: an attempt saves at     *)
(* most one row, under a fresh approval_id.  A process that dies is a call *)
(* that takes no further step: nothing here is fair, so every behaviour    *)
(* with a crash after any transaction is among the behaviours checked.     *)
(***************************************************************************)
EXTENDS Naturals, FiniteSets

CONSTANTS
    Grants,        \* issuing attempts, and the approval_id each would save
    NoGrant,
    NonceOf,       \* assertion nonce of an attempt
    PlanOf,        \* the plan an attempt approves
    RequestOf,     \* request_id of an attempt or of a revoker, or NoRequest
    NoRequest,
    Callers,       \* tool calls that spend a grant
    KindOf,        \* "execute" | "deliver" | "schedule" | "recurring" | "rule"
    RecordOf,      \* reservation_id, which also names the record the call creates;
                   \* a delivery may be prepared under somebody's reservation
    NoRecord,
    Revokers,      \* callers of revoke_consent
    Resident,      \* the revokers that decide on a review, not on an approval_id
    TTL,           \* APPROVAL_TTL
    MaxTime        \* bound of the clock

Requests == {RequestOf[x] : x \in Grants \cup Revokers} \ {NoRequest}
Records  == {RecordOf[c] : c \in Callers} \ {NoRecord}
Kinds    == {"execute", "deliver", "schedule", "recurring", "rule"}
Holding  == {"schedule", "recurring", "rule"}

\* Schedules, recurrences and rules have tables of their own, but a reservation id
\* names a reservation whatever the kind of the call.
RowOf(c) == <<KindOf[c], RecordOf[c]>>
RecordRows == {RowOf(c) : c \in {d \in Callers : KindOf[d] \in Holding}}

ASSUME ApprovalAssumption ==
    /\ NoGrant \notin Grants
    /\ NoRequest \notin Requests
    /\ Grants \cap Revokers = {}
    /\ KindOf \in [Callers -> Kinds]
    /\ \A c \in Callers : /\ KindOf[c] \in Holding => RecordOf[c] # NoRecord
                          /\ KindOf[c] = "execute" => RecordOf[c] = NoRecord
    /\ \A v \in Revokers : RequestOf[v] # NoRequest
    /\ Resident \subseteq Revokers
    /\ TTL \in Nat \ {0} /\ MaxTime \in Nat

VARIABLES
    now,          \* the authority store's clock
    issuing,      \* where each issuing attempt stands
    grant,        \* approval_grants: status and valid_until
    hold,         \* approval_reservations: reservation_id and status
    revision,     \* consent_control_heads.revision
    revoked,      \* consent_revocations: what the row records
    receipt,      \* consent_receipts, per request_id
    permit,       \* consent_deliveries, per approval_id
    record,       \* the schedule, recurrence or rule a call creates
    call,         \* where each tool call stands
    revoking,     \* where each revoker stands
    spent,        \* history: who spent each grant
    acted         \* history: grants a physical dispatch was admitted on

books == <<grant, hold, revision, revoked, receipt, permit>>
approvalVars == <<now, issuing, books, record, call, revoking, spent, acted>>

NoRevocation == [by |-> NoRequest, at |-> 0, permits |-> {}]
NoReceipt    == [kind |-> "none", of |-> NoGrant, expected |-> 0]
Idle         == [pc |-> "idle", grant |-> NoGrant, version |-> 0]

LedgerInit ==
    /\ now = 0 /\ revision = 0
    /\ grant    = [g \in Grants |-> [status |-> "none", until |-> 0]]
    /\ hold     = [g \in Grants |-> [by |-> NoRecord, status |-> "none"]]
    /\ revoked  = [g \in Grants |-> NoRevocation]
    /\ receipt  = [r \in Requests |-> NoReceipt]
    /\ permit   = [g \in Grants |-> NoRequest]
    /\ record   = [r \in RecordRows |-> [status |-> "none", grant |-> NoGrant]]
    /\ revoking = [v \in Revokers |-> Idle]
    /\ spent    = [g \in Grants |-> {}]
    /\ acted    = {}

ApprovalInit ==
    LedgerInit /\ issuing = [g \in Grants |-> "idle"] /\ call = [c \in Callers |-> Idle]

-----------------------------------------------------------------------------
(* What the ledger says of a grant *)

Saved(g)     == grant[g].status # "none"
IsRevoked(g) == revoked[g].by # NoRequest

\* assert_consent_active_sync: saved, and no revocation row.  The generation of
\* the head never changes outside a restore, which is not modelled.
Active(g) == Saved(g) /\ ~IsRevoked(g)

Live(g) == grant[g].status = "pending" /\ now < grant[g].until

\* No reservation, or one that was given back.
Free(g) == hold[g].status \in {"none", "released"}

\* list_reservation_approval_ids_sync: every row that names the reservation,
\* whatever its status.
HeldUnder(r) == {g \in Grants : hold[g].by = r}

NonceUsed(n) == \E g \in Grants : Saved(g) /\ NonceOf[g] = n

\* Who spends a grant: the reservation a call goes by, or the call itself.
Use(c) == [via |-> IF RecordOf[c] # NoRecord THEN "hold" ELSE KindOf[c],
           by  |-> IF RecordOf[c] # NoRecord THEN RecordOf[c] ELSE c]

-----------------------------------------------------------------------------
(* Issuing: issue_assertion reads, then save_sync writes *)

\* A recorded request is answered from its receipt; a used nonce is refused.
IssueCheck(g) ==
    /\ issuing[g] = "idle"
    /\ issuing' = [issuing EXCEPT ![g] =
         IF \/ NonceUsed(NonceOf[g])
            \/ RequestOf[g] # NoRequest /\ receipt[RequestOf[g]].kind = "approval"
         THEN "refused" ELSE "checked"]
    /\ UNCHANGED <<now, books, record, call, revoking, spent, acted>>

RequestTaken(g) == RequestOf[g] # NoRequest /\ receipt[RequestOf[g]] # NoReceipt

\* The unique index on the nonce and the primary key of the receipts.
Duplicate(g) == NonceUsed(NonceOf[g]) \/ RequestTaken(g)

\* Both decide again, in one transaction with the grant.  The lifetime is the least of the assertion's,
\* the validation's and the server's.
IssueSave(g) ==
    /\ issuing[g] = "checked"
    /\ IF Duplicate(g)
       THEN /\ issuing' = [issuing EXCEPT ![g] = "refused"]
            /\ UNCHANGED <<grant, receipt>>
       ELSE /\ issuing' = [issuing EXCEPT ![g] = "saved"]
            /\ \E until \in (now + 1) .. (now + TTL) :
                 grant' = [grant EXCEPT ![g] = [status |-> "pending", until |-> until]]
            /\ receipt' = [r \in Requests |->
                 IF r = RequestOf[g] THEN [kind |-> "approval", of |-> g, expected |-> 0]
                 ELSE receipt[r]]
    /\ UNCHANGED <<now, hold, revision, revoked, permit, record, call, revoking, spent, acted>>

-----------------------------------------------------------------------------
(* execute_plan: consume, then the executor's admission *)

Proceed(c, pc) == call' = [call EXCEPT ![c].pc = pc]

\* consume: validate, then consume_if_pending_sync, whose transaction repeats
\* every condition of the validation.
Consumable(g) == Active(g) /\ Free(g) /\ Live(g)

ConsumeGrant(c, g) ==
    /\ KindOf[c] = "execute" /\ call[c].pc = "idle" /\ Saved(g)
    /\ call' = [call EXCEPT ![c] = [pc |-> IF Consumable(g) THEN "approved" ELSE "refused",
                                    grant |-> g, version |-> 0]]
    /\ IF Consumable(g)
       THEN /\ grant' = [grant EXCEPT ![g].status = "consumed"]
            /\ spent' = [spent EXCEPT ![g] = @ \cup {Use(c)}]
       ELSE UNCHANGED <<grant, spent>>
    /\ UNCHANGED <<now, issuing, hold, revision, revoked, receipt, permit,
                   record, revoking, acted>>

\* verify_consumed at the last admission before the physical write.
VerifyConsumed(g) == Active(g) /\ grant[g].status = "consumed" /\ now < grant[g].until

AdmitApproved(c) ==
    /\ call[c].pc = "approved"
    /\ LET g == call[c].grant IN
       IF VerifyConsumed(g)
       THEN Proceed(c, "done") /\ acted' = acted \cup {g}
       ELSE Proceed(c, "refused") /\ UNCHANGED acted
    /\ UNCHANGED <<now, issuing, books, record, revoking, spent>>

-----------------------------------------------------------------------------
(* prepare_delivery, under a control version read before *)

ReadControl(c, g) ==
    /\ KindOf[c] = "deliver" /\ call[c].pc = "idle" /\ Saved(g)
    /\ call' = [call EXCEPT ![c] = [pc |-> "read", grant |-> g, version |-> revision]]
    /\ UNCHANGED <<now, issuing, books, record, revoking, spent, acted>>

\* The idempotency key of a plan's command is claimed once, whichever grant.
IntentClaimed(p) == \E g \in Grants : permit[g] # NoRequest /\ PlanOf[g] = p

\* A delivery without a reservation finds the grant free, one that names a
\* reservation finds it held by that one.
Unhindered(c, g) ==
    IF RecordOf[c] = NoRecord THEN Free(g)
    ELSE hold[g] = [by |-> RecordOf[c], status |-> "reserved"]

Preparable(c, g) ==
    /\ call[c].version = revision
    /\ Live(g) /\ Unhindered(c, g)
    /\ ~IntentClaimed(PlanOf[g])

\* What a recorded delivery must still find when its request is repeated.
EvidenceStands(c, g) ==
    /\ permit[g] = c /\ grant[g].status = "consumed"
    /\ RecordOf[c] # NoRecord => hold[g] = [by |-> RecordOf[c], status |-> "committed"]

\* Revocation first, then the retry of a recorded request, then a new permit,
\* which commits the reservation it was prepared under.
PrepareDelivery(c) ==
    /\ call[c].pc = "read"
    /\ LET g == call[c].grant IN
       IF Active(g) /\ permit[g] # c /\ Preparable(c, g)
       THEN /\ grant' = [grant EXCEPT ![g].status = "consumed"]
            /\ hold' = IF RecordOf[c] = NoRecord THEN hold
                       ELSE [hold EXCEPT ![g].status = "committed"]
            /\ permit' = [permit EXCEPT ![g] = c]
            /\ spent' = [spent EXCEPT ![g] = @ \cup {Use(c)}]
            /\ Proceed(c, "prepared")
       ELSE /\ Proceed(c, IF Active(g) /\ EvidenceStands(c, g) THEN "prepared" ELSE "idle")
            /\ UNCHANGED <<grant, hold, permit, spent>>
    /\ UNCHANGED <<now, issuing, revision, revoked, receipt, record, revoking, acted>>

\* A caller that lost the answer sends the request again.
RetryDelivery(c) ==
    /\ call[c].pc = "prepared"
    /\ call' = [call EXCEPT ![c] =
         [pc |-> "read", grant |-> call[c].grant, version |-> revision]]
    /\ UNCHANGED <<now, issuing, books, record, revoking, spent, acted>>

-----------------------------------------------------------------------------
(* schedule_plan, schedule_recurring_plan, create_local_automation_rule:   *)
(* reserve, create the record, commit the reservation                      *)

Reservable(g, r) ==
    /\ Active(g) /\ Live(g)
    /\ Free(g) \/ hold[g] = [by |-> r, status |-> "reserved"]

\* An active recurrence with its authority is answered without reserving.
ReserveGrant(c, g) ==
    /\ KindOf[c] \in Holding /\ call[c].pc = "idle" /\ Saved(g)
    /\ KindOf[c] = "recurring" => record[RowOf(c)].status # "active"
    /\ IF Reservable(g, RecordOf[c])
       THEN /\ hold' = [hold EXCEPT ![g] = [by |-> RecordOf[c], status |-> "reserved"]]
            /\ call' = [call EXCEPT ![c] = [pc |-> "held", grant |-> g, version |-> 0]]
       ELSE /\ call' = [call EXCEPT ![c] = [pc |-> "refused", grant |-> g, version |-> 0]]
            /\ UNCHANGED hold
    /\ UNCHANGED <<now, issuing, grant, revision, revoked, receipt, permit,
                   record, revoking, spent, acted>>

\* The durable record is written, or something raises before or after the write
\* (a schedule is followed by its plan, an answer may be lost).
CreateRecord(c) ==
    /\ call[c].pc = "held"
    /\ LET written == [record EXCEPT ![RowOf(c)] =
                          [status |-> "active", grant |-> call[c].grant]]
       IN  \/ record' = written /\ Proceed(c, "recorded")
           \/ record' \in {record, written} /\ Proceed(c, "failing")
    /\ UNCHANGED <<now, issuing, books, revoking, spent, acted>>

\* commit_reservation_batch_sync: all the grants of the reservation, or none.
Committable(g) ==
    /\ Active(g)
    /\ \/ hold[g].status = "committed" /\ grant[g].status = "consumed"
       \/ hold[g].status = "reserved" /\ Live(g)

CommitHold(c) ==
    /\ call[c].pc = "recorded"
    /\ LET ids == HeldUnder(RecordOf[c]) IN
       IF \A g \in ids : Committable(g)
       THEN /\ grant' = [g \in Grants |-> IF g \in ids THEN [grant[g] EXCEPT !.status = "consumed"]
                                          ELSE grant[g]]
            /\ hold' = [g \in Grants |-> IF g \in ids THEN [hold[g] EXCEPT !.status = "committed"]
                                         ELSE hold[g]]
            /\ spent' = [g \in Grants |-> IF g \in ids THEN spent[g] \cup {Use(c)} ELSE spent[g]]
            /\ Proceed(c, "done")
       ELSE Proceed(c, "failing") /\ UNCHANGED <<grant, hold, spent>>
    /\ UNCHANGED <<now, issuing, revision, revoked, receipt, permit, record,
                   revoking, acted>>

\* The except branch is two calls, and either may raise itself: a schedule is
\* cancelled before its grant is given back, a recurrence after, a rule never.
CancelsNow(c)  == \/ KindOf[c] = "schedule" /\ call[c].pc = "failing"
                  \/ KindOf[c] = "recurring" /\ call[c].pc = "undoing"
ReleasesNow(c) == \/ KindOf[c] # "schedule" /\ call[c].pc = "failing"
                  \/ KindOf[c] = "schedule" /\ call[c].pc = "undoing"
Undone(c) ==
    Proceed(c, IF call[c].pc = "failing" /\ KindOf[c] # "rule" THEN "undoing" ELSE "failed")

\* Mutant: the except branch forgets the record.
CancelForgotten(r) == record

Cancelled(r) == [record EXCEPT ![r].status = IF @ = "active" THEN "cancelled" ELSE @]

\* Scheduler.cancel, cancel_recurring; one that raises may have written all the same.
CancelRecord(c) ==
    /\ CancelsNow(c)
    /\ \/ record' = Cancelled(RowOf(c)) /\ Undone(c)
       \/ record' \in {record, Cancelled(RowOf(c))} /\ Proceed(c, "stuck")
    /\ UNCHANGED <<now, issuing, books, revoking, spent, acted>>

Released(ids) ==
    [g \in Grants |-> IF g \in ids /\ hold[g].status = "reserved"
                      THEN [hold[g] EXCEPT !.status = "released"] ELSE hold[g]]

\* release_reservation gives the grants back one by one, and may raise at any.
ReleaseHold(c) ==
    /\ ReleasesNow(c)
    /\ \/ hold' = Released(HeldUnder(RecordOf[c])) /\ Undone(c)
       \/ \E ids \in SUBSET HeldUnder(RecordOf[c]) :
            hold' = Released(ids) /\ Proceed(c, "stuck")
    /\ UNCHANGED <<now, issuing, grant, revision, revoked, receipt, permit,
                   record, revoking, spent, acted>>

-----------------------------------------------------------------------------
(* revoke_consent: read the version, then revoke_consent_sync *)

Unexpired(g) == grant[g].status = "consumed" \/ Live(g)

\* resolve_active_approval: the one pending approval, else the one consumed.
Resolved(p) ==
    LET active(s) == {g \in Grants : PlanOf[g] = p /\ Active(g) /\ Unexpired(g)
                                       /\ grant[g].status = s}
    IN  IF active("pending") # {} THEN active("pending") ELSE active("consumed")

RevokeRead(v, g) ==
    /\ revoking[v].pc = "idle" /\ Saved(g)
    /\ v \in Resident /\ receipt[RequestOf[v]].kind = "none" => Resolved(PlanOf[g]) = {g}
    /\ receipt[RequestOf[v]].kind = "revocation" /\ v \in Resident
         => g = receipt[RequestOf[v]].of
    /\ revoking' = [revoking EXCEPT ![v] =
         IF receipt[RequestOf[v]].kind = "approval" THEN [Idle EXCEPT !.pc = "refused"]
         ELSE [pc |-> "read", grant |-> g,
               version |-> IF receipt[RequestOf[v]].kind = "revocation"
                           THEN receipt[RequestOf[v]].expected ELSE revision]]
    /\ UNCHANGED <<now, issuing, books, record, call, spent, acted>>

Revocable(v, g) == revoking[v].version = revision /\ ~IsRevoked(g)

\* Mutant: a grant without a delivery lists a permit all the same.
PermitsUnchecked(g) == {permit[g]}

PermitsOf(g) == {permit[g]} \ {NoRequest}

\* A request already recorded gets its receipt back if it is the same request.
RevokeApply(v) ==
    /\ revoking[v].pc = "read"
    /\ LET g == revoking[v].grant
           prior == receipt[RequestOf[v]]
           done(pc) == revoking' = [revoking EXCEPT ![v].pc = pc]
       IN \/ /\ prior.kind # "none"
             /\ done(IF prior = [kind |-> "revocation", of |-> g, expected |-> revoking[v].version]
                     THEN "done" ELSE "refused")
             /\ UNCHANGED <<revision, revoked, receipt>>
          \/ /\ prior.kind = "none"
             /\ ~Revocable(v, g)
             /\ done("refused")
             /\ UNCHANGED <<revision, revoked, receipt>>
          \/ /\ prior.kind = "none"
             /\ Revocable(v, g)
             /\ revision' = revision + 1
             /\ revoked' = [revoked EXCEPT ![g] = [by |-> RequestOf[v], at |-> revision + 1,
                              permits |-> PermitsOf(g)]]
             /\ receipt' = [receipt EXCEPT ![RequestOf[v]] =
                              [kind |-> "revocation", of |-> g, expected |-> revision]]
             /\ done("done")
    /\ UNCHANGED <<now, issuing, grant, hold, permit, record, call, spent, acted>>

\* The client lost the answer, or was told of a conflict, and asks again.
RevokeRetry(v) ==
    /\ revoking[v].pc \in {"done", "refused"}
    /\ revoking' = [revoking EXCEPT ![v] = Idle]
    /\ UNCHANGED <<now, issuing, books, record, call, spent, acted>>

-----------------------------------------------------------------------------
ApprovalTick ==
    /\ now < MaxTime
    /\ now' = now + 1
    /\ UNCHANGED <<issuing, books, record, call, revoking, spent, acted>>

ApprovalNext ==
    \/ \E g \in Grants : IssueCheck(g) \/ IssueSave(g)
    \/ \E c \in Callers :
         \/ \E g \in Grants : ConsumeGrant(c, g) \/ ReadControl(c, g) \/ ReserveGrant(c, g)
         \/ AdmitApproved(c) \/ PrepareDelivery(c) \/ RetryDelivery(c)
         \/ CreateRecord(c) \/ CommitHold(c) \/ CancelRecord(c) \/ ReleaseHold(c)
    \/ \E v \in Revokers :
         (\E g \in Grants : RevokeRead(v, g)) \/ RevokeApply(v) \/ RevokeRetry(v)
    \/ ApprovalTick

ApprovalSpec == ApprovalInit /\ [][ApprovalNext]_approvalVars

-----------------------------------------------------------------------------
(* Properties *)

CallPcs == {"idle", "approved", "read", "prepared", "held", "recorded", "failing",
            "undoing", "stuck", "done", "refused", "failed"}

\* The variables keep their types (tables of approval_grants and its siblings).
ApprovalTypeOK ==
    /\ now \in 0 .. MaxTime /\ revision \in Nat
    /\ issuing \in [Grants -> {"idle", "checked", "saved", "refused"}]
    /\ grant \in [Grants -> [status : {"none", "pending", "consumed"}, until : Nat]]
    /\ hold \in [Grants -> [by : Records \cup {NoRecord},
                            status : {"none", "reserved", "committed", "released"}]]
    /\ revoked \in [Grants -> [by : Requests \cup {NoRequest}, at : Nat, permits : SUBSET Callers]]
    /\ receipt \in [Requests -> [kind : {"none", "approval", "revocation"},
                                 of : Grants \cup {NoGrant}, expected : Nat]]
    /\ permit \in [Grants -> Callers \cup {NoRequest}]
    /\ record \in [RecordRows -> [status : {"none", "active", "cancelled"},
                               grant : Grants \cup {NoGrant}]]
    /\ call \in [Callers -> [pc : CallPcs, grant : Grants \cup {NoGrant}, version : Nat]]
    /\ revoking \in [Revokers -> [pc : {"idle", "read", "done", "refused"},
                                  grant : Grants \cup {NoGrant}, version : Nat]]
    /\ spent \in [Grants -> SUBSET [via : Kinds \cup {"hold"}, by : Callers \cup Records]]
    /\ acted \subseteq Grants

\* A grant authorises one execution, one delivery or one reservation: however they
\* race for it, at most one of them spends it, and the ledger says consumed exactly
\* when one did (consume_if_pending, commit_reservation_batch, prepare_delivery).
\* A delivery prepared under a reservation and the record created under it share
\* the grant: either may commit the reservation, and the other accepts that.
GrantSpentOnce ==
    \A g \in Grants :
        /\ Cardinality(spent[g]) <= 1
        /\ grant[g].status = "consumed" <=> spent[g] # {}

\* The reservation and the grant it holds never disagree: a held grant is still
\* unspent, a committed one was spent by that reservation, and a grant spent in
\* another way is held by nobody (reserve, commit_reservation, release_reservation).
HoldMatchesGrant ==
    \A g \in Grants :
        /\ hold[g].status = "reserved" => grant[g].status = "pending"
        /\ hold[g].status = "committed" <=> \E u \in spent[g] : u.via = "hold"
        /\ \A u \in spent[g] : u.via = "hold" => u.by = hold[g].by

\* What a revocation receipt told its caller stays true: the permits it lists
\* are all the permits the grant ever gets (revoke_consent_sync against
\* prepare_delivery_sync), and the head counts exactly the revocations.
RevocationIsComplete ==
    /\ \A g \in Grants : IsRevoked(g) => revoked[g].permits = {permit[g]} \ {NoRequest}
    /\ revision = Cardinality({g \in Grants : IsRevoked(g)})
    /\ \A g, h \in Grants : IsRevoked(g) /\ IsRevoked(h) /\ g # h => revoked[g].at # revoked[h].at

\* A human assertion is good for one grant and a request identity for one
\* outcome, also when two processes pass the first check together
\* (issue_assertion, save_sync, revoke_consent_sync).
OneOutcomePerRequest ==
    /\ \A g, h \in Grants : Saved(g) /\ Saved(h) /\ NonceOf[g] = NonceOf[h] => g = h
    /\ \A g \in Grants : RequestOf[g] # NoRequest /\ Saved(g)
         => receipt[RequestOf[g]].kind = "approval" /\ receipt[RequestOf[g]].of = g
    /\ \A r \in Requests : receipt[r].kind = "revocation"
         => revoked[receipt[r].of] = [by |-> r, at |-> receipt[r].expected + 1,
                                      permits |-> revoked[receipt[r].of].permits]

\* One physical command is prepared once, whichever of its plan's grants is
\* presented and however often the request is retried (claim_for_dispatch_sync).
PermitPerCommand ==
    \A g, h \in Grants :
        permit[g] # NoRequest /\ permit[h] # NoRequest /\ PlanOf[g] = PlanOf[h] => g = h

\* Once a revocation is recorded nothing more is spent, prepared or dispatched
\* on that grant, by any call that had already read it.
NothingAfterRevocation ==
    [][\A g \in Grants : IsRevoked(g) =>
         /\ spent'[g] = spent[g] /\ permit'[g] = permit[g]
         /\ g \in acted' => g \in acted]_approvalVars

\* A call that still answers for the record it wrote: it is under way and has not
\* cancelled it, it committed its grant, or undoing it raised.
Answers(d) == \/ call[d].pc \in {"recorded", "failing", "done", "stuck"}
              \/ KindOf[d] = "recurring" /\ call[d].pc = "undoing"

\* No active schedule or recurrence is left behind by calls that all failed and
\* undid what they did, however the two steps of the undo of one fall between the
\* steps of another that retries the request (schedule_plan, schedule_recurring_plan).
RecordsAreAnswered ==
    \A c \in Callers :
        KindOf[c] \in {"schedule", "recurring"} /\ record[RowOf(c)].status = "active" =>
            \E d \in Callers : /\ RowOf(d) = RowOf(c) /\ Answers(d)
                              /\ call[d].grant = record[RowOf(c)].grant

\* What the ledger told a caller stays true: no grant, assertion, request identity
\* or command is used for two things; calls that failed leave no record that nobody
\* answers for, and a hold only as the grant's status says; a revocation told of every permit, and
\* nothing is spent, prepared or sent on its grant afterwards.
LedgerKeepsItsWord ==
    /\ [](/\ GrantSpentOnce /\ OneOutcomePerRequest /\ PermitPerCommand
          /\ HoldMatchesGrant /\ RecordsAreAnswered /\ RevocationIsComplete)
    /\ NothingAfterRevocation
=============================================================================
