------------------------------ MODULE EtcdLease ------------------------------
(***************************************************************************)
(* EtcdHttpLeaseCoordinator (application/etcd_coordination.py) and the     *)
(* FencingGuard that holds its token (application/coordination.py): nodes  *)
(* acquire, renew, validate and release one lease scope through etcd's     *)
(* JSON gateway, one HTTP request at a time.                               *)
(*                                                                         *)
(* A request is tried at one endpoint after another.  At each it may be    *)
(* answered, fail, take effect although the answer is lost or, a           *)
(* transaction, take effect after its sender gave up.  Any other request   *)
(* that arrives late does what the expiry of a lease does, or nothing.     *)
(***************************************************************************)
EXTENDS Naturals, FiniteSets

CONSTANTS
    Nodes,          \* hosts, one incarnation of the runtime after another on each
    Endpoints,      \* number of endpoints a request is tried at
    MaxAttempts,    \* max_acquire_attempts
    MaxLeases       \* bound: leases etcd grants

ASSUME EtcdAssumption ==
    /\ Endpoints \in Nat \ {0} /\ MaxAttempts \in Nat \ {0} /\ MaxLeases \in Nat

VARIABLES
    kv,        \* etcd: value and mod_revision of the epoch key, record in the lease key
    alive,     \* etcd: leases that have neither expired nor been revoked
    granted,   \* etcd: how many leases it has granted
    late,      \* transactions whose sender no longer waits, not yet applied
    node,      \* node -> its call: where it stands, its lease, what it read, tries, rounds
    tok        \* node -> FencingGuard: token, lost; and whether expires_at has passed

etcdVars == <<kv, alive, granted, late, node, tok>>

NoRecord == [by |-> "none", epoch |-> 0, lease |-> 0]
NoCall   == [at |-> "idle", lease |-> 0, base |-> 0, mod |-> 0, tries |-> 0, rounds |-> 0]
NoToken  == [epoch |-> 0, lease |-> 0, lost |-> FALSE, lapsed |-> FALSE]

EtcdInit ==
    /\ kv = [epoch |-> 0, mod |-> 0, rec |-> NoRecord]
    /\ alive = {} /\ granted = 0 /\ late = {}
    /\ node = [n \in Nodes |-> NoCall] /\ tok = [n \in Nodes |-> NoToken]

-----------------------------------------------------------------------------
(* etcd *)

\* The lease ends: etcd deletes the key that is attached to it.
Without(l) == [kv EXCEPT !.rec = IF @.lease = l THEN NoRecord ELSE @]

Expire(l) ==
    /\ l \in alive
    /\ alive' = alive \ {l} /\ kv' = Without(l)
    /\ UNCHANGED <<granted, late, node, tok>>

\* Mutant: the transaction does not ask whether there is a lease key.
ComparesEpochOnly(t) == kv.mod = t.mod /\ t.lease \in alive

\* The transaction of acquire: the lease key must not exist and the epoch key must be
\* as it was read; a put under a lease that is gone is an error.
Compares(t) == kv.rec = NoRecord /\ kv.mod = t.mod /\ t.lease \in alive

Applied(t) == [epoch |-> t.base + 1, mod |-> kv.mod + 1,
               rec |-> [by |-> t.by, epoch |-> t.base + 1, lease |-> t.lease]]

ApplyLate(t) ==
    /\ t \in late /\ late' = late \ {t}
    /\ kv' = IF Compares(t) THEN Applied(t) ELSE kv
    /\ UNCHANGED <<alive, granted, node, tok>>

-----------------------------------------------------------------------------
(* Requests *)

Turn(n, at) == [node EXCEPT ![n].at = at, ![n].tries = 0]

Txn(n) == [by |-> n, lease |-> node[n].lease, base |-> node[n].base, mod |-> node[n].mod]

\* Where a call goes when no endpoint answered (LeaseUnavailable), or its caller is
\* cancelled: acquire gives its lease back, the others end.
AfterFailure(n) ==
    CASE node[n].at \in {"epoch", "txn", "look"} -> Turn(n, "revoke")
      [] OTHER -> [node EXCEPT ![n] = NoCall]

\* A renewal that fails makes the supervisor mark the guard lost.
Marked(n) == IF node[n].at \in {"renew", "keep", "again"} THEN [tok EXCEPT ![n].lost = TRUE] ELSE tok

\* One endpoint does not answer; a transaction may still be under way.
Unanswered(n) ==
    /\ node[n].at # "idle"
    /\ IF node[n].tries + 1 < Endpoints
       THEN node' = [node EXCEPT ![n].tries = @ + 1] /\ UNCHANGED tok
       ELSE node' = AfterFailure(n) /\ tok' = Marked(n)
    /\ \/ UNCHANGED late
       \/ node[n].at = "txn" /\ late' = late \cup {Txn(n)}
    /\ UNCHANGED <<kv, alive, granted>>

-----------------------------------------------------------------------------
(* acquire: _grant, then read the epoch and try the transaction *)

Acquire(n) ==
    /\ node[n].at = "idle" /\ tok[n] = NoToken
    /\ node' = Turn(n, "grant")
    /\ UNCHANGED <<kv, alive, granted, late, tok>>

Grant(n) ==
    /\ node[n].at = "grant" /\ granted < MaxLeases
    /\ granted' = granted + 1 /\ alive' = alive \cup {granted'}
    /\ node' = [Turn(n, "epoch") EXCEPT ![n].lease = granted']
    /\ UNCHANGED <<kv, late, tok>>

ReadEpoch(n) ==
    /\ node[n].at = "epoch"
    /\ node' = [Turn(n, "txn") EXCEPT ![n].base = kv.epoch, ![n].mod = kv.mod]
    /\ UNCHANGED <<kv, alive, granted, late, tok>>

Transact(n) ==
    /\ node[n].at = "txn" /\ node[n].lease \in alive
    /\ IF Compares(Txn(n))
       THEN /\ kv' = Applied(Txn(n))
            /\ node' = [node EXCEPT ![n] = NoCall]
            /\ tok' = [tok EXCEPT ![n] = [NoToken EXCEPT !.epoch = kv'.epoch, !.lease = node[n].lease]]
       ELSE node' = Turn(n, "look") /\ UNCHANGED <<kv, tok>>
    /\ UNCHANGED <<alive, granted, late>>

\* The transaction did not succeed: another owner, or one more round.
LookAgain(n) ==
    /\ node[n].at = "look"
    /\ node' = IF kv.rec = NoRecord /\ node[n].rounds + 1 < MaxAttempts
               THEN [Turn(n, "epoch") EXCEPT ![n].rounds = @ + 1]
               ELSE Turn(n, "revoke")
    /\ UNCHANGED <<kv, alive, granted, late, tok>>

\* The caller is cancelled while acquire waits.
CancelAcquire(n) ==
    /\ node[n].at \in {"epoch", "txn", "look"}
    /\ node' = Turn(n, "revoke")
    /\ \/ UNCHANGED late
       \/ node[n].at = "txn" /\ late' = late \cup {Txn(n)}
    /\ UNCHANGED <<kv, alive, granted, tok>>

GiveBack(n) ==
    /\ node[n].at = "revoke"
    /\ alive' = alive \ {node[n].lease} /\ kv' = Without(node[n].lease)
    /\ node' = [node EXCEPT ![n] = NoCall]
    /\ UNCHANGED <<granted, late, tok>>

-----------------------------------------------------------------------------
(* The holder of a token *)

\* _assert_record_matches
Matches(n) == kv.rec = [by |-> n, epoch |-> tok[n].epoch, lease |-> tok[n].lease]

Fails(n) == node' = [node EXCEPT ![n] = NoCall] /\ tok' = Marked(n)

\* run_coordination_supervisor: one renewal after another until one fails.
Renew(n) ==
    /\ node[n].at = "idle" /\ tok[n] # NoToken /\ ~tok[n].lost
    /\ node' = Turn(n, "renew")
    /\ UNCHANGED <<kv, alive, granted, late, tok>>

RenewReads(n) ==
    /\ node[n].at = "renew"
    /\ IF Matches(n) THEN node' = Turn(n, "keep") /\ UNCHANGED tok ELSE Fails(n)
    /\ UNCHANGED <<kv, alive, granted, late>>

KeepAlive(n) ==
    /\ node[n].at = "keep"
    /\ IF tok[n].lease \in alive THEN node' = Turn(n, "again") /\ UNCHANGED tok ELSE Fails(n)
    /\ UNCHANGED <<kv, alive, granted, late>>

RenewEnds(n) ==
    /\ node[n].at = "again"
    /\ IF Matches(n)
       THEN node' = [node EXCEPT ![n] = NoCall] /\ tok' = [tok EXCEPT ![n].lapsed = FALSE]
       ELSE Fails(n)
    /\ UNCHANGED <<kv, alive, granted, late>>

\* The clock passes the expires_at of the token.
Lapse(n) ==
    /\ tok[n] # NoToken /\ ~tok[n].lapsed
    /\ tok' = [tok EXCEPT ![n].lapsed = TRUE]
    /\ UNCHANGED <<kv, alive, granted, late, node>>

\* release, at close: validate, then revoke.  Whatever happens, this runtime is over.
Release(n) ==
    /\ node[n].at = "idle" /\ tok[n] # NoToken
    /\ tok' = [tok EXCEPT ![n] = NoToken]
    /\ node' = IF Matches(n) /\ ~tok[n].lapsed
               THEN [Turn(n, "revoke") EXCEPT ![n].lease = tok[n].lease]
               ELSE node
    /\ UNCHANGED <<kv, alive, granted, late>>

\* The process dies, in a call or between two.
Die(n) ==
    /\ node[n].at # "idle" \/ tok[n] # NoToken
    /\ node' = [node EXCEPT ![n] = NoCall] /\ tok' = [tok EXCEPT ![n] = NoToken]
    /\ \/ UNCHANGED late
       \/ node[n].at = "txn" /\ late' = late \cup {Txn(n)}
    /\ UNCHANGED <<kv, alive, granted>>

EtcdNext ==
    \/ \E l \in alive : Expire(l)
    \/ \E t \in late : ApplyLate(t)
    \/ \E n \in Nodes : \/ Unanswered(n) \/ Acquire(n) \/ Grant(n) \/ ReadEpoch(n) \/ Transact(n)
                        \/ LookAgain(n) \/ CancelAcquire(n) \/ GiveBack(n)
                        \/ Renew(n) \/ RenewReads(n) \/ KeepAlive(n) \/ RenewEnds(n)
                        \/ Lapse(n) \/ Release(n) \/ Die(n)

EtcdSpec == EtcdInit /\ [][EtcdNext]_etcdVars

-----------------------------------------------------------------------------
(* Properties *)

EtcdTypeOK ==
    /\ kv.epoch \in 0 .. granted /\ kv.mod \in 0 .. granted
    /\ alive \subseteq 1 .. granted /\ granted <= MaxLeases
    /\ \A n \in Nodes : node[n].tries < Endpoints /\ node[n].rounds < MaxAttempts

\* A token is what its node put into the lease key: no two nodes hold one epoch, none
\* is ahead of the epoch key, a record of that epoch is the node's own, and a record
\* lives no longer than its lease.
TokensAreHonest ==
    /\ \A n \in Nodes : tok[n] # NoToken =>
         /\ tok[n].epoch \in 1 .. kv.epoch
         /\ \A m \in Nodes \ {n} : tok[m].epoch # tok[n].epoch
         /\ kv.rec.epoch = tok[n].epoch => kv.rec.by = n /\ kv.rec.lease = tok[n].lease
    /\ kv.rec # NoRecord => kv.rec.lease \in alive

\* The lease key and the epoch key are a LeaseService.
EtcdService == INSTANCE LeaseService WITH current <- kv.rec.epoch, last <- kv.epoch

\* EtcdHttpLeaseCoordinator grants leases the way the executor, the ledger and the
\* recovery of plans rely on: one lease at a time, each with an epoch of its own, however
\* many requests are lost, repeated or applied late; and its tokens are honest.
ImplementsLeaseService == []TokensAreHonest /\ EtcdService!LeaseServiceSpec
=============================================================================
