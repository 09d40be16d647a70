----------------------------- MODULE HostsProofs -----------------------------
(***************************************************************************)
(* What is proved of the hosts of a deployment: EtcdLease implements       *)
(* LeaseService, and the runtimes of RuntimeLifecycle own the deployment   *)
(* while they act and leave nothing behind that they could release; the    *)
(* files survive backup and restore (BackupRestore); and the skill that a  *)
(* host runs keeps faith with the operator (SkillWorkflow).                *)
(***************************************************************************)
EXTENDS EtcdLease, RuntimeLifecycle, BackupRestore, SkillWorkflow, FiniteSetTheorems,
        WellFoundedInduction, TLAPS

(* The lease in etcd *)

Records == {NoRecord} \cup [by : Nodes, epoch : Nat \ {0}, lease : Nat \ {0}]
Txns == [by : Nodes, lease : Nat \ {0}, base : Nat, mod : Nat]
Renewing == {"renew", "keep", "again"}
Places == {"idle", "grant", "epoch", "txn", "look", "revoke"} \cup Renewing
Calls == [at : Places, lease : Nat, base : Nat, mod : Nat, tries : Nat, rounds : Nat]
Tokens == [epoch : Nat, lease : Nat, lost : BOOLEAN, lapsed : BOOLEAN]

EtcdType ==
    /\ kv \in [epoch : Nat, mod : Nat, rec : Records]
    /\ granted \in Nat /\ alive \subseteq Nat \ {0}
    /\ late \subseteq Txns
    /\ node \in [Nodes -> Calls] /\ tok \in [Nodes -> Tokens]

\* The epoch counts the transactions that took effect, and every transaction
\* carries the epoch of the revision it compares with: what is applied is the
\* successor of what is there, however late.
Counting ==
    /\ kv.epoch = kv.mod
    /\ \A t \in late : t.base = t.mod
    /\ \A n \in Nodes : node[n].base = node[n].mod

\* The record in the lease key is the last one and lives as long as its lease.
RecordTells == kv.rec # NoRecord => kv.rec.epoch = kv.epoch /\ kv.rec.lease \in alive

\* A call past the grant has a lease, and only the holder of a token renews.
CallTells(n) ==
    /\ node[n].at \in {"epoch", "txn", "look", "revoke"} => node[n].lease # 0
    /\ node[n].at \in Renewing => tok[n].epoch # 0

\* A token was never put into the lease key by anybody else.
TokenTells(n) ==
    /\ tok[n] = NoToken \/ tok[n].epoch # 0
    /\ tok[n].epoch # 0 =>
         /\ tok[n].epoch <= kv.epoch /\ tok[n].lease # 0
         /\ \A m \in Nodes \ {n} : tok[m].epoch # tok[n].epoch
         /\ kv.rec.epoch = tok[n].epoch => kv.rec.by = n /\ kv.rec.lease = tok[n].lease

EtcdInv ==
    EtcdType /\ Counting /\ RecordTells /\ \A n \in Nodes : CallTells(n) /\ TokenTells(n)

-----------------------------------------------------------------------------
(* Operators *)

\* A record that is put and one that is taken away.
LEMMA AppliedCounts ==
    ASSUME EtcdInv, NEW t \in Txns, t.base = t.mod, Compares(t)
    PROVE  /\ Applied(t) \in [epoch : Nat, mod : Nat, rec : Records]
           /\ Applied(t).epoch = kv.epoch + 1 /\ Applied(t).mod = Applied(t).epoch
           /\ Applied(t).rec = [by |-> t.by, epoch |-> kv.epoch + 1, lease |-> t.lease]
           /\ t.lease \in alive /\ kv.rec = NoRecord
BY DEF EtcdInv, EtcdType, Counting, Txns, Compares, Applied, Records

LEMMA WithoutKeeps ==
    ASSUME EtcdInv, NEW l \in Nat \ {0}
    PROVE  /\ Without(l) \in [epoch : Nat, mod : Nat, rec : Records]
           /\ Without(l).epoch = kv.epoch /\ Without(l).mod = kv.mod
           /\ Without(l).rec = NoRecord \/ (Without(l).rec = kv.rec /\ kv.rec.lease # l)
           /\ Without(l).rec.epoch \in {0, kv.rec.epoch}
BY DEF EtcdInv, EtcdType, Without, Records, NoRecord

\* The transaction a node sends.
LEMMA TxnType ==
    ASSUME EtcdInv, NEW n \in Nodes, node[n].at = "txn"
    PROVE  Txn(n) \in Txns /\ Txn(n).base = Txn(n).mod /\ Txn(n).by = n /\ Txn(n).lease = node[n].lease
BY DEF EtcdInv, EtcdType, Counting, CallTells, Txn, Txns, Calls

-----------------------------------------------------------------------------
(* Steps of etcd *)

\* A transaction takes effect: the record and the epoch grow, tokens stay behind.
LEMMA ApplyTells ==
    ASSUME EtcdInv, NEW t \in Txns, t.base = t.mod, Compares(t), kv' = Applied(t)
    PROVE  /\ kv' \in [epoch : Nat, mod : Nat, rec : Records]
           /\ kv'.epoch = kv'.mod
           /\ kv'.rec.epoch = kv'.epoch /\ kv'.rec.lease \in alive /\ kv'.rec # NoRecord
           /\ \A n \in Nodes : tok[n].epoch # 0 => tok[n].epoch < kv'.epoch
           /\ EtcdService!Take
<1>1. kv' \in [epoch : Nat, mod : Nat, rec : Records] BY AppliedCounts
<1>2. kv'.epoch = kv.epoch + 1 /\ kv'.mod = kv'.epoch
      /\ kv'.rec = [by |-> t.by, epoch |-> kv.epoch + 1, lease |-> t.lease]
      /\ t.lease \in alive /\ kv.rec = NoRecord
  BY AppliedCounts
<1>3. kv.epoch \in Nat BY DEF EtcdInv, EtcdType
<1>4. \A n \in Nodes : tok[n].epoch # 0 => tok[n].epoch < kv'.epoch
  BY <1>2, <1>3 DEF EtcdInv, TokenTells, EtcdType, Tokens
<1>5. kv'.rec.epoch = kv'.epoch /\ kv'.rec.lease \in alive /\ kv'.rec # NoRecord
  BY <1>2, <1>3 DEF NoRecord
<1>6. kv.rec.epoch = 0 BY <1>2 DEF NoRecord
<1> QED BY <1>1, <1>2, <1>4, <1>5, <1>6 DEF EtcdService!Take

\* The record goes, or nothing happens to it.
LEMMA WithoutTells ==
    ASSUME EtcdInv, NEW l \in Nat \ {0}, kv' = Without(l), alive' = alive \ {l}
    PROVE  /\ kv' \in [epoch : Nat, mod : Nat, rec : Records]
           /\ kv'.epoch = kv'.mod /\ kv'.epoch = kv.epoch
           /\ RecordTells'
           /\ kv'.rec = NoRecord \/ kv'.rec = kv.rec
           /\ EtcdService!Drop \/ UNCHANGED <<kv.rec.epoch, kv.epoch>>
<1>1. /\ kv' \in [epoch : Nat, mod : Nat, rec : Records]
      /\ kv'.epoch = kv.epoch /\ kv'.mod = kv.mod
      /\ kv'.rec = NoRecord \/ (kv'.rec = kv.rec /\ kv.rec.lease # l)
  BY WithoutKeeps
<1>2. kv.epoch = kv.mod /\ RecordTells BY DEF EtcdInv, Counting
<1>3. RecordTells' BY <1>1, <1>2 DEF RecordTells
<1>4. EtcdService!Drop \/ UNCHANGED <<kv.rec.epoch, kv.epoch>>
  BY <1>1 DEF EtcdService!Drop, NoRecord
<1> QED BY <1>1, <1>2, <1>3, <1>4

-----------------------------------------------------------------------------
(* Steps of a node *)

\* A call moves on.
LEMMA TurnType ==
    ASSUME EtcdInv, NEW n \in Nodes, NEW at \in Places
    PROVE  /\ Turn(n, at) \in [Nodes -> Calls]
           /\ Turn(n, at)[n].at = at /\ Turn(n, at)[n].lease = node[n].lease
           /\ Turn(n, at)[n].base = node[n].base /\ Turn(n, at)[n].mod = node[n].mod
           /\ \A m \in Nodes \ {n} : Turn(n, at)[m] = node[m]
BY DEF EtcdInv, EtcdType, Turn, Calls

\* Every call but that of n stays what it is, and that one is still in order.
Moves(n) ==
    /\ node' \in [Nodes -> Calls]
    /\ \A m \in Nodes \ {n} : node'[m] = node[m]
    /\ node'[n].base = node'[n].mod

\* Tokens go, or keep their epoch and their lease.
Kept(m) ==
    \/ tok'[m] = NoToken
    \/ tok'[m].epoch = tok[m].epoch /\ tok'[m].lease = tok[m].lease /\ tok[m].epoch # 0

LEMMA KeptWhole == ASSUME EtcdInv, UNCHANGED tok PROVE tok' \in [Nodes -> Tokens] /\ \A m \in Nodes : Kept(m)
BY DEF EtcdInv, EtcdType, TokenTells, Kept

\* What a node does without etcd leaves the service alone.
LEMMA QuietTells ==
    ASSUME EtcdInv, NEW n \in Nodes, Moves(n), CallTells(n)',
           kv' = kv, granted' \in Nat, alive' \subseteq Nat \ {0}, alive \subseteq alive',
           late' \subseteq Txns, \A t \in late' : t.base = t.mod,
           tok' \in [Nodes -> Tokens], \A m \in Nodes : Kept(m),
           \A m \in Nodes \ {n} : tok'[m] = tok[m]
    PROVE  EtcdInv' /\ UNCHANGED <<kv.rec.epoch, kv.epoch>>
<1>1. EtcdType' BY DEF EtcdInv, EtcdType, Moves
<1>2. Counting' BY DEF EtcdInv, Counting, Moves
<1>3. RecordTells' BY DEF EtcdInv, RecordTells
<1>4. \A m \in Nodes : CallTells(m)'
  <2> SUFFICES ASSUME NEW m \in Nodes \ {n} PROVE CallTells(m)' OBVIOUS
  <2> QED BY DEF EtcdInv, CallTells, Moves
<1>5. ASSUME NEW m \in Nodes PROVE TokenTells(m)'
  <2>1. CASE tok'[m] = NoToken BY <2>1 DEF TokenTells, NoToken
  <2>2. CASE tok'[m].epoch = tok[m].epoch /\ tok'[m].lease = tok[m].lease /\ tok[m].epoch # 0
    <3>1. \A l \in Nodes \ {m} : tok'[l].epoch # tok'[m].epoch
      BY <2>2 DEF EtcdInv, TokenTells, Kept, NoToken
    <3> QED BY <2>2, <3>1 DEF EtcdInv, TokenTells
  <2> QED BY <2>1, <2>2 DEF Kept
<1> QED BY <1>1, <1>2, <1>3, <1>4, <1>5 DEF EtcdInv

\* A transaction may be left behind.
LEMMA LeftBehind ==
    ASSUME EtcdInv, NEW n \in Nodes,
           UNCHANGED late \/ (node[n].at = "txn" /\ late' = late \cup {Txn(n)})
    PROVE  late' \subseteq Txns /\ \A t \in late' : t.base = t.mod
BY TxnType DEF EtcdInv, EtcdType, Counting

\* A flag of a token changes.
LEMMA TokenMarked ==
    ASSUME EtcdInv, NEW n \in Nodes, tok[n].epoch # 0,
           \/ tok' = [tok EXCEPT ![n].lost = TRUE]
           \/ \E b \in BOOLEAN : tok' = [tok EXCEPT ![n].lapsed = b]
    PROVE  /\ tok' \in [Nodes -> Tokens] /\ (\A m \in Nodes : Kept(m)) /\ tok'[n].epoch = tok[n].epoch
           /\ \A m \in Nodes \ {n} : tok'[m] = tok[m]
<1>1. tok \in [Nodes -> Tokens] BY DEF EtcdInv, EtcdType
<1>2. CASE tok' = [tok EXCEPT ![n].lost = TRUE]
  <2>1. tok' \in [Nodes -> Tokens] BY <1>1, <1>2 DEF Tokens
  <2>2. \A m \in Nodes \ {n} : tok'[m] = tok[m] BY <1>1, <1>2
  <2>3. tok'[n].epoch = tok[n].epoch /\ tok'[n].lease = tok[n].lease BY <1>1, <1>2 DEF Tokens
  <2> QED BY <2>1, <2>2, <2>3 DEF EtcdInv, TokenTells, Kept
<1>3. CASE \E b \in BOOLEAN : tok' = [tok EXCEPT ![n].lapsed = b]
  <2>1. PICK b \in BOOLEAN : tok' = [tok EXCEPT ![n].lapsed = b] BY <1>3
  <2>2. tok' \in [Nodes -> Tokens] BY <1>1, <2>1 DEF Tokens
  <2>3. \A m \in Nodes \ {n} : tok'[m] = tok[m] BY <1>1, <2>1
  <2>4. tok'[n].epoch = tok[n].epoch /\ tok'[n].lease = tok[n].lease BY <1>1, <2>1 DEF Tokens
  <2> QED BY <2>2, <2>3, <2>4 DEF EtcdInv, TokenTells, Kept
<1> QED BY <1>2, <1>3

\* A renewal that fails costs the guard, not the token.
LEMMA MarkedType ==
    ASSUME EtcdInv, NEW n \in Nodes, tok' = Marked(n)
    PROVE  /\ tok' \in [Nodes -> Tokens] /\ \A m \in Nodes : Kept(m)
           /\ \A m \in Nodes \ {n} : tok'[m] = tok[m]
<1>1. CASE node[n].at \in Renewing
  <2>1. tok' = [tok EXCEPT ![n].lost = TRUE] BY <1>1 DEF Marked, Renewing
  <2>2. tok[n].epoch # 0 BY <1>1 DEF EtcdInv, CallTells
  <2> QED BY <2>1, <2>2, TokenMarked
<1>2. CASE node[n].at \notin Renewing
  <2>1. UNCHANGED tok BY <1>2 DEF Marked, Renewing
  <2> QED BY <2>1, KeptWhole
<1> QED BY <1>1, <1>2

\* The call ends.
LEMMA EndsType ==
    ASSUME EtcdInv, NEW n \in Nodes, node' = [node EXCEPT ![n] = NoCall]
    PROVE  Moves(n) /\ node'[n] = NoCall /\ CallTells(n)'
<1>1. NoCall \in Calls /\ NoCall.base = NoCall.mod /\ NoCall.at = "idle" BY DEF NoCall, Calls, Places
<1>2. node'[n] = NoCall BY DEF EtcdInv, EtcdType
<1>3. Moves(n) BY <1>1, <1>2 DEF EtcdInv, EtcdType, Moves
<1>4. node'[n].at = "idle" BY <1>1, <1>2
<1> QED BY <1>2, <1>3, <1>4 DEF CallTells, Renewing

\* It moves on, with what it has read.
LEMMA MovesOn ==
    ASSUME EtcdInv, NEW n \in Nodes, NEW at \in Places, node' = Turn(n, at)
    PROVE  Moves(n) /\ node'[n].at = at /\ node'[n].lease = node[n].lease
BY TurnType DEF EtcdInv, Counting, Moves

LEMMA UnansweredTells ==
    ASSUME EtcdInv, NEW n \in Nodes, Unanswered(n)
    PROVE  EtcdInv' /\ UNCHANGED <<kv.rec.epoch, kv.epoch>>
<1>1. late' \subseteq Txns /\ (\A t \in late' : t.base = t.mod) BY LeftBehind DEF Unanswered
<1>2. kv' = kv /\ granted' \in Nat /\ alive' = alive /\ alive' \subseteq Nat \ {0}
  BY DEF Unanswered, EtcdInv, EtcdType
<1>3. CASE node[n].tries + 1 < Endpoints
  <2>1. node' = [node EXCEPT ![n].tries = @ + 1] /\ UNCHANGED tok BY <1>3 DEF Unanswered
  <2>2. Moves(n) /\ node'[n].at = node[n].at /\ node'[n].lease = node[n].lease
    BY <2>1 DEF EtcdInv, EtcdType, Counting, Calls, Moves
  <2>3. CallTells(n)' BY <2>1, <2>2 DEF EtcdInv, CallTells
  <2> QED BY <1>1, <1>2, <2>1, <2>2, <2>3, KeptWhole, QuietTells
<1>4. CASE ~(node[n].tries + 1 < Endpoints)
  <2>1. node' = AfterFailure(n) /\ tok' = Marked(n) BY <1>4 DEF Unanswered
  <2>2. Moves(n) /\ CallTells(n)'
    <3>1. CASE node[n].at \in {"epoch", "txn", "look"}
      <4>1. node' = Turn(n, "revoke") BY <2>1, <3>1 DEF AfterFailure
      <4>2. Moves(n) /\ node'[n].at = "revoke" /\ node'[n].lease = node[n].lease
        BY <4>1, MovesOn DEF Places
      <4> QED BY <3>1, <4>2 DEF EtcdInv, CallTells, Renewing
    <3>2. CASE node[n].at \notin {"epoch", "txn", "look"}
      <4>1. node' = [node EXCEPT ![n] = NoCall] BY <2>1, <3>2 DEF AfterFailure
      <4> QED BY <4>1, EndsType
    <3> QED BY <3>1, <3>2
  <2> QED BY <1>1, <1>2, <2>1, <2>2, MarkedType, QuietTells
<1> QED BY <1>3, <1>4

\* acquire, up to the transaction.
LEMMA AcquireTells ==
    ASSUME EtcdInv, NEW n \in Nodes,
           Acquire(n) \/ ReadEpoch(n) \/ LookAgain(n) \/ CancelAcquire(n)
    PROVE  EtcdInv' /\ UNCHANGED <<kv.rec.epoch, kv.epoch>>
<1>1. late' \subseteq Txns /\ (\A t \in late' : t.base = t.mod)
  BY LeftBehind DEF Acquire, ReadEpoch, LookAgain, CancelAcquire
<1>2. /\ kv' = kv /\ granted' \in Nat /\ alive' = alive /\ alive' \subseteq Nat \ {0}
      /\ UNCHANGED tok
  BY DEF Acquire, ReadEpoch, LookAgain, CancelAcquire, EtcdInv, EtcdType
<1>3. Moves(n) /\ CallTells(n)'
  <2>1. CASE Acquire(n)
    <3>1. Moves(n) /\ node'[n].at = "grant" BY <2>1, MovesOn DEF Acquire, Places
    <3> QED BY <3>1 DEF CallTells, Renewing
  <2>2. CASE ReadEpoch(n)
    <3>1. Turn(n, "txn") \in [Nodes -> Calls] /\ Turn(n, "txn")[n].at = "txn"
          /\ Turn(n, "txn")[n].lease = node[n].lease
          /\ \A m \in Nodes \ {n} : Turn(n, "txn")[m] = node[m]
      BY TurnType DEF Places
    <3>2. kv.epoch \in Nat /\ kv.mod \in Nat /\ kv.epoch = kv.mod BY DEF EtcdInv, EtcdType, Counting
    <3>3. node' = [Turn(n, "txn") EXCEPT ![n].base = kv.epoch, ![n].mod = kv.mod] BY <2>2 DEF ReadEpoch
    <3>4. Moves(n) /\ node'[n].at = "txn" /\ node'[n].lease = node[n].lease
      BY <3>1, <3>2, <3>3 DEF Moves, Calls
    <3> QED BY <2>2, <3>4 DEF ReadEpoch, EtcdInv, CallTells, Renewing
  <2>3. CASE LookAgain(n)
    <3>1. CASE kv.rec = NoRecord /\ node[n].rounds + 1 < MaxAttempts
      <4>1. Turn(n, "epoch") \in [Nodes -> Calls] /\ Turn(n, "epoch")[n].at = "epoch"
            /\ Turn(n, "epoch")[n].lease = node[n].lease
            /\ Turn(n, "epoch")[n].base = node[n].base /\ Turn(n, "epoch")[n].mod = node[n].mod
            /\ \A m \in Nodes \ {n} : Turn(n, "epoch")[m] = node[m]
        BY TurnType DEF Places
      <4>2. node' = [Turn(n, "epoch") EXCEPT ![n].rounds = @ + 1] BY <2>3, <3>1 DEF LookAgain
      <4>3. Moves(n) /\ node'[n].at = "epoch" /\ node'[n].lease = node[n].lease
        BY <4>1, <4>2 DEF EtcdInv, Counting, Moves, Calls
      <4> QED BY <2>3, <4>3 DEF LookAgain, EtcdInv, CallTells, Renewing
    <3>2. CASE ~(kv.rec = NoRecord /\ node[n].rounds + 1 < MaxAttempts)
      <4>1. Moves(n) /\ node'[n].at = "revoke" /\ node'[n].lease = node[n].lease
        BY <2>3, <3>2, MovesOn DEF LookAgain, Places
      <4> QED BY <2>3, <4>1 DEF LookAgain, EtcdInv, CallTells, Renewing
    <3> QED BY <3>1, <3>2
  <2>4. CASE CancelAcquire(n)
    <3>1. Moves(n) /\ node'[n].at = "revoke" /\ node'[n].lease = node[n].lease
      BY <2>4, MovesOn DEF CancelAcquire, Places
    <3> QED BY <2>4, <3>1 DEF CancelAcquire, EtcdInv, CallTells, Renewing
  <2> QED BY <2>1, <2>2, <2>3, <2>4
<1> QED BY <1>1, <1>2, <1>3, KeptWhole, QuietTells
LEMMA GrantTells ==
    ASSUME EtcdInv, NEW n \in Nodes, Grant(n)
    PROVE  EtcdInv' /\ UNCHANGED <<kv.rec.epoch, kv.epoch>>
<1>1. granted' = granted + 1 /\ granted \in Nat /\ alive' = alive \cup {granted'} /\ alive \subseteq Nat \ {0}
  BY DEF Grant, EtcdInv, EtcdType
<1>2. Turn(n, "epoch") \in [Nodes -> Calls] /\ Turn(n, "epoch")[n].at = "epoch"
      /\ Turn(n, "epoch")[n].base = node[n].base /\ Turn(n, "epoch")[n].mod = node[n].mod
      /\ \A m \in Nodes \ {n} : Turn(n, "epoch")[m] = node[m]
  BY TurnType DEF Places
<1>3. node' = [Turn(n, "epoch") EXCEPT ![n].lease = granted'] BY DEF Grant
<1>4. Moves(n) /\ node'[n].at = "epoch" /\ node'[n].lease # 0
  BY <1>1, <1>2, <1>3 DEF EtcdInv, Counting, Moves, Calls
<1>5. CallTells(n)' BY <1>4 DEF CallTells, Renewing
<1>6. late' \subseteq Txns /\ (\A t \in late' : t.base = t.mod) BY LeftBehind DEF Grant
<1>7. UNCHANGED tok /\ kv' = kv BY DEF Grant
<1> QED BY <1>1, <1>4, <1>5, <1>6, <1>7, KeptWhole, QuietTells

\* The supervisor, the clock, the close and the death of a token's holder.
LEMMA HolderTells ==
    ASSUME EtcdInv, NEW n \in Nodes,
           \/ Renew(n) \/ RenewReads(n) \/ KeepAlive(n) \/ RenewEnds(n)
           \/ Lapse(n) \/ Release(n) \/ Die(n)
    PROVE  EtcdInv' /\ UNCHANGED <<kv.rec.epoch, kv.epoch>>
<1>1. late' \subseteq Txns /\ (\A t \in late' : t.base = t.mod)
  BY LeftBehind DEF Renew, RenewReads, KeepAlive, RenewEnds, Lapse, Release, Die
<1>2. kv' = kv /\ granted' \in Nat /\ alive' = alive /\ alive' \subseteq Nat \ {0}
  BY DEF Renew, RenewReads, KeepAlive, RenewEnds, Lapse, Release, Die, EtcdInv, EtcdType
<1> DEFINE Tidy == /\ Moves(n) /\ CallTells(n)'
                   /\ tok' \in [Nodes -> Tokens] /\ (\A m \in Nodes : Kept(m))
                   /\ \A m \in Nodes \ {n} : tok'[m] = tok[m]
<1>3. ASSUME Fails(n) PROVE Tidy
  <2>1. Moves(n) /\ CallTells(n)' BY <1>3, EndsType DEF Fails
  <2> QED BY <1>3, <2>1, MarkedType DEF Fails
<1>4. ASSUME NEW at \in Renewing, node' = Turn(n, at), UNCHANGED tok, tok[n].epoch # 0 PROVE Tidy
  <2>1. Moves(n) /\ node'[n].at = at BY <1>4, MovesOn DEF Places
  <2>2. CallTells(n)' BY <1>4, <2>1 DEF CallTells, Renewing
  <2> QED BY <1>4, <2>1, <2>2, KeptWhole
<1>5. CASE Renew(n)
  <2>1. tok[n].epoch # 0 BY <1>5 DEF Renew, EtcdInv, TokenTells
  <2> QED BY <1>1, <1>2, <1>4, <1>5, <2>1, QuietTells DEF Renew, Renewing
<1>6. CASE RenewReads(n) \/ KeepAlive(n)
  <2>1. tok[n].epoch # 0 BY <1>6 DEF RenewReads, KeepAlive, EtcdInv, CallTells, Renewing
  <2>2. Tidy BY <1>3, <1>4, <1>6, <2>1 DEF RenewReads, KeepAlive, Renewing
  <2> QED BY <1>1, <1>2, <2>2, QuietTells
<1>7. CASE RenewEnds(n)
  <2>1. CASE Matches(n)
    <3>1. node' = [node EXCEPT ![n] = NoCall] /\ tok' = [tok EXCEPT ![n].lapsed = FALSE]
      BY <1>7, <2>1 DEF RenewEnds
    <3>2. tok[n].epoch # 0 BY <1>7 DEF RenewEnds, EtcdInv, CallTells, Renewing
    <3>3. Moves(n) /\ CallTells(n)' BY <3>1, EndsType
    <3>4. /\ tok' \in [Nodes -> Tokens] /\ (\A m \in Nodes : Kept(m))
          /\ \A m \in Nodes \ {n} : tok'[m] = tok[m]
      BY <3>1, <3>2, TokenMarked
    <3> QED BY <1>1, <1>2, <3>3, <3>4, QuietTells
  <2>2. CASE ~Matches(n) BY <1>1, <1>2, <1>3, <1>7, <2>2, QuietTells DEF RenewEnds
  <2> QED BY <2>1, <2>2
<1>8. CASE Lapse(n)
  <2>1. tok' = [tok EXCEPT ![n].lapsed = TRUE] /\ UNCHANGED node /\ tok[n].epoch # 0
    BY <1>8 DEF Lapse, EtcdInv, TokenTells
  <2>2. /\ tok' \in [Nodes -> Tokens] /\ (\A m \in Nodes : Kept(m)) /\ tok'[n].epoch = tok[n].epoch
        /\ \A m \in Nodes \ {n} : tok'[m] = tok[m]
    BY <2>1, TokenMarked
  <2>3. Moves(n) /\ CallTells(n)' BY <2>1, <2>2 DEF EtcdInv, EtcdType, Counting, CallTells, Moves
  <2> QED BY <1>1, <1>2, <2>2, <2>3, QuietTells
<1>9. ASSUME tok' = [tok EXCEPT ![n] = NoToken]
      PROVE  /\ tok' \in [Nodes -> Tokens] /\ (\A m \in Nodes : Kept(m))
             /\ \A m \in Nodes \ {n} : tok'[m] = tok[m]
  <2>1. NoToken \in Tokens /\ tok \in [Nodes -> Tokens] BY DEF NoToken, Tokens, EtcdInv, EtcdType
  <2>2. tok' \in [Nodes -> Tokens] /\ tok'[n] = NoToken /\ \A m \in Nodes \ {n} : tok'[m] = tok[m]
    BY <1>9, <2>1
  <2> QED BY <2>2 DEF EtcdInv, TokenTells, Kept
<1>10. CASE Release(n)
  <2>1. tok' = [tok EXCEPT ![n] = NoToken] /\ node[n].at = "idle" /\ tok[n].epoch # 0 /\ tok[n].lease # 0
    BY <1>10 DEF Release, EtcdInv, TokenTells
  <2>2. Moves(n) /\ CallTells(n)'
    <3>1. CASE Matches(n) /\ ~tok[n].lapsed
      <4>1. node' = [Turn(n, "revoke") EXCEPT ![n].lease = tok[n].lease] BY <1>10, <3>1 DEF Release
      <4>2. Turn(n, "revoke") \in [Nodes -> Calls] /\ Turn(n, "revoke")[n].at = "revoke"
            /\ Turn(n, "revoke")[n].base = node[n].base /\ Turn(n, "revoke")[n].mod = node[n].mod
            /\ \A m \in Nodes \ {n} : Turn(n, "revoke")[m] = node[m]
        BY TurnType DEF Places
      <4>3. tok[n].lease \in Nat BY DEF EtcdInv, EtcdType, Tokens
      <4>4. Moves(n) /\ node'[n].at = "revoke" /\ node'[n].lease # 0
        BY <2>1, <4>1, <4>2, <4>3 DEF EtcdInv, Counting, Moves, Calls
      <4> QED BY <4>4 DEF CallTells, Renewing
    <3>2. CASE ~(Matches(n) /\ ~tok[n].lapsed)
      <4>1. UNCHANGED node BY <1>10, <3>2 DEF Release
      <4> QED BY <2>1, <4>1 DEF EtcdInv, EtcdType, Counting, CallTells, Moves, Renewing
    <3> QED BY <3>1, <3>2
  <2> QED BY <1>1, <1>2, <1>9, <2>1, <2>2, QuietTells
<1>11. CASE Die(n)
  <2>1. node' = [node EXCEPT ![n] = NoCall] /\ tok' = [tok EXCEPT ![n] = NoToken] BY <1>11 DEF Die
  <2>2. Moves(n) /\ CallTells(n)' BY <2>1, EndsType
  <2> QED BY <1>1, <1>2, <1>9, <2>1, <2>2, QuietTells
<1> QED BY <1>5, <1>6, <1>7, <1>8, <1>10, <1>11

-----------------------------------------------------------------------------
(* Steps that reach etcd *)

LEMMA LeaseEnds ==
    ASSUME EtcdInv, NEW l \in Nat \ {0}, kv' = Without(l), alive' = alive \ {l},
           UNCHANGED <<granted, late, tok>>, node' \in [Nodes -> Calls],
           \A m \in Nodes : node'[m] = node[m] \/ node'[m] = NoCall
    PROVE  EtcdInv' /\ (EtcdService!Drop \/ UNCHANGED <<kv.rec.epoch, kv.epoch>>)
<1>1. /\ kv' \in [epoch : Nat, mod : Nat, rec : Records]
      /\ kv'.epoch = kv'.mod /\ kv'.epoch = kv.epoch /\ RecordTells'
      /\ kv'.rec = NoRecord \/ kv'.rec = kv.rec
      /\ EtcdService!Drop \/ UNCHANGED <<kv.rec.epoch, kv.epoch>>
  BY WithoutTells
<1>2. EtcdType' BY <1>1 DEF EtcdInv, EtcdType
<1>3. Counting' BY <1>1 DEF EtcdInv, Counting, NoCall
<1>4. ASSUME NEW m \in Nodes PROVE CallTells(m)' /\ TokenTells(m)'
  <2>1. CallTells(m)' BY DEF EtcdInv, CallTells, NoCall, Renewing
  <2>2. TokenTells(m)' BY <1>1 DEF EtcdInv, TokenTells, NoRecord
  <2> QED BY <2>1, <2>2
<1> QED BY <1>1, <1>2, <1>3, <1>4 DEF EtcdInv

LEMMA ExpireTells ==
    ASSUME EtcdInv, NEW l \in alive, Expire(l)
    PROVE  EtcdInv' /\ (EtcdService!Drop \/ UNCHANGED <<kv.rec.epoch, kv.epoch>>)
<1>1. l \in Nat \ {0} /\ node \in [Nodes -> Calls] BY DEF EtcdInv, EtcdType
<1> QED BY <1>1, LeaseEnds DEF Expire

LEMMA GiveBackTells ==
    ASSUME EtcdInv, NEW n \in Nodes, GiveBack(n)
    PROVE  EtcdInv' /\ (EtcdService!Drop \/ UNCHANGED <<kv.rec.epoch, kv.epoch>>)
<1>1. node[n].lease \in Nat \ {0} BY DEF EtcdInv, EtcdType, Calls, CallTells, GiveBack
<1>2. Moves(n) /\ node'[n] = NoCall BY EndsType DEF GiveBack
<1> QED BY <1>1, <1>2, LeaseEnds DEF GiveBack, Moves

LEMMA ApplyLateTells ==
    ASSUME EtcdInv, NEW t \in late, ApplyLate(t)
    PROVE  EtcdInv' /\ (EtcdService!Take \/ UNCHANGED <<kv.rec.epoch, kv.epoch>>)
<1>1. /\ t \in Txns /\ t.base = t.mod /\ late' \subseteq Txns /\ (\A u \in late' : u.base = u.mod)
      /\ UNCHANGED <<alive, granted, node, tok>>
  BY DEF EtcdInv, EtcdType, Counting, ApplyLate
<1>2. CASE Compares(t)
  <2>1. /\ kv' \in [epoch : Nat, mod : Nat, rec : Records] /\ kv'.epoch = kv'.mod
        /\ kv'.rec.epoch = kv'.epoch /\ kv'.rec.lease \in alive
        /\ \A n \in Nodes : tok[n].epoch # 0 => tok[n].epoch < kv'.epoch
        /\ EtcdService!Take
    BY <1>1, <1>2, ApplyTells DEF ApplyLate
  <2>2. EtcdType' /\ Counting' /\ RecordTells'
    BY <1>1, <2>1 DEF EtcdInv, EtcdType, Counting, RecordTells
  <2>3. ASSUME NEW n \in Nodes PROVE CallTells(n)' /\ TokenTells(n)'
    <3>1. CallTells(n)' BY <1>1 DEF EtcdInv, CallTells
    <3>2. tok[n] \in Tokens BY DEF EtcdInv, EtcdType
    <3>3. TokenTells(n)' BY <1>1, <2>1, <3>2 DEF EtcdInv, TokenTells, Tokens
    <3> QED BY <3>1, <3>3
  <2> QED BY <2>1, <2>2, <2>3 DEF EtcdInv
<1>3. CASE ~Compares(t)
  <2>1. UNCHANGED kv BY <1>3 DEF ApplyLate
  <2> QED BY <1>1, <2>1 DEF EtcdInv, EtcdType, Counting, RecordTells, CallTells, TokenTells
<1> QED BY <1>2, <1>3

LEMMA TransactTells ==
    ASSUME EtcdInv, NEW n \in Nodes, Transact(n)
    PROVE  EtcdInv' /\ (EtcdService!Take \/ UNCHANGED <<kv.rec.epoch, kv.epoch>>)
<1>1. Txn(n) \in Txns /\ Txn(n).base = Txn(n).mod /\ Txn(n).by = n /\ Txn(n).lease = node[n].lease
  BY TxnType DEF Transact
<1>2. UNCHANGED <<alive, granted, late>> BY DEF Transact
<1>3. CASE Compares(Txn(n))
  <2>1. /\ kv' = Applied(Txn(n)) /\ node' = [node EXCEPT ![n] = NoCall]
        /\ tok' = [tok EXCEPT ![n] = [NoToken EXCEPT !.epoch = kv'.epoch, !.lease = node[n].lease]]
    BY <1>3 DEF Transact
  <2>2. /\ kv' \in [epoch : Nat, mod : Nat, rec : Records] /\ kv'.epoch = kv'.mod
        /\ kv'.rec.epoch = kv'.epoch /\ kv'.rec.lease \in alive
        /\ \A m \in Nodes : tok[m].epoch # 0 => tok[m].epoch < kv'.epoch
        /\ EtcdService!Take
    BY <1>1, <1>3, <2>1, ApplyTells
  <2>3. kv'.rec.by = n /\ kv'.rec.lease = node[n].lease /\ kv'.epoch \in Nat \ {0}
    <3>1. kv'.rec = [by |-> Txn(n).by, epoch |-> kv.epoch + 1, lease |-> Txn(n).lease]
          /\ kv'.epoch = kv.epoch + 1
      BY <1>1, <1>3, <2>1, AppliedCounts
    <3>2. kv.epoch \in Nat BY DEF EtcdInv, EtcdType
    <3> QED BY <1>1, <3>1, <3>2
  <2>4. Moves(n) /\ node'[n] = NoCall BY <2>1, EndsType
  <2>5. node[n].lease \in Nat \ {0} BY DEF EtcdInv, EtcdType, Calls, CallTells, Transact
  <2>6. tok' \in [Nodes -> Tokens] /\ tok'[n].epoch = kv'.epoch /\ tok'[n].lease = node[n].lease
        /\ \A m \in Nodes \ {n} : tok'[m] = tok[m]
    BY <2>1, <2>3, <2>5 DEF EtcdInv, EtcdType, Tokens, NoToken
  <2>7. EtcdType' /\ Counting' /\ RecordTells'
    BY <1>2, <2>2, <2>4, <2>6 DEF EtcdInv, EtcdType, Counting, RecordTells, Moves
  <2>8. ASSUME NEW m \in Nodes PROVE CallTells(m)' /\ TokenTells(m)'
    <3>1. CallTells(m)' BY <2>4, <2>6 DEF EtcdInv, CallTells, Moves, NoCall, Renewing
    <3>2. TokenTells(m)'
      <4>1. \A l \in Nodes : tok[l].epoch \in Nat BY DEF EtcdInv, EtcdType, Tokens
      <4>2. CASE m = n BY <2>2, <2>3, <2>5, <2>6, <4>1, <4>2 DEF TokenTells
      <4>3. CASE m # n BY <2>2, <2>3, <2>6, <4>1, <4>3 DEF EtcdInv, TokenTells
      <4> QED BY <4>2, <4>3
    <3> QED BY <3>1, <3>2
  <2> QED BY <2>2, <2>7, <2>8 DEF EtcdInv
<1>4. CASE ~Compares(Txn(n))
  <2>1. node' = Turn(n, "look") /\ UNCHANGED <<kv, tok>> BY <1>4 DEF Transact
  <2>2. Moves(n) /\ node'[n].at = "look" /\ node'[n].lease = node[n].lease BY <2>1, MovesOn DEF Places
  <2>3. CallTells(n)' BY <2>2 DEF Transact, EtcdInv, CallTells, Renewing
  <2>4. late' \subseteq Txns /\ (\A t \in late' : t.base = t.mod) BY <1>2, LeftBehind
  <2>5. granted' \in Nat /\ alive' \subseteq Nat \ {0} BY <1>2 DEF EtcdInv, EtcdType
  <2> QED BY <1>2, <2>1, <2>2, <2>3, <2>4, <2>5, KeptWhole, QuietTells
<1> QED BY <1>3, <1>4

-----------------------------------------------------------------------------
LEMMA EtcdInitTells == EtcdInit => EtcdInv /\ EtcdService!LeaseServiceInit
BY DEF EtcdInit, EtcdInv, EtcdType, Counting, RecordTells, CallTells, TokenTells, NoRecord, NoCall,
       NoToken, Records, Calls, Places, Renewing, Tokens, EtcdService!LeaseServiceInit

LEMMA EtcdStepTells ==
    ASSUME EtcdInv, [EtcdNext]_etcdVars
    PROVE  /\ EtcdInv'
           /\ [EtcdService!Take \/ EtcdService!Drop]_<<kv.rec.epoch, kv.epoch>>
<1>1. CASE UNCHANGED etcdVars
  BY <1>1 DEF etcdVars, EtcdInv, EtcdType, Counting, RecordTells, CallTells, TokenTells
<1>2. CASE EtcdNext
  <2>1. ASSUME NEW l \in alive, Expire(l)
        PROVE  EtcdInv' /\ (EtcdService!Drop \/ UNCHANGED <<kv.rec.epoch, kv.epoch>>)
    BY <2>1, ExpireTells
  <2>2. ASSUME NEW t \in late, ApplyLate(t)
        PROVE  EtcdInv' /\ (EtcdService!Take \/ UNCHANGED <<kv.rec.epoch, kv.epoch>>)
    BY <2>2, ApplyLateTells
  <2>3. ASSUME NEW n \in Nodes, \/ Unanswered(n) \/ Acquire(n) \/ Grant(n) \/ ReadEpoch(n)
                               \/ LookAgain(n) \/ CancelAcquire(n) \/ Renew(n) \/ RenewReads(n)
                               \/ KeepAlive(n) \/ RenewEnds(n) \/ Lapse(n) \/ Release(n) \/ Die(n)
        PROVE  EtcdInv' /\ UNCHANGED <<kv.rec.epoch, kv.epoch>>
    BY <2>3, UnansweredTells, AcquireTells, GrantTells, HolderTells
  <2>4. ASSUME NEW n \in Nodes, Transact(n)
        PROVE  EtcdInv' /\ (EtcdService!Take \/ UNCHANGED <<kv.rec.epoch, kv.epoch>>)
    BY <2>4, TransactTells
  <2>5. ASSUME NEW n \in Nodes, GiveBack(n)
        PROVE  EtcdInv' /\ (EtcdService!Drop \/ UNCHANGED <<kv.rec.epoch, kv.epoch>>)
    BY <2>5, GiveBackTells
  <2> QED BY <1>2, <2>1, <2>2, <2>3, <2>4, <2>5 DEF EtcdNext
<1> QED BY <1>1, <1>2

\* EtcdHttpLeaseCoordinator implements the service that the executor, the ledger and
\* the recovery of plans rely on: one lease at a time, each with an epoch of its own,
\* and tokens that tell what their node put into the lease key, for any number of
\* nodes, endpoints, attempts and leases, whatever requests are lost, repeated or late.
THEOREM LeaseServiceImplemented == EtcdSpec => ImplementsLeaseService
<1>1. EtcdInv => TokensAreHonest
  <2> SUFFICES ASSUME EtcdInv PROVE TokensAreHonest OBVIOUS
  <2>1. ASSUME NEW n \in Nodes, tok[n] # NoToken
        PROVE  /\ tok[n].epoch \in 1 .. kv.epoch
               /\ \A m \in Nodes \ {n} : tok[m].epoch # tok[n].epoch
               /\ kv.rec.epoch = tok[n].epoch => kv.rec.by = n /\ kv.rec.lease = tok[n].lease
    BY <2>1 DEF EtcdInv, EtcdType, Tokens, TokenTells
  <2>2. kv.rec # NoRecord => kv.rec.lease \in alive BY DEF EtcdInv, RecordTells
  <2> QED BY <2>1, <2>2 DEF TokensAreHonest
<1>2. EtcdInv /\ [EtcdNext]_etcdVars
        => EtcdInv' /\ [EtcdService!Take \/ EtcdService!Drop]_<<kv.rec.epoch, kv.epoch>>
  BY EtcdStepTells
<1> QED BY <1>1, <1>2, EtcdInitTells, PTL DEF EtcdSpec, ImplementsLeaseService, EtcdService!LeaseServiceSpec

-----------------------------------------------------------------------------
(* The runtimes of a deployment.  What a runtime has depends on where it is: *)
(* it owns the deployment from the row on until the step that releases it,   *)
(* and it comes to that step only when its runners are stopped and its        *)
(* adapter is closed, or could not be.                                       *)

BuiltItems == {"adapter", "owner", "token", "coordinator", "queues", "energy", "storage",
               "audit_storage", "database", "approval_database", "audit_database"}
RuntimeItems == BuiltItems \cup {"workers"}
CloseSteps == RuntimeItems \cup {"executor", "lifecycle", "supervisor", "mqtt"}

\* Before the row, and after it.
EarlyStages == {"config", "compose", "storage", "audit", "approvals", "lock", "row"}
LateStages == {"lease", "restore", "connect", "policies", "recover", "reconcile", "services",
               "plane", "bundles"}

\* The place of each step in its order.
CleanupPlace == [adapter |-> 1, owner |-> 2, token |-> 3, coordinator |-> 4, queues |-> 5,
                 energy |-> 6, storage |-> 7, audit_storage |-> 8, database |-> 9,
                 approval_database |-> 10, audit_database |-> 11, done |-> 12]
ClosePlace == [executor |-> 1, lifecycle |-> 2, supervisor |-> 3, mqtt |-> 4, adapter |-> 5,
               owner |-> 6, token |-> 7, coordinator |-> 8, queues |-> 9, workers |-> 10,
               energy |-> 11, storage |-> 12, audit_storage |-> 13, database |-> 14,
               approval_database |-> 15, audit_database |-> 16, done |-> 17]
BeforeOwner == {"executor", "lifecycle", "supervisor", "mqtt", "adapter"}

Stations == {"off", "built", "running", "done"} \cup EarlyStages \cup LateStages \cup CloseSteps
Runtimes == [at : Stations, way : {"off", "build", "fail", "run", "close"},
             has : SUBSET RuntimeItems, link : BOOLEAN, runners : BOOLEAN,
             raised : SUBSET CloseSteps]

LifecycleType ==
    /\ engine \in {"sqlite", "postgres"}
    /\ ownedBy \in Procs \cup {"nobody"} /\ flockBy \in Procs \cup {"nobody"}
    /\ rt \in [Procs -> Runtimes]

OffTells(p) == rt[p].way = "off" => rt[p] = NoRuntime

BuildTells(p) ==
    rt[p].way = "build" =>
        /\ rt[p].at \in EarlyStages \cup LateStages
        /\ rt[p].raised = {} /\ ~rt[p].runners /\ rt[p].has \subseteq BuiltItems
        /\ "owner" \in rt[p].has <=> rt[p].at \in LateStages
        /\ rt[p].link => "owner" \in rt[p].has

RunTells(p) ==
    rt[p].way = "run" => rt[p].at \in {"built", "running"} /\ rt[p].raised = {} /\ "owner" \in rt[p].has

FailTells(p) ==
    rt[p].way = "fail" =>
        /\ rt[p].at \in BuiltItems \cup {"done"} /\ ~rt[p].runners /\ rt[p].has \subseteq BuiltItems
        /\ \A i \in rt[p].has : i \in rt[p].raised \/ CleanupPlace[i] >= CleanupPlace[rt[p].at]
        /\ rt[p].link => (rt[p].at = "adapter" /\ "owner" \in rt[p].has) \/ "adapter" \in rt[p].raised

\* The executor or the runners could not be stopped: all that is left stays.
Stuck(p) == rt[p].raised \cap {"executor", "lifecycle"} # {}

CloseTells(p) ==
    rt[p].way = "close" =>
        /\ rt[p].at \in CloseSteps \cup {"done"}
        /\ rt[p].at \in BeforeOwner \/ Stuck(p) => "owner" \in rt[p].has \ rt[p].raised
        /\ Stuck(p) => rt[p].at = "done"
        /\ rt[p].runners => rt[p].at \in {"executor", "lifecycle"} \/ Stuck(p)
        /\ rt[p].link => \/ rt[p].at \in BeforeOwner \/ Stuck(p)
                     \/ rt[p].raised \cap {"supervisor", "adapter"} # {}
        /\ "owner" \in rt[p].has /\ rt[p].at \notin BeforeOwner \cup {"owner"} =>
             Stuck(p) \/ "owner" \in rt[p].raised
        /\ rt[p].raised = {} => \A i \in rt[p].has : ClosePlace[i] >= ClosePlace[rt[p].at]

\* Who has got past the lock holds it; who has got past the row is its owner.
OwnerTells(p) ==
    /\ Is(p, "row") /\ engine = "sqlite" => flockBy = p
    /\ "owner" \in rt[p].has \ rt[p].raised => ownedBy = p /\ (engine = "sqlite" => flockBy = p)

RuntimeTells(p) ==
    /\ IsFiniteSet(rt[p].raised) /\ Cardinality(rt[p].raised) <= MaxRaises
    /\ OffTells(p) /\ BuildTells(p) /\ RunTells(p) /\ FailTells(p) /\ CloseTells(p)

LifecycleInv ==
    /\ LifecycleType
    /\ \A p \in Procs : RuntimeTells(p) /\ OwnerTells(p)

-----------------------------------------------------------------------------
(* The two orders *)

LEMMA CleanupGoesOn ==
    /\ CleanupOrder["start"] = "adapter" /\ CleanupPlace["adapter"] = 1 /\ CleanupPlace["done"] = 12
    /\ \A s \in BuiltItems :
         /\ CleanupOrder[s] \in BuiltItems \cup {"done"} /\ CleanupOrder[s] # "adapter"
         /\ CleanupPlace[s] \in 1..11 /\ CleanupPlace[CleanupOrder[s]] = CleanupPlace[s] + 1
    /\ \A s, t \in BuiltItems : CleanupPlace[s] = CleanupPlace[t] => s = t
<1>1. CleanupOrder["start"] = "adapter" /\ CleanupPlace["adapter"] = 1 /\ CleanupPlace["done"] = 12
  BY DEF CleanupOrder, CleanupPlace
<1>2. ASSUME NEW s \in BuiltItems
      PROVE  /\ CleanupOrder[s] \in BuiltItems \cup {"done"} /\ CleanupOrder[s] # "adapter"
             /\ CleanupPlace[s] \in 1..11 /\ CleanupPlace[CleanupOrder[s]] = CleanupPlace[s] + 1
  BY DEF CleanupOrder, CleanupPlace, BuiltItems
<1>3. \A s, t \in BuiltItems : CleanupPlace[s] = CleanupPlace[t] => s = t
  BY DEF CleanupPlace, BuiltItems
<1> QED BY <1>1, <1>2, <1>3

LEMMA CloseGoesOn ==
    /\ CloseOrder["start"] = "executor" /\ ClosePlace["executor"] = 1 /\ ClosePlace["done"] = 17
    /\ CloseOrder["executor"] = "lifecycle" /\ CloseOrder["token"] = "coordinator"
    /\ \A s \in CloseSteps :
         /\ CloseOrder[s] \in CloseSteps \cup {"done"}
         /\ ClosePlace[s] \in 1..16 /\ ClosePlace[CloseOrder[s]] = ClosePlace[s] + 1
         /\ s \in BeforeOwner \ {"adapter"} => CloseOrder[s] \in BeforeOwner
         /\ s = "adapter" => CloseOrder[s] = "owner"
         /\ s \notin BeforeOwner => CloseOrder[s] \notin BeforeOwner \cup {"owner"}
    /\ \A s, t \in CloseSteps : ClosePlace[s] = ClosePlace[t] => s = t
<1>1. /\ CloseOrder["start"] = "executor" /\ ClosePlace["executor"] = 1 /\ ClosePlace["done"] = 17
      /\ CloseOrder["executor"] = "lifecycle" /\ CloseOrder["token"] = "coordinator"
  BY DEF CloseOrder, ClosePlace
<1>2. ASSUME NEW s \in CloseSteps
      PROVE  /\ CloseOrder[s] \in CloseSteps \cup {"done"}
             /\ ClosePlace[s] \in 1..16 /\ ClosePlace[CloseOrder[s]] = ClosePlace[s] + 1
             /\ s \in BeforeOwner \ {"adapter"} => CloseOrder[s] \in BeforeOwner
             /\ s = "adapter" => CloseOrder[s] = "owner"
             /\ s \notin BeforeOwner => CloseOrder[s] \notin BeforeOwner \cup {"owner"}
  BY DEF CloseOrder, ClosePlace, CloseSteps, RuntimeItems, BuiltItems, BeforeOwner
<1>3. \A s, t \in CloseSteps : ClosePlace[s] = ClosePlace[t] => s = t
  BY DEF ClosePlace, CloseSteps, RuntimeItems, BuiltItems
<1> QED BY <1>1, <1>2, <1>3

-----------------------------------------------------------------------------
(* One process moves *)

LEMMA RuntimeFields ==
    ASSUME NEW x \in Runtimes
    PROVE  /\ x.at \in Stations /\ x.way \in {"off", "build", "fail", "run", "close"}
           /\ x.has \subseteq RuntimeItems /\ x.link \in BOOLEAN /\ x.runners \in BOOLEAN
           /\ x.raised \subseteq CloseSteps
BY DEF Runtimes

LEMMA OthersRest ==
    ASSUME LifecycleInv, NEW p \in Procs, NEW q \in Procs, rt'[q] = rt[q]
    PROVE  RuntimeTells(q)'
<1>1. RuntimeTells(q) BY DEF LifecycleInv
<1>2. OffTells(q)' /\ BuildTells(q)' BY <1>1 DEF RuntimeTells, OffTells, BuildTells
<1>3. RunTells(q)' /\ FailTells(q)' BY <1>1 DEF RuntimeTells, RunTells, FailTells
<1>4. CloseTells(q)' BY <1>1 DEF RuntimeTells, CloseTells, Stuck
<1> QED BY <1>1, <1>2, <1>3, <1>4 DEF RuntimeTells

LEMMA BecomeKeeps ==
    ASSUME LifecycleInv, NEW p \in Procs, NEW x \in Runtimes, rt' = [rt EXCEPT ![p] = x],
           RuntimeTells(p)', engine' = engine,
           ownedBy' \in Procs \cup {"nobody"}, flockBy' \in Procs \cup {"nobody"},
           x.way = "build" /\ x.at = "row" /\ engine = "sqlite" => flockBy' = p,
           "owner" \in x.has \ x.raised => ownedBy' = p /\ (engine = "sqlite" => flockBy' = p),
           \A q \in Procs \ {p} : (ownedBy = q => ownedBy' = q) /\ (flockBy = q => flockBy' = q)
    PROVE  LifecycleInv'
<1>1. rt \in [Procs -> Runtimes] /\ engine \in {"sqlite", "postgres"}
  BY DEF LifecycleInv, LifecycleType
<1>2. rt' \in [Procs -> Runtimes] /\ rt'[p] = x /\ \A q \in Procs \ {p} : rt'[q] = rt[q] BY <1>1
<1>3. LifecycleType' BY <1>1, <1>2 DEF LifecycleType
<1>4. \A q \in Procs : RuntimeTells(q)' BY <1>2, OthersRest
<1>5. \A q \in Procs : OwnerTells(q)'
  <2>1. TAKE q \in Procs
  <2>2. CASE q = p BY <1>2, <2>2 DEF OwnerTells, Is
  <2>3. CASE q # p
    <3>1. OwnerTells(q) /\ rt'[q] = rt[q] BY <1>2, <2>3 DEF LifecycleInv
    <3> QED BY <2>3, <3>1 DEF OwnerTells, Is
  <2> QED BY <2>2, <2>3
<1> QED BY <1>3, <1>4, <1>5 DEF LifecycleInv

\* A step of one process that leaves the row and the lock as they are.
LEMMA QuietKeeps ==
    ASSUME LifecycleInv, NEW p \in Procs, NEW x \in Runtimes, rt' = [rt EXCEPT ![p] = x],
           RuntimeTells(p)', UNCHANGED <<engine, ownedBy, flockBy>>,
           x.way = "build" => x.at # "row",
           "owner" \in x.has \ x.raised => "owner" \in rt[p].has \ rt[p].raised
    PROVE  LifecycleInv'
<1>1. /\ engine' = engine /\ ownedBy' = ownedBy /\ flockBy' = flockBy /\ OwnerTells(p)
      /\ ownedBy \in Procs \cup {"nobody"} /\ flockBy \in Procs \cup {"nobody"}
  BY DEF LifecycleInv, LifecycleType
<1>2. "owner" \in x.has \ x.raised => ownedBy' = p /\ (engine = "sqlite" => flockBy' = p)
  BY <1>1 DEF OwnerTells
<1> QED BY <1>1, <1>2, BecomeKeeps

\* What is known of a runtime that is being built, and what is enough for one.
LEMMA Building ==
    ASSUME LifecycleInv, NEW p \in Procs, rt[p].way = "build"
    PROVE  /\ rt[p] \in Runtimes /\ rt[p].at \in EarlyStages \cup LateStages
           /\ rt[p].raised = {} /\ rt[p].runners = FALSE /\ rt[p].has \subseteq BuiltItems
           /\ "owner" \in rt[p].has <=> rt[p].at \in LateStages
           /\ rt[p].link => "owner" \in rt[p].has
           /\ rt[p].link \in BOOLEAN
<1>1. rt[p] \in Runtimes /\ BuildTells(p) BY DEF LifecycleInv, LifecycleType, RuntimeTells
<1> QED BY <1>1, RuntimeFields DEF BuildTells

LEMMA BuiltOn ==
    ASSUME LifecycleInv, NEW p \in Procs, NEW x \in Runtimes, rt' = [rt EXCEPT ![p] = x],
           x.way = "build", x.at \in EarlyStages \cup LateStages, x.raised = {}, ~x.runners,
           x.has \subseteq BuiltItems, "owner" \in x.has <=> x.at \in LateStages,
           x.link => "owner" \in x.has
    PROVE  RuntimeTells(p)'
<1>1. rt'[p] = x BY DEF LifecycleInv, LifecycleType
<1>2. IsFiniteSet({}) /\ Cardinality({}) = 0 /\ 0 <= MaxRaises BY FS_EmptySet, LifecycleAssumption
<1>3. BuildTells(p)' BY <1>1 DEF BuildTells
<1>4. OffTells(p)' /\ RunTells(p)' /\ FailTells(p)' /\ CloseTells(p)'
  BY <1>1 DEF OffTells, RunTells, FailTells, CloseTells
<1> QED BY <1>1, <1>2, <1>3, <1>4 DEF RuntimeTells

\* The stages that only go on, before the row or after it.
LEMMA StageKeeps ==
    ASSUME LifecycleInv, NEW p \in Procs, rt[p].way = "build",
           NEW x \in Runtimes, rt' = [rt EXCEPT ![p] = x],
           x.way = rt[p].way, x.raised = rt[p].raised, x.runners = rt[p].runners,
           NEW what, what \subseteq BuiltItems, "owner" \notin what, x.has = rt[p].has \cup what,
           \/ rt[p].at \in EarlyStages /\ x.at \in EarlyStages \ {"row"} /\ x.link = rt[p].link
           \/ rt[p].at \in LateStages /\ x.at \in LateStages,
           UNCHANGED <<engine, ownedBy, flockBy>>
    PROVE  LifecycleInv'
<1>1. /\ rt[p].raised = {} /\ rt[p].runners = FALSE /\ rt[p].has \subseteq BuiltItems
      /\ "owner" \in rt[p].has <=> rt[p].at \in LateStages
      /\ rt[p].link => "owner" \in rt[p].has
  BY Building
<1>2. EarlyStages \cap LateStages = {} /\ "row" \notin LateStages BY DEF EarlyStages, LateStages
<1>3. "owner" \in x.has <=> x.at \in LateStages BY <1>1, <1>2
<1>4. x.link => "owner" \in x.has BY <1>1, <1>2
<1>5. RuntimeTells(p)' BY <1>1, <1>3, <1>4, BuiltOn
<1> QED BY <1>1, <1>2, <1>5, QuietKeeps

LEMMA ReachKeeps ==
    ASSUME LifecycleInv, NEW p \in Procs, NEW s \in EarlyStages \cup LateStages,
           NEW t \in EarlyStages \cup LateStages, t # "row", Is(p, s),
           NEW what, what \subseteq BuiltItems, "owner" \notin what,
           s \in LateStages <=> t \in LateStages, Reach(p, t, what), UNCHANGED <<engine, ownedBy, flockBy>>
    PROVE  LifecycleInv'
<1>1. rt[p].way = "build" /\ rt[p].at = s BY DEF Is
<1>2. PICK y \in Runtimes : y = rt[p] BY <1>1, Building
<1>3. what \subseteq RuntimeItems /\ t \in Stations BY DEF RuntimeItems, Stations
<1>4. PICK x : x = [y EXCEPT !.at = t, !.has = y.has \cup what] OBVIOUS
<1>5. /\ x \in Runtimes /\ x.at = t /\ x.way = y.way /\ x.has = y.has \cup what
      /\ x.raised = y.raised /\ x.runners = y.runners /\ x.link = y.link
  BY <1>3, <1>4 DEF Runtimes
<1>6. rt' = [rt EXCEPT ![p] = x] BY <1>2, <1>4 DEF Reach, Become
<1> QED BY <1>1, <1>2, <1>5, <1>6, StageKeeps

\* The same for the stages before the row.
LEMMA ReachEarly ==
    ASSUME LifecycleInv, NEW p \in Procs, NEW s \in EarlyStages, NEW t \in EarlyStages, t # "row",
           Is(p, s), NEW what, what \subseteq BuiltItems, "owner" \notin what,
           Reach(p, t, what), UNCHANGED <<engine, ownedBy, flockBy>>
    PROVE  LifecycleInv'
<1>1. s \notin LateStages /\ t \notin LateStages BY DEF EarlyStages, LateStages
<1> QED BY <1>1, ReachKeeps

\* And for those after it.
LEMMA ReachLate ==
    ASSUME LifecycleInv, NEW p \in Procs, NEW s \in LateStages, NEW t \in LateStages,
           Is(p, s), NEW what, what \subseteq BuiltItems, "owner" \notin what,
           Reach(p, t, what), UNCHANGED <<engine, ownedBy, flockBy>>
    PROVE  LifecycleInv'
<1>1. t # "row" BY DEF LateStages
<1> QED BY <1>1, ReachKeeps

LEMMA StagesGoOn ==
    ASSUME LifecycleInv, NEW p \in Procs,
           \/ ResolveConfig(p) \/ ComposeAdapter(p) \/ OpenStorage(p) \/ OpenAudit(p)
           \/ OpenApprovals(p) \/ TakeLease(p) \/ RestoreState(p) \/ LoadPolicies(p)
           \/ RecoverRows(p) \/ ReconcileActuators(p) \/ ComposeServices(p)
    PROVE  LifecycleInv'
<1>1. CASE ResolveConfig(p)
  <2>1. {"coordinator"} \subseteq BuiltItems /\ "owner" \notin {"coordinator"} BY DEF BuiltItems
  <2>2. "config" \in EarlyStages /\ "compose" \in EarlyStages /\ "compose" # "row" BY DEF EarlyStages
  <2>3. CASE engine = "postgres"
    <3>1. Is(p, "config") /\ Reach(p, "compose", {"coordinator"}) /\ UNCHANGED <<engine, ownedBy, flockBy>>
      BY <1>1, <2>3 DEF ResolveConfig
    <3> QED BY <2>1, <2>2, <3>1, ReachEarly
  <2>4. CASE engine # "postgres"
    <3>1. Is(p, "config") /\ Reach(p, "compose", {}) /\ UNCHANGED <<engine, ownedBy, flockBy>>
      BY <1>1, <2>4 DEF ResolveConfig
    <3> QED BY <2>2, <3>1, ReachEarly
  <2> QED BY <2>3, <2>4
<1>2. CASE ComposeAdapter(p)
  <2>1. {"queues", "adapter", "energy"} \subseteq BuiltItems /\ "owner" \notin {"queues", "adapter", "energy"} BY DEF BuiltItems
  <2>2. "compose" \in EarlyStages /\ "storage" \in EarlyStages /\ "storage" # "row" BY DEF EarlyStages
  <2> QED BY <1>2, <2>1, <2>2, ReachEarly DEF ComposeAdapter
<1>3. CASE OpenStorage(p)
  <2>1. {"database", "storage", "audit_storage"} \subseteq BuiltItems /\ "owner" \notin {"database", "storage", "audit_storage"} BY DEF BuiltItems
  <2>2. "storage" \in EarlyStages /\ "audit" \in EarlyStages /\ "audit" # "row" BY DEF EarlyStages
  <2> QED BY <1>3, <2>1, <2>2, ReachEarly DEF OpenStorage
<1>4. CASE OpenAudit(p)
  <2>1. {"audit_database"} \subseteq BuiltItems /\ "owner" \notin {"audit_database"} BY DEF BuiltItems
  <2>2. "audit" \in EarlyStages /\ "approvals" \in EarlyStages /\ "approvals" # "row" BY DEF EarlyStages
  <2> QED BY <1>4, <2>1, <2>2, ReachEarly DEF OpenAudit
<1>5. CASE OpenApprovals(p)
  <2>1. {"approval_database"} \subseteq BuiltItems /\ "owner" \notin {"approval_database"} BY DEF BuiltItems
  <2>2. "approvals" \in EarlyStages /\ "lock" \in EarlyStages /\ "lock" # "row" BY DEF EarlyStages
  <2> QED BY <1>5, <2>1, <2>2, ReachEarly DEF OpenApprovals
<1>6. CASE TakeLease(p)
  <2>1. {"token"} \subseteq BuiltItems /\ "owner" \notin {"token"} BY DEF BuiltItems
  <2> QED BY <1>6, <2>1, ReachLate DEF TakeLease, LateStages
<1>7. {} \subseteq BuiltItems OBVIOUS
<1>8. CASE RestoreState(p) BY <1>7, <1>8, ReachLate DEF RestoreState, LateStages
<1>9. CASE LoadPolicies(p) BY <1>7, <1>9, ReachLate DEF LoadPolicies, LateStages
<1>10. CASE RecoverRows(p) BY <1>7, <1>10, ReachLate DEF RecoverRows, LateStages
<1>11. CASE ReconcileActuators(p) BY <1>7, <1>11, ReachLate DEF ReconcileActuators, LateStages
<1>12. CASE ComposeServices(p) BY <1>7, <1>12, ReachLate DEF ComposeServices, LateStages
<1> QED BY <1>1, <1>2, <1>3, <1>4, <1>5, <1>6, <1>8, <1>9, <1>10, <1>11, <1>12

LEMMA LinksGoOn ==
    ASSUME LifecycleInv, NEW p \in Procs, Connect(p) \/ RecoverConnections(p)
    PROVE  LifecycleInv'
<1>1. /\ rt[p].way = "build" /\ rt[p].at \in LateStages /\ UNCHANGED <<engine, ownedBy, flockBy>>
  BY DEF Connect, RecoverConnections, Is, LateStages
<1>2. PICK y \in Runtimes : y = rt[p] BY <1>1, Building
<1>3. y.link \in BOOLEAN BY RuntimeFields
<1>4. PICK t \in {"policies", "bundles"}, up \in BOOLEAN :
        rt' = [rt EXCEPT ![p] = [y EXCEPT !.at = t, !.link = up]]
  BY <1>2, <1>3 DEF Connect, RecoverConnections, Become
<1>5. PICK x : x = [y EXCEPT !.at = t, !.link = up] OBVIOUS
<1>6. t \in Stations /\ t \in LateStages BY DEF LateStages, Stations
<1>7. /\ x \in Runtimes /\ x.at = t /\ x.way = y.way /\ x.has = y.has
      /\ x.raised = y.raised /\ x.runners = y.runners /\ x.link = up
  BY <1>5, <1>6 DEF Runtimes
<1>8. rt' = [rt EXCEPT ![p] = x] BY <1>4, <1>5
<1>9. PICK what : what \subseteq BuiltItems /\ what = {} OBVIOUS
<1>10. x.has = rt[p].has \cup what /\ "owner" \notin what BY <1>2, <1>7, <1>9
<1> QED BY <1>1, <1>2, <1>6, <1>7, <1>8, <1>9, <1>10, StageKeeps

\* The lock, then the row.
LEMMA TakeLockKeeps == ASSUME LifecycleInv, NEW p \in Procs, TakeLock(p) PROVE LifecycleInv'
<1>1. rt[p].way = "build" /\ rt[p].at = "lock" BY DEF TakeLock, Is
<1>2. PICK y \in Runtimes : y = rt[p] BY <1>1, Building
<1>3. "row" \in Stations BY DEF Stations, EarlyStages
<1>4. PICK x : x = [y EXCEPT !.at = "row", !.has = y.has \cup {}] OBVIOUS
<1>5. /\ x \in Runtimes /\ x.at = "row" /\ x.way = y.way /\ x.has = y.has \cup {}
      /\ x.raised = y.raised /\ x.runners = y.runners /\ x.link = y.link
  BY <1>3, <1>4 DEF Runtimes
<1>6. rt' = [rt EXCEPT ![p] = x] BY <1>2, <1>4 DEF TakeLock, Reach, Become
<1>7. "lock" \notin LateStages /\ "row" \notin LateStages /\ "row" \in EarlyStages
  BY DEF LateStages, EarlyStages
<1>8. /\ y.raised = {} /\ y.runners = FALSE /\ y.has \subseteq BuiltItems /\ "owner" \notin y.has
      /\ ~y.link
  BY <1>1, <1>2, <1>7, Building
<1>9. RuntimeTells(p)' BY <1>1, <1>2, <1>5, <1>6, <1>7, <1>8, BuiltOn
<1>10. /\ engine' = engine /\ ownedBy' = ownedBy
       /\ engine = "sqlite" => flockBy = "nobody" /\ flockBy' = p
       /\ engine # "sqlite" => flockBy' = flockBy
       /\ flockBy \in Procs \cup {"nobody"} /\ ownedBy \in Procs \cup {"nobody"}
  BY DEF TakeLock, LifecycleInv, LifecycleType
<1>11. \A q \in Procs \ {p} : (ownedBy = q => ownedBy' = q) /\ (flockBy = q => flockBy' = q)
  BY <1>10, LifecycleAssumption
<1> QED BY <1>5, <1>6, <1>8, <1>9, <1>10, <1>11, BecomeKeeps

LEMMA TakeRowKeeps == ASSUME LifecycleInv, NEW p \in Procs, TakeRow(p) PROVE LifecycleInv'
<1>1. rt[p].way = "build" /\ rt[p].at = "row" BY DEF TakeRow, Is
<1>2. PICK y \in Runtimes : y = rt[p] BY <1>1, Building
<1>3. PICK t \in {"lease", "restore"} : t = IF engine = "postgres" THEN "lease" ELSE "restore" OBVIOUS
<1>4. t \in Stations /\ {"owner"} \subseteq RuntimeItems /\ {"owner"} \subseteq BuiltItems
  BY DEF RuntimeItems, BuiltItems, Stations, LateStages
<1>5. PICK x : x = [y EXCEPT !.at = t, !.has = y.has \cup {"owner"}] OBVIOUS
<1>6. /\ x \in Runtimes /\ x.at = t /\ x.way = y.way /\ x.has = y.has \cup {"owner"}
      /\ x.raised = y.raised /\ x.runners = y.runners /\ x.link = y.link
  BY <1>4, <1>5 DEF Runtimes
<1>7. rt' = [rt EXCEPT ![p] = x] BY <1>2, <1>3, <1>5 DEF TakeRow, Reach, Become
<1>8. t \in LateStages /\ t # "row" BY DEF LateStages
<1>9. y.raised = {} /\ y.runners = FALSE /\ y.has \subseteq BuiltItems BY <1>1, <1>2, Building
<1>10. RuntimeTells(p)' BY <1>1, <1>2, <1>4, <1>6, <1>7, <1>8, <1>9, BuiltOn
<1>11. /\ engine' = engine /\ ownedBy' = p /\ ownedBy = "nobody" /\ flockBy' = flockBy
       /\ flockBy \in Procs \cup {"nobody"} /\ OwnerTells(p)
  BY DEF TakeRow, RowFree, LifecycleInv, LifecycleType
<1>12. engine = "sqlite" => flockBy' = p BY <1>1, <1>11 DEF OwnerTells, Is
<1>13. \A q \in Procs \ {p} : (ownedBy = q => ownedBy' = q) /\ (flockBy = q => flockBy' = q)
  BY <1>11, LifecycleAssumption
<1> QED BY <1>6, <1>7, <1>8, <1>10, <1>11, <1>12, <1>13, BecomeKeeps

\* What is enough for a runtime that is neither being built nor off.
LEMMA ClosingOn ==
    ASSUME LifecycleInv, NEW p \in Procs, NEW x \in Runtimes, rt' = [rt EXCEPT ![p] = x],
           IsFiniteSet(x.raised), Cardinality(x.raised) <= MaxRaises,
           x.way \in {"run", "fail", "close"}, RunTells(p)', FailTells(p)', CloseTells(p)'
    PROVE  RuntimeTells(p)'
<1>1. rt'[p] = x BY DEF LifecycleInv, LifecycleType
<1> QED BY <1>1 DEF RuntimeTells, OffTells, BuildTells

LEMMA NoneRaised == IsFiniteSet({}) /\ Cardinality({}) <= MaxRaises
<1>1. IsFiniteSet({}) /\ Cardinality({}) = 0 BY FS_EmptySet
<1> QED BY <1>1, LifecycleAssumption

LEMMA RtIs == ASSUME LifecycleInv, NEW p \in Procs PROVE rt[p] \in Runtimes /\ RuntimeTells(p)
BY DEF LifecycleInv, LifecycleType

LEMMA RecoverBundlesKeeps == ASSUME LifecycleInv, NEW p \in Procs, RecoverBundles(p) PROVE LifecycleInv'
<1>1. rt[p].way = "build" /\ rt[p].at = "bundles" /\ UNCHANGED <<engine, ownedBy, flockBy>>
  BY DEF RecoverBundles, Is
<1>2. PICK y \in Runtimes : y = rt[p] BY <1>1, Building
<1>3. PICK x : x = [y EXCEPT !.at = "built", !.way = "run", !.has = y.has \cup {"workers"}] OBVIOUS
<1>4. "built" \in Stations /\ "workers" \in RuntimeItems BY DEF Stations, RuntimeItems
<1>5. /\ x \in Runtimes /\ x.at = "built" /\ x.way = "run" /\ x.has = y.has \cup {"workers"}
      /\ x.raised = y.raised
  BY <1>3, <1>4 DEF Runtimes
<1>6. rt' = [rt EXCEPT ![p] = x] BY <1>2, <1>3 DEF RecoverBundles, Become
<1>7. y.raised = {} /\ "owner" \in y.has BY <1>1, <1>2, Building DEF LateStages
<1>8. rt'[p] = x BY <1>6 DEF LifecycleInv, LifecycleType
<1>9. RunTells(p)' /\ FailTells(p)' /\ CloseTells(p)'
  BY <1>5, <1>7, <1>8 DEF RunTells, FailTells, CloseTells
<1>10. RuntimeTells(p)' BY <1>5, <1>6, <1>7, <1>9, NoneRaised, ClosingOn
<1> QED BY <1>1, <1>2, <1>5, <1>6, <1>7, <1>10, QuietKeeps

LEMMA BootKeeps == ASSUME LifecycleInv, NEW p \in Procs, Boot(p) PROVE LifecycleInv'
<1>1. rt[p] = NoRuntime /\ UNCHANGED <<engine, ownedBy, flockBy>> BY DEF Boot
<1>2. PICK y \in Runtimes : y = NoRuntime BY <1>1, RtIs
<1>3. PICK x : x = [y EXCEPT !.at = "config", !.way = "build"] OBVIOUS
<1>4. "config" \in Stations /\ "config" \in EarlyStages /\ "config" \notin LateStages
  BY DEF Stations, EarlyStages, LateStages
<1>5. y.has = {} /\ y.link = FALSE /\ y.runners = FALSE /\ y.raised = {} BY <1>2 DEF NoRuntime
<1>6. /\ x \in Runtimes /\ x.at = "config" /\ x.way = "build" /\ x.has = {} /\ x.link = FALSE
      /\ x.runners = FALSE /\ x.raised = {}
  BY <1>3, <1>4, <1>5 DEF Runtimes
<1>7. rt' = [rt EXCEPT ![p] = x] BY <1>1, <1>2, <1>3 DEF Boot, Become
<1>8. RuntimeTells(p)' BY <1>4, <1>6, <1>7, BuiltOn
<1> QED BY <1>1, <1>6, <1>7, <1>8, QuietKeeps

LEMMA BuildFailsKeeps == ASSUME LifecycleInv, NEW p \in Procs, BuildFails(p) PROVE LifecycleInv'
<1>1. rt[p].way = "build" BY DEF BuildFails
<1>2. PICK y \in Runtimes : y = rt[p] BY <1>1, Building
<1>3. PICK x : x = [y EXCEPT !.at = "adapter", !.way = "fail"] OBVIOUS
<1>4. "adapter" \in Stations /\ "adapter" \in BuiltItems BY DEF Stations, BuiltItems, CloseSteps, RuntimeItems
<1>5. /\ x \in Runtimes /\ x.at = "adapter" /\ x.way = "fail" /\ x.has = y.has /\ x.link = y.link
      /\ x.runners = y.runners /\ x.raised = y.raised
  BY <1>3, <1>4 DEF Runtimes
<1>6. rt' = [rt EXCEPT ![p] = x] BY <1>2, <1>3, CleanupGoesOn DEF BuildFails, Become
<1>7. /\ y.raised = {} /\ y.runners = FALSE /\ y.has \subseteq BuiltItems
      /\ "owner" \in y.has <=> y.at \in LateStages
      /\ y.link => "owner" \in y.has
  BY <1>1, <1>2, Building
<1>8. rt'[p] = x BY <1>6 DEF LifecycleInv, LifecycleType
<1>9. \A i \in x.has : CleanupPlace[i] >= CleanupPlace["adapter"] BY <1>5, <1>7, CleanupGoesOn
<1>10. FailTells(p)' BY <1>4, <1>5, <1>7, <1>8, <1>9 DEF FailTells
<1>11. RunTells(p)' /\ CloseTells(p)' BY <1>5, <1>8 DEF RunTells, CloseTells
<1>12. RuntimeTells(p)' BY <1>5, <1>6, <1>7, <1>10, <1>11, NoneRaised, ClosingOn
<1>13. /\ engine' = engine /\ ownedBy' = ownedBy /\ OwnerTells(p)
       /\ ownedBy \in Procs \cup {"nobody"} /\ flockBy \in Procs \cup {"nobody"}
       /\ flockBy' = IF y.at = "row" THEN Unlocked(p) ELSE flockBy
  BY <1>2 DEF BuildFails, LifecycleInv, LifecycleType
<1>14. flockBy' \in Procs \cup {"nobody"} /\ \A q \in Procs \ {p} : flockBy = q => flockBy' = q
  BY <1>13 DEF Unlocked
<1>15. "owner" \in x.has \ x.raised => ownedBy' = p /\ (engine = "sqlite" => flockBy' = p)
  <2>1. "row" \notin LateStages BY DEF LateStages
  <2> QED BY <1>2, <1>5, <1>7, <1>13, <2>1 DEF OwnerTells
<1> QED BY <1>5, <1>6, <1>12, <1>13, <1>14, <1>15, BecomeKeeps

LEMMA Running ==
    ASSUME LifecycleInv, NEW p \in Procs, rt[p].way = "run"
    PROVE  /\ rt[p] \in Runtimes /\ rt[p].at \in {"built", "running"}
           /\ rt[p].raised = {} /\ "owner" \in rt[p].has
<1>1. rt[p] \in Runtimes /\ RunTells(p) BY RtIs DEF RuntimeTells
<1> QED BY <1>1 DEF RunTells

LEMMA StartKeeps == ASSUME LifecycleInv, NEW p \in Procs, Start(p) PROVE LifecycleInv'
<1>1. rt[p].way = "run" /\ UNCHANGED <<engine, ownedBy, flockBy>> BY DEF Start
<1>2. PICK y \in Runtimes : y = rt[p] /\ y.raised = {} /\ "owner" \in y.has BY <1>1, Running
<1>3. PICK x : x = [y EXCEPT !.at = "running", !.runners = TRUE] OBVIOUS
<1>4. "running" \in Stations BY DEF Stations
<1>5. x \in Runtimes /\ x.at = "running" /\ x.way = y.way /\ x.has = y.has /\ x.raised = y.raised
  BY <1>3, <1>4 DEF Runtimes
<1>6. rt' = [rt EXCEPT ![p] = x] BY <1>2, <1>3 DEF Start, Become
<1>7. rt'[p] = x BY <1>6 DEF LifecycleInv, LifecycleType
<1>8. RunTells(p)' /\ FailTells(p)' /\ CloseTells(p)'
  BY <1>1, <1>2, <1>5, <1>7 DEF RunTells, FailTells, CloseTells
<1>9. RuntimeTells(p)' BY <1>1, <1>2, <1>5, <1>6, <1>8, NoneRaised, ClosingOn
<1> QED BY <1>1, <1>2, <1>5, <1>6, <1>9, QuietKeeps

LEMMA AskCloseKeeps == ASSUME LifecycleInv, NEW p \in Procs, AskClose(p) PROVE LifecycleInv'
<1>1. rt[p].way = "run" /\ UNCHANGED <<engine, ownedBy, flockBy>> BY DEF AskClose
<1>2. PICK y \in Runtimes : y = rt[p] /\ y.raised = {} /\ "owner" \in y.has BY <1>1, Running
<1>3. PICK x : x = [y EXCEPT !.at = "executor", !.way = "close"] OBVIOUS
<1>4. "executor" \in Stations /\ "executor" \in CloseSteps /\ "executor" \in BeforeOwner
  BY DEF Stations, CloseSteps, BeforeOwner
<1>5. x \in Runtimes /\ x.at = "executor" /\ x.way = "close" /\ x.has = y.has /\ x.raised = y.raised
  BY <1>3, <1>4 DEF Runtimes
<1>6. rt' = [rt EXCEPT ![p] = x] BY <1>2, <1>3, CloseGoesOn DEF AskClose, Become
<1>7. rt'[p] = x BY <1>6 DEF LifecycleInv, LifecycleType
<1>8. \A i \in x.has : ClosePlace[i] >= ClosePlace["executor"]
  <2>1. x.has \subseteq CloseSteps BY <1>5, RuntimeFields DEF CloseSteps
  <2> QED BY <2>1, CloseGoesOn
<1>9. CloseTells(p)' BY <1>2, <1>4, <1>5, <1>7, <1>8 DEF CloseTells, Stuck
<1>10. RunTells(p)' /\ FailTells(p)' BY <1>5, <1>7 DEF RunTells, FailTells
<1>11. RuntimeTells(p)' BY <1>2, <1>5, <1>6, <1>9, <1>10, NoneRaised, ClosingOn
<1> QED BY <1>1, <1>2, <1>5, <1>6, <1>11, QuietKeeps

LEMMA LinkChangesKeeps == ASSUME LifecycleInv, NEW p \in Procs, LinkChanges(p) PROVE LifecycleInv'
<1>1. rt[p].runners /\ rt[p].way \in {"run", "close"} /\ UNCHANGED <<engine, ownedBy, flockBy>>
  BY DEF LinkChanges
<1>2. PICK y \in Runtimes : y = rt[p] BY RtIs
<1>3. PICK x : x = [y EXCEPT !.link = ~y.link] OBVIOUS
<1>4. y.link \in BOOLEAN BY RuntimeFields
<1>5. /\ x \in Runtimes /\ x.at = y.at /\ x.way = y.way /\ x.has = y.has /\ x.raised = y.raised
      /\ x.runners = y.runners
  BY <1>3, <1>4 DEF Runtimes
<1>6. rt' = [rt EXCEPT ![p] = x] BY <1>2, <1>3 DEF LinkChanges, Become
<1>7. rt'[p] = x BY <1>6 DEF LifecycleInv, LifecycleType
<1>8. RuntimeTells(p) BY RtIs
<1>9. RunTells(p)' /\ FailTells(p)'
  BY <1>1, <1>2, <1>5, <1>7, <1>8 DEF RunTells, FailTells, RuntimeTells
<1>10. CloseTells(p)'
  <2>1. {"executor", "lifecycle"} \subseteq BeforeOwner BY DEF BeforeOwner
  <2> QED BY <1>1, <1>2, <1>5, <1>7, <1>8, <2>1 DEF CloseTells, RuntimeTells, Stuck
<1>11. IsFiniteSet(x.raised) /\ Cardinality(x.raised) <= MaxRaises
  BY <1>2, <1>5, <1>8 DEF RuntimeTells
<1>12. RuntimeTells(p)' BY <1>1, <1>2, <1>5, <1>6, <1>9, <1>10, <1>11, ClosingOn
<1> QED BY <1>1, <1>2, <1>5, <1>6, <1>12, QuietKeeps

\* A step that releases what is p's, or nothing.
LEMMA ReleaseKeeps ==
    ASSUME LifecycleInv, NEW p \in Procs, NEW x \in Runtimes, rt' = [rt EXCEPT ![p] = x],
           RuntimeTells(p)', engine' = engine, x.way # "build",
           ownedBy' = ownedBy \/ (ownedBy = p /\ ownedBy' = "nobody"),
           flockBy' = flockBy \/ flockBy' = Unlocked(p),
           "owner" \in x.has \ x.raised =>
             "owner" \in rt[p].has \ rt[p].raised /\ ownedBy' = ownedBy /\ flockBy' = flockBy
    PROVE  LifecycleInv'
<1>1. OwnerTells(p) /\ ownedBy \in Procs \cup {"nobody"} /\ flockBy \in Procs \cup {"nobody"}
  BY DEF LifecycleInv, LifecycleType
<1>2. /\ ownedBy' \in Procs \cup {"nobody"} /\ flockBy' \in Procs \cup {"nobody"}
      /\ \A q \in Procs \ {p} : (ownedBy = q => ownedBy' = q) /\ (flockBy = q => flockBy' = q)
  BY <1>1 DEF Unlocked
<1>3. "owner" \in x.has \ x.raised => ownedBy' = p /\ (engine = "sqlite" => flockBy' = p)
  BY <1>1 DEF OwnerTells
<1> QED BY <1>2, <1>3, BecomeKeeps

\* What is known of a runtime that is being undone or closed.
LEMMA ClosingAt ==
    ASSUME LifecycleInv, NEW p \in Procs, Closing(p)
    PROVE  /\ rt[p].way \in {"fail", "close"}
           /\ rt[p].way = "fail" => rt[p].at \in BuiltItems /\ FailTells(p)
           /\ rt[p].way = "close" => rt[p].at \in CloseSteps /\ CloseTells(p) /\ ~Stuck(p)
<1>1. RuntimeTells(p) /\ rt[p].way \in {"fail", "close"} /\ rt[p].at # "done" BY RtIs DEF Closing
<1>2. rt[p].way = "fail" => rt[p].at \in BuiltItems /\ FailTells(p)
  BY <1>1 DEF RuntimeTells, FailTells
<1>3. rt[p].way = "close" => rt[p].at \in CloseSteps /\ CloseTells(p) /\ ~Stuck(p)
  BY <1>1 DEF RuntimeTells, CloseTells
<1> QED BY <1>1, <1>2, <1>3

LEMMA CloseStepKeeps == ASSUME LifecycleInv, NEW p \in Procs, CloseStep(p) PROVE LifecycleInv'
<1>1. Closing(p) /\ engine' = engine BY DEF CloseStep
<1>2. PICK y \in Runtimes : y = rt[p] BY RtIs
<1>3. PICK s : s = y.at OBVIOUS
<1>4. PICK t : t = Order(p)[s] OBVIOUS
<1>5. y.way \in {"fail", "close"} BY <1>1, <1>2, ClosingAt
<1>6. /\ y.way = "fail" => s \in BuiltItems /\ t = CleanupOrder[s]
      /\ y.way = "close" => s \in CloseSteps /\ t = CloseOrder[s]
  BY <1>1, <1>2, <1>3, <1>4, ClosingAt DEF Order
<1>7. t \in CloseSteps \cup {"done"} /\ t \in Stations
  <2>1. BuiltItems \subseteq CloseSteps BY DEF CloseSteps, RuntimeItems
  <2>2. CloseSteps \cup {"done"} \subseteq Stations BY DEF Stations
  <2>3. t \in CloseSteps \cup {"done"} BY <1>5, <1>6, <2>1, CleanupGoesOn, CloseGoesOn
  <2> QED BY <2>2, <2>3
<1>8. PICK x : x = [y EXCEPT !.at = t, !.has = y.has \ {s}, !.runners = y.runners /\ s # "lifecycle",
                             !.link = y.link /\ s # "adapter"]
  OBVIOUS
<1>9. y.runners \in BOOLEAN /\ y.link \in BOOLEAN BY RuntimeFields
<1>10. /\ x \in Runtimes /\ x.at = t /\ x.way = y.way /\ x.has = y.has \ {s} /\ x.raised = y.raised
       /\ x.runners = (y.runners /\ s # "lifecycle") /\ x.link = (y.link /\ s # "adapter")
  BY <1>7, <1>8, <1>9 DEF Runtimes
<1>11. rt' = [rt EXCEPT ![p] = x] BY <1>2, <1>3, <1>4, <1>8 DEF CloseStep, Become
<1>12. rt'[p] = x BY <1>11 DEF LifecycleInv, LifecycleType
<1>13. FailTells(p)'
  <2>1. CASE y.way = "fail"
    <3>1. FailTells(p) /\ s \in BuiltItems /\ t = CleanupOrder[s] BY <1>1, <1>2, <1>6, <2>1, ClosingAt
    <3>2. /\ t \in BuiltItems \cup {"done"} /\ CleanupPlace[s] \in Nat
          /\ CleanupPlace[t] = CleanupPlace[s] + 1
      BY <3>1, CleanupGoesOn
    <3>3. /\ ~y.runners /\ y.has \subseteq BuiltItems
          /\ \A i \in y.has : i \in y.raised \/ CleanupPlace[i] >= CleanupPlace[s]
          /\ y.link => s = "adapter" \/ "adapter" \in y.raised
      BY <1>2, <1>3, <2>1, <3>1 DEF FailTells
    <3>4. \A i \in x.has : i \in x.raised \/ CleanupPlace[i] >= CleanupPlace[t]
      <4>1. TAKE i \in x.has
      <4>2. i \in BuiltItems /\ i # s /\ CleanupPlace[i] \in Nat BY <1>10, <3>3, CleanupGoesOn
      <4>3. CleanupPlace[i] # CleanupPlace[s] BY <3>1, <4>2, CleanupGoesOn
      <4> QED BY <1>10, <3>2, <3>3, <4>2, <4>3
    <3> QED BY <1>10, <1>12, <3>2, <3>3, <3>4 DEF FailTells
  <2> QED BY <1>5, <1>10, <1>12, <2>1 DEF FailTells
<1>14. CloseTells(p)'
  <2>1. CASE y.way = "close"
    <3>1. CloseTells(p) /\ ~Stuck(p) /\ s \in CloseSteps /\ t = CloseOrder[s]
      BY <1>1, <1>2, <1>6, <2>1, ClosingAt
    <3>2. /\ ClosePlace[s] \in Nat /\ ClosePlace[t] = ClosePlace[s] + 1
          /\ s \in BeforeOwner \ {"adapter"} => t \in BeforeOwner
          /\ s = "adapter" => t = "owner"
          /\ s \notin BeforeOwner => t \notin BeforeOwner \cup {"owner"}
      BY <3>1, CloseGoesOn
    <3>3. "owner" \notin BeforeOwner /\ "executor" \in BeforeOwner /\ "lifecycle" \in BeforeOwner
      BY DEF BeforeOwner
    <3>4. /\ s \in BeforeOwner => "owner" \in y.has \ y.raised
          /\ y.runners => s \in {"executor", "lifecycle"}
          /\ y.link => s \in BeforeOwner \/ y.raised \cap {"supervisor", "adapter"} # {}
          /\ "owner" \in y.has /\ s \notin BeforeOwner \cup {"owner"} => "owner" \in y.raised
          /\ y.raised = {} => \A i \in y.has : ClosePlace[i] >= ClosePlace[s]
          /\ y.raised \cap {"executor", "lifecycle"} = {}
      BY <1>2, <1>3, <2>1, <3>1 DEF CloseTells, Stuck
    <3>5. t \in BeforeOwner => "owner" \in x.has \ x.raised BY <1>10, <3>2, <3>3, <3>4
    <3>6. x.runners => t \in {"executor", "lifecycle"} BY <1>10, <3>1, <3>4, CloseGoesOn
    <3>7. x.link => t \in BeforeOwner \/ x.raised \cap {"supervisor", "adapter"} # {}
      BY <1>10, <3>2, <3>4
    <3>8. "owner" \in x.has /\ t \notin BeforeOwner \cup {"owner"} => "owner" \in x.raised
      BY <1>10, <3>2, <3>4
    <3>9. x.raised = {} => \A i \in x.has : ClosePlace[i] >= ClosePlace[t]
      <4>1. HAVE x.raised = {}
      <4>2. TAKE i \in x.has
      <4>3. y.has \subseteq CloseSteps BY RuntimeFields DEF CloseSteps
      <4>4. i \in CloseSteps /\ i # s /\ ClosePlace[i] \in Nat BY <1>10, <4>3, CloseGoesOn
      <4>5. ClosePlace[i] # ClosePlace[s] BY <3>1, <4>4, CloseGoesOn
      <4> QED BY <1>10, <3>2, <3>4, <4>1, <4>4, <4>5
    <3> QED BY <1>7, <1>10, <1>12, <3>4, <3>5, <3>6, <3>7, <3>8, <3>9 DEF CloseTells, Stuck
  <2> QED BY <1>5, <1>10, <1>12, <2>1 DEF CloseTells
<1>15. RunTells(p)' BY <1>5, <1>10, <1>12 DEF RunTells
<1>16. RuntimeTells(p)'
  <2>1. IsFiniteSet(x.raised) /\ Cardinality(x.raised) <= MaxRaises
    BY <1>2, <1>10, RtIs DEF RuntimeTells
  <2> QED BY <1>5, <1>10, <1>11, <1>13, <1>14, <1>15, <2>1, ClosingOn
<1>17. /\ ownedBy' = ownedBy \/ (ownedBy = p /\ ownedBy' = "nobody")
       /\ flockBy' = flockBy \/ flockBy' = Unlocked(p)
       /\ s # "owner" => ownedBy' = ownedBy /\ flockBy' = flockBy
  BY <1>2, <1>3 DEF CloseStep
<1> QED BY <1>1, <1>2, <1>5, <1>10, <1>11, <1>16, <1>17, ReleaseKeeps

LEMMA CloseRaisesKeeps == ASSUME LifecycleInv, NEW p \in Procs, CloseRaises(p) PROVE LifecycleInv'
<1>1. Closing(p) /\ engine' = engine /\ ownedBy' = ownedBy BY DEF CloseRaises
<1>2. PICK y \in Runtimes : y = rt[p] BY RtIs
<1>3. PICK s : s = y.at OBVIOUS
<1>4. PICK t : t = Rescue(p, s) OBVIOUS
<1>5. y.way \in {"fail", "close"} BY <1>1, <1>2, ClosingAt
<1>6. /\ y.way = "fail" => s \in BuiltItems /\ FailTells(p) /\ t = CleanupOrder[s]
      /\ y.way = "close" => s \in CloseSteps /\ CloseTells(p) /\ ~Stuck(p)
  <2>1. y.way = "fail" => t = CleanupOrder[s] BY <1>2, <1>4 DEF Rescue
  <2> QED BY <1>1, <1>2, <1>3, <2>1, ClosingAt
<1>7. y.way = "close" =>
        /\ s = "mqtt" => t = "adapter"
        /\ s \in {"supervisor", "adapter"} => t = "owner"
        /\ s = "token" => t = "coordinator"
        /\ s \notin {"mqtt", "supervisor", "adapter", "token"} => t = "done"
  <2>1. HAVE y.way = "close"
  <2>2. rt[p].way # "fail" BY <1>2, <2>1
  <2> QED BY <1>4, <2>2, CloseGoesOn DEF Rescue
<1>8. s \in CloseSteps /\ t \in CloseSteps \cup {"done"} /\ t \in Stations
  <2>1. BuiltItems \subseteq CloseSteps BY DEF CloseSteps, RuntimeItems
  <2>2. CloseSteps \cup {"done"} \subseteq Stations BY DEF Stations
  <2>3. {"adapter", "owner", "coordinator"} \subseteq CloseSteps BY DEF CloseSteps, RuntimeItems, BuiltItems
  <2>4. t \in CloseSteps \cup {"done"} BY <1>5, <1>6, <1>7, <2>1, <2>3, CleanupGoesOn
  <2> QED BY <1>5, <1>6, <2>1, <2>2, <2>4
<1>9. PICK x : x = [y EXCEPT !.at = t, !.raised = y.raised \cup {s}] OBVIOUS
<1>10. /\ x \in Runtimes /\ x.at = t /\ x.way = y.way /\ x.has = y.has /\ x.link = y.link
       /\ x.runners = y.runners /\ x.raised = y.raised \cup {s}
  BY <1>8, <1>9 DEF Runtimes
<1>11. rt' = [rt EXCEPT ![p] = x] BY <1>2, <1>3, <1>4, <1>9 DEF CloseRaises, Become
<1>12. rt'[p] = x BY <1>11 DEF LifecycleInv, LifecycleType
<1>13. FailTells(p)'
  <2>1. CASE y.way = "fail"
    <3>1. /\ t \in BuiltItems \cup {"done"} /\ CleanupPlace[s] \in Nat
          /\ CleanupPlace[t] = CleanupPlace[s] + 1
      BY <1>6, <2>1, CleanupGoesOn
    <3>2. /\ ~y.runners /\ y.has \subseteq BuiltItems
          /\ \A i \in y.has : i \in y.raised \/ CleanupPlace[i] >= CleanupPlace[s]
          /\ y.link => s = "adapter" \/ "adapter" \in y.raised
      BY <1>2, <1>3, <1>6, <2>1 DEF FailTells
    <3>3. \A i \in x.has : i \in x.raised \/ CleanupPlace[i] >= CleanupPlace[t]
      <4>1. TAKE i \in x.has
      <4>2. CASE i = s BY <1>10, <4>2
      <4>3. CASE i # s
        <5>1. i \in BuiltItems /\ CleanupPlace[i] \in Nat BY <1>10, <3>2, CleanupGoesOn
        <5>2. CleanupPlace[i] # CleanupPlace[s] BY <1>6, <2>1, <4>3, <5>1, CleanupGoesOn
        <5> QED BY <1>10, <3>1, <3>2, <5>1, <5>2
      <4> QED BY <4>2, <4>3
    <3> QED BY <1>10, <1>12, <3>1, <3>2, <3>3 DEF FailTells
  <2> QED BY <1>5, <1>10, <1>12, <2>1 DEF FailTells
<1>14. CloseTells(p)'
  <2>1. CASE y.way = "close"
    <3>1. /\ s \in BeforeOwner => "owner" \in y.has \ y.raised
          /\ y.runners => s \in {"executor", "lifecycle"}
          /\ y.link => s \in BeforeOwner \/ y.raised \cap {"supervisor", "adapter"} # {}
          /\ "owner" \in y.has /\ s \notin BeforeOwner \cup {"owner"} => "owner" \in y.raised
          /\ y.raised \cap {"executor", "lifecycle"} = {}
      BY <1>2, <1>3, <1>6, <2>1 DEF CloseTells, Stuck
    <3>2. x.raised # {} /\ Stuck(p)' <=> s \in {"executor", "lifecycle"}
      BY <1>10, <1>12, <3>1 DEF Stuck
    <3>3. CASE s \in {"executor", "lifecycle"}
      <4>1. "owner" \in x.has \ x.raised /\ t = "done" /\ Stuck(p)' /\ x.raised # {}
        BY <1>7, <1>10, <2>1, <3>1, <3>2, <3>3 DEF BeforeOwner
      <4> QED BY <1>8, <1>10, <1>12, <4>1 DEF CloseTells
    <3>4. CASE s = "mqtt"
      <4>1. "owner" \in x.has \ x.raised /\ t = "adapter" /\ t \in BeforeOwner /\ x.raised # {} /\ ~x.runners
        BY <1>7, <1>10, <2>1, <3>1, <3>4 DEF BeforeOwner
      <4>2. ~Stuck(p)' BY <3>2, <3>4, <1>10
      <4> QED BY <1>8, <1>10, <1>12, <4>1, <4>2 DEF CloseTells
    <3>5. CASE s \in {"supervisor", "adapter"}
      <4>1. /\ t = "owner" /\ t \notin BeforeOwner /\ ~x.runners
            /\ x.raised \cap {"supervisor", "adapter"} # {} /\ x.raised # {}
        BY <1>7, <1>10, <2>1, <3>1, <3>5 DEF BeforeOwner
      <4>2. ~Stuck(p)' BY <3>2, <3>5, <1>10
      <4> QED BY <1>8, <1>10, <1>12, <4>1, <4>2 DEF CloseTells
    <3>6. CASE s \notin {"executor", "lifecycle", "mqtt", "supervisor", "adapter"}
      <4>1. s \notin BeforeOwner /\ t \notin BeforeOwner
        BY <1>7, <2>1, <3>6 DEF BeforeOwner
      <4>2. ~x.runners /\ x.raised # {} /\ (x.link => x.raised \cap {"supervisor", "adapter"} # {})
        BY <1>10, <3>1, <3>6, <4>1
      <4>3. "owner" \in x.has => "owner" \in x.raised
        BY <1>10, <3>1, <4>1
      <4>4. ~Stuck(p)' BY <3>2, <3>6, <1>10
      <4> QED BY <1>8, <1>10, <1>12, <4>1, <4>2, <4>3, <4>4 DEF CloseTells
    <3> QED BY <3>3, <3>4, <3>5, <3>6
  <2> QED BY <1>5, <1>10, <1>12, <2>1 DEF CloseTells
<1>15. RunTells(p)' BY <1>5, <1>10, <1>12 DEF RunTells
<1>16. IsFiniteSet(x.raised) /\ Cardinality(x.raised) <= MaxRaises
  <2>1. IsFiniteSet(y.raised) /\ Cardinality(y.raised) < MaxRaises
    BY <1>2, RtIs DEF RuntimeTells, CloseRaises
  <2>2. PICK r : r = y.raised OBVIOUS
  <2>3. PICK n \in Nat : n = Cardinality(r) BY <2>1, <2>2, FS_CardinalityType
  <2>4. IsFiniteSet(r \cup {s}) /\ Cardinality(r \cup {s}) = IF s \in r THEN n ELSE n + 1
    BY <2>1, <2>2, <2>3, FS_AddElement
  <2>5. n < MaxRaises BY <2>1, <2>2, <2>3
  <2>6. PICK m : m = Cardinality(r \cup {s}) OBVIOUS
  <2>7. m = n \/ m = n + 1 BY <2>4, <2>6
  <2>8. m <= MaxRaises BY <2>5, <2>7, LifecycleAssumption
  <2> QED BY <1>10, <2>2, <2>4, <2>6, <2>8
<1>17. RuntimeTells(p)' BY <1>5, <1>10, <1>11, <1>13, <1>14, <1>15, <1>16, ClosingOn
<1>18. flockBy' = (IF s = "owner" THEN Unlocked(p) ELSE flockBy) BY <1>2, <1>3 DEF CloseRaises
<1>19. "owner" \in x.has \ x.raised => "owner" \in y.has \ y.raised /\ flockBy' = flockBy
  BY <1>10, <1>18
<1> QED BY <1>1, <1>2, <1>5, <1>10, <1>11, <1>17, <1>18, <1>19, ReleaseKeeps

LEMMA OffKeeps ==
    ASSUME LifecycleInv, NEW p \in Procs, Exit(p) \/ Kill(p) PROVE LifecycleInv'
<1>1. /\ rt' = [rt EXCEPT ![p] = NoRuntime] /\ flockBy' = Unlocked(p)
      /\ engine' = engine /\ ownedBy' = ownedBy
  BY DEF Exit, Kill, Become
<1>2. NoRuntime \in Runtimes BY DEF NoRuntime, Runtimes, Stations
<1>3. PICK x \in Runtimes : x = NoRuntime BY <1>2
<1>4. x.way = "off" /\ x.has = {} /\ x.raised = {} BY <1>3 DEF NoRuntime
<1>5. rt' = [rt EXCEPT ![p] = x] BY <1>1, <1>3
<1>6. rt'[p] = x BY <1>5 DEF LifecycleInv, LifecycleType
<1>7. OffTells(p)' BY <1>3, <1>6 DEF OffTells
<1>8. BuildTells(p)' /\ RunTells(p)' /\ FailTells(p)' /\ CloseTells(p)'
  BY <1>4, <1>6 DEF BuildTells, RunTells, FailTells, CloseTells
<1>9. RuntimeTells(p)' BY <1>4, <1>6, <1>7, <1>8, NoneRaised DEF RuntimeTells
<1> QED BY <1>1, <1>4, <1>5, <1>9, ReleaseKeeps

LEMMA FreeStaleRowKeeps == ASSUME LifecycleInv, FreeStaleRow PROVE LifecycleInv'
<1>1. /\ engine = "sqlite" /\ flockBy = "nobody" /\ ownedBy' = "nobody"
      /\ engine' = engine /\ flockBy' = flockBy /\ rt' = rt
  BY DEF FreeStaleRow
<1>2. LifecycleType' BY <1>1 DEF LifecycleInv, LifecycleType
<1>3. ASSUME NEW p \in Procs PROVE RuntimeTells(p)' /\ OwnerTells(p)'
  <2>1. RuntimeTells(p)' BY <1>1, OthersRest
  <2>2. OwnerTells(p) /\ p # "nobody" BY LifecycleAssumption DEF LifecycleInv
  <2>3. OwnerTells(p)' BY <1>1, <2>2 DEF OwnerTells, Is
  <2> QED BY <2>1, <2>3
<1> QED BY <1>2, <1>3 DEF LifecycleInv

LEMMA LifecycleInitially == LifecycleInit => LifecycleInv
<1>1. SUFFICES ASSUME LifecycleInit PROVE LifecycleInv OBVIOUS
<1>2. NoRuntime \in Runtimes BY DEF NoRuntime, Runtimes, Stations
<1>3. LifecycleType BY <1>1, <1>2 DEF LifecycleInit, LifecycleType
<1>4. ASSUME NEW p \in Procs PROVE RuntimeTells(p) /\ OwnerTells(p)
  <2>1. PICK x : x = NoRuntime OBVIOUS
  <2>2. x.way = "off" /\ x.has = {} /\ x.raised = {} BY <2>1 DEF NoRuntime
  <2>3. rt[p] = x BY <1>1, <2>1 DEF LifecycleInit
  <2>4. OffTells(p) BY <2>1, <2>3 DEF OffTells
  <2>5. BuildTells(p) /\ RunTells(p) /\ FailTells(p) /\ CloseTells(p)
    BY <2>2, <2>3 DEF BuildTells, RunTells, FailTells, CloseTells
  <2>6. RuntimeTells(p) BY <2>2, <2>3, <2>4, <2>5, NoneRaised DEF RuntimeTells
  <2>7. OwnerTells(p) BY <2>2, <2>3 DEF OwnerTells, Is
  <2> QED BY <2>6, <2>7
<1> QED BY <1>3, <1>4 DEF LifecycleInv

LEMMA LifecycleStep == LifecycleInv /\ [LifecycleNext]_lifecycleVars => LifecycleInv'
<1>1. SUFFICES ASSUME LifecycleInv, [LifecycleNext]_lifecycleVars PROVE LifecycleInv' OBVIOUS
<1>2. CASE FreeStaleRow BY <1>1, <1>2, FreeStaleRowKeeps
<1>3. ASSUME NEW p \in Procs,
             \/ Boot(p) \/ ResolveConfig(p) \/ ComposeAdapter(p) \/ OpenStorage(p) \/ OpenAudit(p)
             \/ OpenApprovals(p) \/ TakeLock(p) \/ TakeRow(p) \/ TakeLease(p) \/ RestoreState(p)
             \/ Connect(p) \/ LoadPolicies(p) \/ RecoverRows(p) \/ ReconcileActuators(p)
             \/ ComposeServices(p) \/ RecoverConnections(p) \/ RecoverBundles(p) \/ BuildFails(p)
             \/ Start(p) \/ LinkChanges(p) \/ AskClose(p) \/ CloseStep(p) \/ CloseRaises(p)
             \/ Exit(p) \/ Kill(p)
      PROVE  LifecycleInv'
  <2>1. CASE \/ ResolveConfig(p) \/ ComposeAdapter(p) \/ OpenStorage(p) \/ OpenAudit(p)
             \/ OpenApprovals(p) \/ TakeLease(p) \/ RestoreState(p) \/ LoadPolicies(p)
             \/ RecoverRows(p) \/ ReconcileActuators(p) \/ ComposeServices(p)
    BY <1>1, <2>1, StagesGoOn
  <2>2. CASE Connect(p) \/ RecoverConnections(p) BY <1>1, <2>2, LinksGoOn
  <2>3. CASE Exit(p) \/ Kill(p) BY <1>1, <2>3, OffKeeps
  <2> QED BY <1>1, <1>3, <2>1, <2>2, <2>3, BootKeeps, TakeLockKeeps, TakeRowKeeps,
             RecoverBundlesKeeps, BuildFailsKeeps, StartKeeps, LinkChangesKeeps, AskCloseKeeps,
             CloseStepKeeps, CloseRaisesKeeps
<1>4. CASE UNCHANGED lifecycleVars
  <2>1. engine' = engine /\ flockBy' = flockBy /\ ownedBy' = ownedBy /\ rt' = rt
    BY <1>4 DEF lifecycleVars
  <2>2. LifecycleType' BY <1>1, <2>1 DEF LifecycleInv, LifecycleType
  <2>3. ASSUME NEW p \in Procs PROVE RuntimeTells(p)' /\ OwnerTells(p)'
    <3>1. RuntimeTells(p)' BY <1>1, <2>1, OthersRest
    <3>2. OwnerTells(p)' BY <1>1, <2>1 DEF OwnerTells, Is, LifecycleInv
    <3> QED BY <3>1, <3>2
  <2> QED BY <2>2, <2>3 DEF LifecycleInv
<1> QED BY <1>1, <1>2, <1>3, <1>4 DEF LifecycleNext

LEMMA LifecycleSays == LifecycleInv => LifecycleTypeOK /\ RuntimeIsTidy
<1>1. SUFFICES ASSUME LifecycleInv PROVE LifecycleTypeOK /\ RuntimeIsTidy OBVIOUS
<1>2. LifecycleTypeOK
  BY <1>1, RtIs, RuntimeFields DEF LifecycleInv, LifecycleType, LifecycleTypeOK, RuntimeTells
<1>3. ASSUME NEW p \in Procs
      PROVE  /\ Recovers(p) \/ rt[p].runners => "owner" \in rt[p].has /\ "owner" \notin rt[p].raised
             /\ rt[p].link => \/ "owner" \in rt[p].has
                             \/ rt[p].raised \cap {"supervisor", "adapter"} # {}
             /\ "owner" \in rt[p].has \ rt[p].raised =>
                  ownedBy = p /\ (engine = "sqlite" => flockBy = p)
  <2>1. RuntimeTells(p) /\ OwnerTells(p) /\ rt[p] \in Runtimes BY <1>1, RtIs DEF LifecycleInv
  <2>2. CASE rt[p].way = "off" BY <2>1, <2>2 DEF RuntimeTells, OffTells, NoRuntime, Recovers, Is, OwnerTells
  <2>3. CASE rt[p].way = "build"
    BY <2>1, <2>3 DEF RuntimeTells, BuildTells, Recovers, Is, OwnerTells, LateStages
  <2>4. CASE rt[p].way = "run" BY <2>1, <2>4 DEF RuntimeTells, RunTells, Recovers, Is, OwnerTells
  <2>5. CASE rt[p].way = "fail" BY <2>1, <2>5 DEF RuntimeTells, FailTells, Recovers, Is, OwnerTells
  <2>6. CASE rt[p].way = "close"
    <3>1. "executor" \in BeforeOwner /\ "lifecycle" \in BeforeOwner BY DEF BeforeOwner
    <3> QED BY <2>1, <2>6, <3>1 DEF RuntimeTells, CloseTells, Recovers, Is, OwnerTells
  <2> QED BY <2>1, <2>2, <2>3, <2>4, <2>5, <2>6, RuntimeFields
<1>4. ASSUME NEW p \in Procs, rt[p].at = "done"
      PROVE  /\ rt[p].way = "fail" => rt[p].has \subseteq rt[p].raised
             /\ rt[p].raised = {} => rt[p].has = {} /\ ~rt[p].runners /\ ~rt[p].link
             /\ "owner" \in rt[p].has => rt[p].raised \cap {"owner", "executor", "lifecycle"} # {}
  <2>1. RuntimeTells(p) /\ rt[p] \in Runtimes BY <1>1, RtIs
  <2>2. "done" \notin EarlyStages \cup LateStages /\ "done" \notin BeforeOwner \cup {"owner"}
    BY DEF EarlyStages, LateStages, BeforeOwner
  <2>3. rt[p].way \notin {"off", "build", "run"}
    BY <1>4, <2>1, <2>2 DEF RuntimeTells, OffTells, NoRuntime, BuildTells, RunTells
  <2>4. CASE rt[p].way = "fail"
    <3>1. /\ rt[p].has \subseteq BuiltItems
          /\ \A i \in rt[p].has : i \in rt[p].raised \/ CleanupPlace[i] >= CleanupPlace["done"]
          /\ ~rt[p].runners /\ (rt[p].link => "adapter" \in rt[p].raised)
      BY <1>4, <2>1, <2>4 DEF RuntimeTells, FailTells
    <3>2. rt[p].has \subseteq rt[p].raised BY <3>1, CleanupGoesOn
    <3> QED BY <3>1, <3>2
  <2>5. CASE rt[p].way = "close"
    <3>1. /\ rt[p].runners => Stuck(p)
          /\ rt[p].link => Stuck(p) \/ rt[p].raised \cap {"supervisor", "adapter"} # {}
          /\ "owner" \in rt[p].has => Stuck(p) \/ "owner" \in rt[p].raised
          /\ rt[p].raised = {} => \A i \in rt[p].has : ClosePlace[i] >= ClosePlace["done"]
      BY <1>4, <2>1, <2>2, <2>5 DEF RuntimeTells, CloseTells
    <3>2. rt[p].has \subseteq CloseSteps BY <2>1, RuntimeFields DEF CloseSteps
    <3>3. rt[p].raised = {} => rt[p].has = {} BY <3>1, <3>2, CloseGoesOn
    <3> QED BY <2>5, <3>1, <3>3 DEF Stuck
  <2> QED BY <2>1, <2>3, <2>4, <2>5, RuntimeFields
<1> QED BY <1>2, <1>3, <1>4 DEF RuntimeIsTidy

\* Whatever stage of a build fails, whichever closing steps raise and whichever process is
\* killed: a runtime that recovers rows or runs its runners owns the deployment, and what a
\* build or a close leaves behind is what it could not release.
THEOREM RuntimesAreTidy == LifecycleSpec => [](LifecycleTypeOK /\ RuntimeIsTidy)
BY LifecycleInitially, LifecycleStep, LifecycleSays, PTL DEF LifecycleSpec

-----------------------------------------------------------------------------
(* Owning and restoring the files.  Under the lock of a restore, and unless  *)
(* a runtime had its databases open already, nobody else touches a file, so  *)
(* that each place of the restore tells what is in the directory.            *)

Good == {c \in [stamp : Nat, owner : Nat] : c = Absent \/ c.stamp > 0}
Pairs == [main : Good, log : Good]
Sets == [Archives -> Good]
Directories == [at : {"copying", "manifest", "marked", "removed"}, copy : Sets, sums : Sets]
RestorePlaces == {"idle", "verified", "locked", "safe", "staged", "done", "undone"}
                    \cup Replacing \cup Undoing
RestoreStates == [at : RestorePlaces, from : Backups \cup {NoBackup}, staged : Sets,
                  saved : [Archives -> Pairs]]
Alive == {"opened", "owner", "closing"}

\* The first runtime creates the files, and from then on there are files.
FilesThere == \A m \in Archives : files[m].main # Absent

RestoreType ==
    /\ files \in [Archives -> Pairs] /\ proc \in [Runs -> Alive \cup {"new", "gone"}]
    /\ handles \in [Runs -> SUBSET Archives] /\ lock \in Runs \cup {NoRun, TheRestore}
    /\ dirs \in [Backups -> Directories] /\ restore \in RestoreStates
    /\ shared \in BOOLEAN /\ stamp \in Nat
    /\ FilesThere \/ Owner = NoRun

\* What is known of a runtime.
ProcTells(r) ==
    /\ proc[r] = "owner" <=> lock = r
    /\ proc[r] # "new" => FilesThere
    /\ ~shared =>
         /\ proc[r] \in Alive => handles[r] = Archives
         /\ lock = TheRestore => handles[r] = {}
         /\ proc[r] = "owner" => Owner = r

\* A backup with a manifest has every member.
DirTells(b) ==
    /\ dirs[b].at \in {"manifest", "marked"} => \A m \in Archives : dirs[b].sums[m] # Absent
    /\ \A m \in Archives : dirs[b].sums[m] # Absent => FilesThere

\* Where the restore is tells what it goes by ...
SourceTells ==
    /\ lock = TheRestore <=> restore.at \notin {"idle", "verified"}
    /\ restore.at # "idle" => restore.from \in Backups /\ dirs[restore.from].at = "marked"
    /\ restore.at \in {"staged", "done"} \cup Replacing =>
          restore.staged = Unowned(dirs[restore.from].sums)
    /\ restore.at \in {"done", "undone"} \cup Replacing \cup Undoing =>
          restore.saved \in rollbacks /\ \A m \in Archives : restore.saved[m].main # Absent

\* ... and what is in the directory.
TargetTells ==
    ~shared =>
        /\ restore.at = "swap audit" => files = restore.saved
        /\ restore.at \in {"log audit", "swap operational", "log operational", "done"} =>
              files["audit"].main = restore.staged["audit"]
        /\ restore.at \in {"swap operational", "log operational", "done"} =>
              files["audit"].log = Absent
        /\ restore.at \in {"log operational", "done"} =>
              files["operational"].main = restore.staged["operational"]
        /\ restore.at = "done" => files["operational"].log = Absent
        /\ restore.at \in {"undo audit", "undone"} =>
              files["operational"] = restore.saved["operational"]
        /\ restore.at = "undone" => files["audit"] = restore.saved["audit"]
        /\ replaced \subseteq rollbacks

RestoreInv ==
    /\ RestoreType /\ SourceTells /\ TargetTells
    /\ \A r \in Runs : ProcTells(r)
    /\ \A b \in Backups : DirTells(b)

-----------------------------------------------------------------------------
(* Files and contents *)

LEMMA Names ==
    /\ MaxStamp \in Nat /\ NoRun \notin Runs /\ TheRestore \notin Runs /\ TheRestore # NoRun
    /\ Runs \subseteq Nat /\ NoRun \in Nat
BY BackupAssumption DEF Runs, NoRun, TheRestore

LEMMA AbsentIs == Absent \in Good /\ Absent.owner = NoRun /\ Absent.stamp = 0
BY DEF Absent, Good, NoRun

LEMMA GarbageIs == Garbage \in Good
BY Names DEF Garbage, Good, NoRun

\* Setting a field of a content that is there.
LEMMA Rewritten ==
    ASSUME NEW c \in Good, c # Absent
    PROVE  /\ \A r \in Nat : LET d == [c EXCEPT !.owner = r] IN
                 d \in Good /\ d # Absent /\ d.owner = r
           /\ \A s \in Nat : s > 0 => LET d == [c EXCEPT !.stamp = s] IN
                 d \in Good /\ d # Absent /\ d.owner = c.owner
<1>1. c \in [stamp : Nat, owner : Nat] /\ c.stamp > 0 BY DEF Good
<1>2. ASSUME NEW r \in Nat PROVE LET d == [c EXCEPT !.owner = r] IN
                 d \in Good /\ d # Absent /\ d.owner = r
  <2>1. PICK d : d = [c EXCEPT !.owner = r] OBVIOUS
  <2>2. d \in [stamp : Nat, owner : Nat] /\ d.stamp = c.stamp /\ d.owner = r BY <1>1, <2>1
  <2>3. d \in Good /\ d # Absent BY <1>1, <2>2, AbsentIs DEF Good
  <2> QED BY <2>1, <2>2, <2>3
<1>3. ASSUME NEW s \in Nat, s > 0 PROVE LET d == [c EXCEPT !.stamp = s] IN
                 d \in Good /\ d # Absent /\ d.owner = c.owner
  <2>1. PICK d : d = [c EXCEPT !.stamp = s] OBVIOUS
  <2>2. d \in [stamp : Nat, owner : Nat] /\ d.stamp = s /\ d.owner = c.owner BY <1>1, <2>1
  <2>3. d \in Good /\ d # Absent BY <1>3, <2>2, AbsentIs DEF Good
  <2> QED BY <2>1, <2>2, <2>3
<1> QED BY <1>2, <1>3

\* What a connection reads of a pair of files.
LEMMA SeenIs ==
    ASSUME NEW f \in Pairs
    PROVE  /\ f.main \in Good /\ f.log \in Good /\ Seen(f) \in Good
           /\ f.main # Absent => Seen(f) # Absent
BY DEF Pairs, Seen

LEMMA CheckpointedIs ==
    ASSUME NEW f \in Pairs
    PROVE  /\ Checkpointed(f) \in Pairs /\ Seen(Checkpointed(f)) = Seen(f)
           /\ f.main # Absent => Checkpointed(f).main # Absent
<1>1. Seen(f) \in Good /\ (f.main # Absent => Seen(f) # Absent) BY SeenIs
<1>2. PICK g : g = [main |-> Seen(f), log |-> Absent] OBVIOUS
<1>3. g \in Pairs /\ g.main = Seen(f) /\ g.log = Absent BY <1>1, <1>2, AbsentIs DEF Pairs
<1>4. Checkpointed(f) = g BY <1>2 DEF Checkpointed
<1>5. Seen(g) = Seen(f) BY <1>3 DEF Seen
<1> QED BY <1>1, <1>3, <1>4, <1>5

LEMMA CommittedIs ==
    ASSUME NEW f \in Pairs, NEW c \in Good, c # Absent
    PROVE  /\ Committed(f, c) \in Pairs /\ Seen(Committed(f, c)) = c
           /\ Committed(f, c).main = f.main
<1>1. f.main \in Good BY SeenIs
<1>2. PICK g : g = [main |-> f.main, log |-> c] OBVIOUS
<1>3. g \in Pairs /\ g.main = f.main /\ g.log = c BY <1>1, <1>2 DEF Pairs
<1>4. Committed(f, c) = g BY <1>2 DEF Committed
<1>5. Seen(g) = c BY <1>3 DEF Seen
<1> QED BY <1>3, <1>4, <1>5

LEMMA LeasedIs ==
    ASSUME NEW f \in Pairs, Seen(f) # Absent, NEW r \in Nat
    PROVE  Leased(f, r) \in Pairs /\ Seen(Leased(f, r)).owner = r /\ Leased(f, r).main = f.main
<1>1. Seen(f) \in Good BY SeenIs
<1>2. PICK d : d = [Seen(f) EXCEPT !.owner = r] OBVIOUS
<1>3. d \in Good /\ d # Absent /\ d.owner = r BY <1>1, <1>2, Rewritten
<1> QED BY <1>2, <1>3, CommittedIs DEF Leased

LEMMA StoreType ==
    ASSUME RestoreInv
    PROVE  /\ files \in [Archives -> Pairs] /\ proc \in [Runs -> Alive \cup {"new", "gone"}]
           /\ handles \in [Runs -> SUBSET Archives] /\ lock \in Runs \cup {NoRun, TheRestore}
           /\ dirs \in [Backups -> Directories] /\ restore \in RestoreStates
           /\ shared \in BOOLEAN /\ stamp \in Nat
           /\ \A m \in Archives : files[m] \in Pairs
           /\ \A r \in Runs : ProcTells(r)
           /\ \A b \in Backups : DirTells(b) /\ dirs[b] \in Directories
           /\ SourceTells /\ TargetTells
           /\ FilesThere \/ Owner = NoRun
BY DEF RestoreInv, RestoreType

LEMMA RestoreFields ==
    ASSUME NEW x \in RestoreStates
    PROVE  /\ x.at \in RestorePlaces /\ x.from \in Backups \cup {NoBackup}
           /\ x.staged \in Sets /\ x.saved \in [Archives -> Pairs]
BY DEF RestoreStates

\* A runtime, or the administrator, does something outside a restore.
LEMMA RestoreRests ==
    ASSUME RestoreInv, restore' = restore, dirs' = dirs, rollbacks' = rollbacks,
           replaced' = replaced, shared => shared',
           lock' = TheRestore <=> lock = TheRestore, FilesThere => FilesThere',
           files' = files \/ lock # TheRestore \/ shared'
    PROVE  SourceTells' /\ TargetTells' /\ \A b \in Backups : DirTells(b)'
<1>1. SourceTells' BY StoreType DEF SourceTells
<1>2. TargetTells'
  <2>1. CASE shared' BY <2>1 DEF TargetTells
  <2>2. CASE ~shared' /\ files' = files BY <2>2, StoreType DEF TargetTells
  <2>3. CASE ~shared' /\ lock # TheRestore
    <3>1. restore.at \in {"idle", "verified"} /\ replaced \subseteq rollbacks
      BY <2>3, StoreType DEF SourceTells, TargetTells
    <3> QED BY <3>1 DEF TargetTells
  <2> QED BY <2>1, <2>2, <2>3
<1>3. ASSUME NEW b \in Backups PROVE DirTells(b)' BY StoreType DEF DirTells
<1> QED BY <1>1, <1>2, <1>3

\* The restore goes on under its lock, which no runtime holds.
LEMMA RunsRest ==
    ASSUME RestoreInv, lock = TheRestore, proc' = proc, shared' = shared,
           lock' \in {NoRun, TheRestore}, FilesThere => FilesThere',
           \A r \in Runs : handles'[r] \subseteq handles[r]
    PROVE  \A r \in Runs : ProcTells(r)'
<1>1. ASSUME NEW r \in Runs PROVE ProcTells(r)'
  <2>1. ProcTells(r) /\ proc[r] # "owner" /\ lock' # r BY Names, StoreType DEF ProcTells
  <2>2. ~shared => handles[r] = {} /\ proc[r] \notin Alive
    <3>1. Archives # {} BY DEF Archives
    <3> QED BY <2>1, <3>1 DEF ProcTells
  <2> QED BY <2>1, <2>2 DEF ProcTells
<1> QED BY <1>1

-----------------------------------------------------------------------------
(* Runtimes *)

\* A step of one runtime r: the others see the same database.
LEMMA RunMoves ==
    ASSUME RestoreInv, NEW r \in Runs, NEW p \in Alive \cup {"new", "gone"},
           proc' = [proc EXCEPT ![r] = p], handles' \in [Runs -> SUBSET Archives],
           \A s \in Runs \ {r} : handles'[s] = handles[s],
           files' \in [Archives -> Pairs], lock' \in Runs \cup {NoRun, TheRestore},
           lock' = lock \/ (lock = r /\ lock' = NoRun) \/ (lock = NoRun /\ lock' = r),
           shared' \in BOOLEAN, shared => shared', stamp' \in Nat,
           restore' = restore, dirs' = dirs, rollbacks' = rollbacks, replaced' = replaced,
           files' = files \/ lock # TheRestore \/ shared',
           FilesThere',
           \A s \in Runs \ {r} : ~shared' /\ proc[s] = "owner" => Owner' = Owner,
           ProcTells(r)'
    PROVE  RestoreInv'
<1>1. /\ proc' \in [Runs -> Alive \cup {"new", "gone"}]
      /\ \A s \in Runs \ {r} : proc'[s] = proc[s]
  BY StoreType
<1>2. RestoreType' BY <1>1, StoreType DEF RestoreType
<1>3. lock' = TheRestore <=> lock = TheRestore BY Names
<1>4. SourceTells' /\ TargetTells' /\ \A b \in Backups : DirTells(b)' BY <1>3, RestoreRests
<1>5. ASSUME NEW s \in Runs PROVE ProcTells(s)'
  <2>1. CASE s = r BY <2>1
  <2>2. CASE s # r
    <3>1. proc'[s] = proc[s] /\ handles'[s] = handles[s] /\ ProcTells(s) BY <1>1, <2>2, StoreType
    <3>2. lock' = s <=> lock = s BY <2>2, Names
    <3>3. /\ proc[s] # "new" => FilesThere'
          /\ ~shared' /\ proc[s] \in Alive => handles[s] = Archives
      BY <3>1 DEF ProcTells
    <3>4. ~shared' /\ proc[s] = "owner" => Owner' = s BY <2>2, <3>1 DEF ProcTells
    <3>5. ~shared' /\ lock' = TheRestore => handles[s] = {} BY <1>3, <3>1 DEF ProcTells
    <3> QED BY <3>1, <3>2, <3>3, <3>4, <3>5 DEF ProcTells
  <2> QED BY <2>1, <2>2
<1> QED BY <1>2, <1>4, <1>5 DEF RestoreInv

\* Unless files are shared, no runtime is alive under the lock of a restore.
LEMMA NotUnderRestore ==
    ASSUME RestoreInv, NEW r \in Runs, proc[r] \in Alive
    PROVE  /\ FilesThere
           /\ ~shared => lock # TheRestore /\ handles[r] = Archives
<1>1. Archives # {} /\ "new" \notin Alive BY DEF Archives, Alive
<1> QED BY <1>1, StoreType DEF ProcTells

LEMMA OpenFilesKeeps == ASSUME RestoreInv, NEW r \in Runs, OpenFiles(r) PROVE RestoreInv'
<1>1. /\ proc[r] = "new" /\ proc' = [proc EXCEPT ![r] = "opened"]
      /\ handles' = [handles EXCEPT ![r] = Archives] /\ lock' = lock
      /\ shared' = (shared \/ lock = TheRestore) /\ stamp' = stamp
      /\ restore' = restore /\ dirs' = dirs /\ rollbacks' = rollbacks /\ replaced' = replaced
  BY DEF OpenFiles
<1>2. PICK new : new = [main |-> [stamp |-> 1, owner |-> NoRun], log |-> Absent] OBVIOUS
<1>3. new \in Pairs /\ new.main # Absent
  <2>1. PICK c : c = [stamp |-> 1, owner |-> NoRun] OBVIOUS
  <2>2. c \in Good /\ c # Absent BY <2>1, AbsentIs, Names DEF Good
  <2> QED BY <1>2, <2>1, <2>2, AbsentIs DEF Pairs
<1>4. files' = [m \in Archives |-> IF files[m].main = Absent THEN new ELSE files[m]]
  BY <1>2 DEF OpenFiles
<1>5. /\ files' \in [Archives -> Pairs] /\ FilesThere'
      /\ \A m \in Archives : files[m].main # Absent => files'[m] = files[m]
  BY <1>3, <1>4, StoreType DEF FilesThere
<1>6. /\ handles' \in [Runs -> SUBSET Archives] /\ handles'[r] = Archives
      /\ \A s \in Runs \ {r} : handles'[s] = handles[s]
  BY <1>1, StoreType
<1>7. proc'[r] = "opened" /\ lock # r BY <1>1, StoreType DEF ProcTells
<1>8. ProcTells(r)' BY <1>1, <1>5, <1>6, <1>7 DEF ProcTells
<1>9. ASSUME NEW s \in Runs \ {r}, ~shared', proc[s] = "owner" PROVE Owner' = Owner
  <2>1. proc[s] \in Alive BY <1>9 DEF Alive
  <2>2. files["operational"].main # Absent BY <2>1, NotUnderRestore DEF Archives, FilesThere
  <2>3. files'["operational"] = files["operational"] BY <1>5, <2>2 DEF Archives
  <2> QED BY <2>3 DEF Owner
<1>10. "opened" \in Alive \cup {"new", "gone"} BY DEF Alive
<1>11. /\ lock' \in Runs \cup {NoRun, TheRestore} /\ shared' \in BOOLEAN /\ (shared => shared')
       /\ stamp' \in Nat /\ (lock # TheRestore \/ shared')
  BY <1>1, StoreType
<1> QED BY <1>1, <1>5, <1>6, <1>8, <1>9, <1>10, <1>11, RunMoves

\* Closing folds a log, which no connection notices.
LEMMA LeaveKeeps ==
    ASSUME RestoreInv, NEW r \in Runs, LeaveFiles(r), proc[r] \in {"opened", "closing"},
           lock' = lock, shared' = shared, stamp' = stamp, restore' = restore, dirs' = dirs,
           rollbacks' = rollbacks, replaced' = replaced
    PROVE  RestoreInv'
<1>1. /\ proc' = [proc EXCEPT ![r] = "gone"] /\ handles' = [handles EXCEPT ![r] = {}]
      /\ files' = [m \in Archives |-> IF m \in handles[r] THEN ClosedBy(r, m) ELSE files[m]]
  BY DEF LeaveFiles
<1>2. ASSUME NEW m \in Archives
      PROVE  /\ files'[m] \in Pairs /\ Seen(files'[m]) = Seen(files[m])
             /\ files[m].main # Absent => files'[m].main # Absent
  <2>1. files[m] \in Pairs BY StoreType
  <2>2. files'[m] = files[m] \/ files'[m] = Checkpointed(files[m]) BY <1>1 DEF ClosedBy
  <2> QED BY <2>1, <2>2, CheckpointedIs
<1>3. files' \in [Archives -> Pairs] /\ FilesThere /\ FilesThere'
  <2>1. FilesThere BY NotUnderRestore DEF Alive
  <2> QED BY <1>1, <1>2, <2>1 DEF FilesThere
<1>4. Owner' = Owner BY <1>2 DEF Owner, Archives
<1>5. /\ handles' \in [Runs -> SUBSET Archives] /\ handles'[r] = {}
      /\ \A s \in Runs \ {r} : handles'[s] = handles[s]
  BY <1>1, StoreType
<1>6. proc'[r] = "gone" /\ lock # r BY <1>1, StoreType DEF ProcTells
<1>7. ProcTells(r)' BY <1>3, <1>5, <1>6 DEF ProcTells, Alive
<1>8. lock # TheRestore \/ shared' BY StoreType, NotUnderRestore DEF Alive
<1>9. "gone" \in Alive \cup {"new", "gone"} OBVIOUS
<1>10. lock' \in Runs \cup {NoRun, TheRestore} /\ shared' \in BOOLEAN /\ stamp' \in Nat BY StoreType
<1> QED BY <1>1, <1>3, <1>4, <1>5, <1>7, <1>8, <1>9, <1>10, RunMoves

\* A database is written: its log changes, and its owner becomes who.
LEMMA Written ==
    ASSUME RestoreInv, FilesThere, NEW m \in Archives, NEW g \in Pairs, g.main # Absent,
           files' = [files EXCEPT ![m] = g]
    PROVE  /\ files' \in [Archives -> Pairs] /\ FilesThere' /\ files'[m] = g
           /\ m = "operational" => Owner' = Seen(g).owner
           /\ m # "operational" => Owner' = Owner
<1>1. files \in [Archives -> Pairs] BY StoreType
<1>2. files' \in [Archives -> Pairs] /\ files'[m] = g /\ \A k \in Archives \ {m} : files'[k] = files[k]
  BY <1>1
<1> QED BY <1>2 DEF Owner, FilesThere, Archives

LEMMA OwnerWritten ==
    ASSUME RestoreInv, FilesThere, NEW r \in Nat, WriteOwner(r)
    PROVE  files' \in [Archives -> Pairs] /\ FilesThere' /\ Owner' = r
<1>1. files["operational"] \in Pairs /\ files["operational"].main # Absent
  BY StoreType DEF Archives, FilesThere
<1>2. PICK g : g = Leased(files["operational"], r) OBVIOUS
<1>3. g \in Pairs /\ Seen(g).owner = r /\ g.main # Absent BY <1>1, <1>2, LeasedIs, SeenIs
<1>4. files' = [files EXCEPT !["operational"] = g] BY <1>2 DEF WriteOwner
<1>5. "operational" \in Archives BY DEF Archives
<1> QED BY <1>3, <1>4, <1>5, Written

LEMMA OwnKeeps == ASSUME RestoreInv, NEW r \in Runs, Own(r) PROVE RestoreInv'
<1>1. /\ proc[r] = "opened" /\ shared' = shared /\ stamp' = stamp /\ restore' = restore
      /\ dirs' = dirs /\ rollbacks' = rollbacks /\ replaced' = replaced
  BY DEF Own
<1>2. CASE LeaveFiles(r) /\ lock' = lock BY <1>1, <1>2, LeaveKeeps
<1>3. ASSUME lock = NoRun, lock' = r, proc' = [proc EXCEPT ![r] = "owner"], handles' = handles,
             IF "operational" \in handles[r] THEN WriteOwner(r) ELSE UNCHANGED files
      PROVE  RestoreInv'
  <2>1. FilesThere /\ (~shared => handles[r] = Archives) BY <1>1, NotUnderRestore DEF Alive
  <2>2. /\ files' \in [Archives -> Pairs] /\ FilesThere' /\ (~shared => Owner' = r)
    <3>1. CASE WriteOwner(r) BY <2>1, <3>1, Names, OwnerWritten
    <3>2. CASE "operational" \notin handles[r] /\ files' = files
      BY <2>1, <3>2, StoreType DEF Archives, FilesThere
    <3> QED BY <1>3, <3>1, <3>2
  <2>3. proc'[r] = "owner" BY <1>3, StoreType
  <2>4. ProcTells(r)' BY <1>1, <1>3, <2>1, <2>2, <2>3, Names DEF ProcTells
  <2>5. \A s \in Runs \ {r} : proc[s] # "owner" BY <1>3, Names, StoreType DEF ProcTells
  <2>6. "owner" \in Alive \cup {"new", "gone"} BY DEF Alive
  <2>7. lock' \in Runs \cup {NoRun, TheRestore} /\ lock # TheRestore BY <1>3, Names
  <2>8. handles' \in [Runs -> SUBSET Archives] /\ shared' \in BOOLEAN /\ stamp' \in Nat
    BY <1>1, <1>3, StoreType
  <2> QED BY <1>1, <1>3, <2>2, <2>4, <2>5, <2>6, <2>7, <2>8, RunMoves
<1> QED BY <1>2, <1>3 DEF Own

LEMMA CommitToKeeps ==
    ASSUME RestoreInv, NEW r \in Runs, NEW m \in Archives, CommitTo(r, m) PROVE RestoreInv'
<1>1. /\ proc[r] \in {"owner", "closing"} /\ WriteStamp(m, stamp + 1) /\ stamp' = stamp + 1
      /\ proc' = proc /\ handles' = handles /\ lock' = lock /\ shared' = shared
      /\ restore' = restore /\ dirs' = dirs /\ rollbacks' = rollbacks /\ replaced' = replaced
  BY DEF CommitTo
<1>2. FilesThere /\ (lock # TheRestore \/ shared) BY <1>1, NotUnderRestore, StoreType DEF Alive
<1>3. files[m] \in Pairs /\ files[m].main # Absent BY <1>2, StoreType DEF FilesThere
<1>4. Seen(files[m]) \in Good /\ Seen(files[m]) # Absent BY <1>3, SeenIs
<1>5. PICK c : c = [Seen(files[m]) EXCEPT !.stamp = stamp + 1] OBVIOUS
<1>6. stamp + 1 \in Nat /\ stamp + 1 > 0 BY StoreType
<1>7. c \in Good /\ c # Absent /\ c.owner = Seen(files[m]).owner BY <1>4, <1>5, <1>6, Rewritten
<1>8. PICK g : g = Committed(files[m], c) OBVIOUS
<1>9. g \in Pairs /\ Seen(g) = c /\ g.main # Absent BY <1>3, <1>7, <1>8, CommittedIs
<1>10. files' = [files EXCEPT ![m] = g] BY <1>1, <1>5, <1>8 DEF WriteStamp
<1>11. files' \in [Archives -> Pairs] /\ FilesThere' /\ Owner' = Owner
  BY <1>2, <1>7, <1>9, <1>10, Written DEF Owner
<1>12. ProcTells(r)' BY <1>1, <1>11, StoreType DEF ProcTells
<1>13. proc' = [proc EXCEPT ![r] = proc[r]] /\ proc[r] \in Alive \cup {"new", "gone"}
  BY <1>1, StoreType
<1>14. /\ lock' \in Runs \cup {NoRun, TheRestore} /\ shared' \in BOOLEAN /\ stamp' \in Nat
       /\ handles' \in [Runs -> SUBSET Archives]
  BY <1>1, <1>6, StoreType
<1>15. /\ \A s \in Runs \ {r} : handles'[s] = handles[s]
       /\ lock' = lock /\ (shared => shared') /\ (lock # TheRestore \/ shared')
       /\ restore' = restore /\ dirs' = dirs /\ rollbacks' = rollbacks /\ replaced' = replaced
  BY <1>1, <1>2
<1> QED BY <1>11, <1>12, <1>13, <1>14, <1>15, RunMoves

LEMMA ReleaseOwnershipKeeps ==
    ASSUME RestoreInv, NEW r \in Runs, ReleaseOwnership(r) PROVE RestoreInv'
<1>1. /\ proc[r] = "owner" /\ proc' = [proc EXCEPT ![r] = "closing"] /\ lock' = NoRun
      /\ handles' = handles /\ shared' = shared /\ stamp' = stamp
      /\ restore' = restore /\ dirs' = dirs /\ rollbacks' = rollbacks /\ replaced' = replaced
      /\ WriteOwner(NoRun) \/ files' = files
  BY DEF ReleaseOwnership
<1>2. FilesThere /\ (~shared => handles[r] = Archives) BY <1>1, NotUnderRestore DEF Alive
<1>3. lock = r /\ lock # TheRestore BY <1>1, Names, StoreType DEF ProcTells
<1>4. files' \in [Archives -> Pairs] /\ FilesThere'
  <2>1. CASE WriteOwner(NoRun) BY <1>2, <2>1, Names, OwnerWritten
  <2>2. CASE files' = files BY <1>2, <2>2, StoreType DEF FilesThere
  <2> QED BY <1>1, <2>1, <2>2
<1>5. proc'[r] = "closing" BY <1>1, StoreType
<1>6. ProcTells(r)' BY <1>1, <1>2, <1>4, <1>5, Names DEF ProcTells
<1>7. \A s \in Runs \ {r} : proc[s] # "owner" BY <1>3, StoreType DEF ProcTells
<1>8. "closing" \in Alive \cup {"new", "gone"} BY DEF Alive
<1>9. /\ lock' \in Runs \cup {NoRun, TheRestore} /\ shared' \in BOOLEAN /\ stamp' \in Nat
      /\ handles' \in [Runs -> SUBSET Archives]
  BY <1>1, StoreType
<1> QED BY <1>1, <1>3, <1>4, <1>6, <1>7, <1>8, <1>9, RunMoves

LEMMA CloseRuntimeKeeps == ASSUME RestoreInv, NEW r \in Runs, CloseRuntime(r) PROVE RestoreInv'
BY LeaveKeeps DEF CloseRuntime

LEMMA KillRuntimeKeeps == ASSUME RestoreInv, NEW r \in Runs, KillRuntime(r) PROVE RestoreInv'
<1>1. /\ proc[r] \in Alive /\ proc' = [proc EXCEPT ![r] = "gone"]
      /\ handles' = [handles EXCEPT ![r] = {}] /\ lock' = (IF lock = r THEN NoRun ELSE lock)
      /\ files' = files /\ shared' = shared /\ stamp' = stamp
      /\ restore' = restore /\ dirs' = dirs /\ rollbacks' = rollbacks /\ replaced' = replaced
  BY DEF KillRuntime, Alive
<1>2. FilesThere /\ FilesThere' BY <1>1, NotUnderRestore DEF FilesThere
<1>3. /\ handles' \in [Runs -> SUBSET Archives] /\ handles'[r] = {}
      /\ \A s \in Runs \ {r} : handles'[s] = handles[s]
  BY <1>1, StoreType
<1>4. proc'[r] = "gone" /\ lock' # r BY <1>1, Names, StoreType
<1>5. ProcTells(r)' BY <1>2, <1>3, <1>4 DEF ProcTells, Alive
<1>6. Owner' = Owner BY <1>1 DEF Owner
<1>7. /\ lock' \in Runs \cup {NoRun, TheRestore} /\ shared' \in BOOLEAN /\ stamp' \in Nat
      /\ (lock' = lock \/ (lock = r /\ lock' = NoRun)) /\ files' \in [Archives -> Pairs]
  BY <1>1, StoreType
<1> QED BY <1>1, <1>2, <1>3, <1>5, <1>6, <1>7, RunMoves

LEMMA ReleaseStaleKeeps == ASSUME RestoreInv, NEW r \in Runs, ReleaseStale(r) PROVE RestoreInv'
<1>1. /\ lock = NoRun /\ Owner = r /\ proc' = proc /\ handles' = handles /\ lock' = lock
      /\ shared' = shared /\ stamp' = stamp
      /\ restore' = restore /\ dirs' = dirs /\ rollbacks' = rollbacks /\ replaced' = replaced
      /\ files' = [files EXCEPT !["operational"] =
                      ClosedByAdmin(Leased(files["operational"], NoRun))]
  BY DEF ReleaseStale, NobodyAlive
<1>2. FilesThere BY <1>1, Names, StoreType
<1>3. files["operational"] \in Pairs /\ files["operational"].main # Absent
  BY <1>2, StoreType DEF Archives, FilesThere
<1>4. PICK h : h = Leased(files["operational"], NoRun) OBVIOUS
<1>5. h \in Pairs /\ h.main # Absent BY <1>3, <1>4, LeasedIs, SeenIs, Names
<1>6. PICK g : g = ClosedByAdmin(h) OBVIOUS
<1>7. g \in Pairs /\ g.main # Absent BY <1>5, <1>6, CheckpointedIs DEF ClosedByAdmin
<1>8. files' = [files EXCEPT !["operational"] = g] BY <1>1, <1>4, <1>6
<1>9. files' \in [Archives -> Pairs] /\ FilesThere' BY <1>2, <1>7, <1>8, Written DEF Archives
<1>10. \A s \in Runs : proc[s] # "owner" BY <1>1, Names, StoreType DEF ProcTells
<1>11. ProcTells(r)' BY <1>1, <1>9, <1>10, StoreType DEF ProcTells
<1>12. proc' = [proc EXCEPT ![r] = proc[r]] /\ proc[r] \in Alive \cup {"new", "gone"}
  BY <1>1, StoreType
<1>13. /\ lock' \in Runs \cup {NoRun, TheRestore} /\ shared' \in BOOLEAN /\ stamp' \in Nat
       /\ handles' \in [Runs -> SUBSET Archives] /\ lock # TheRestore
  BY <1>1, Names, StoreType
<1>14. /\ \A s \in Runs \ {r} : handles'[s] = handles[s]
       /\ lock' = lock /\ (shared => shared')
       /\ restore' = restore /\ dirs' = dirs /\ rollbacks' = rollbacks /\ replaced' = replaced
  BY <1>1
<1> QED BY <1>9, <1>10, <1>11, <1>12, <1>13, <1>14, RunMoves

-----------------------------------------------------------------------------
(* Backups *)

\* One directory changes; one that is marked keeps its digests.
LEMMA DirMoves ==
    ASSUME RestoreInv, NEW b \in Backups, NEW d \in Directories, dirs' = [dirs EXCEPT ![b] = d],
           files' = files, proc' = proc, handles' = handles, lock' = lock, restore' = restore,
           rollbacks' = rollbacks, replaced' = replaced, shared' = shared, stamp' = stamp,
           dirs[b].at = "marked" => d.at = "marked" /\ d.sums = dirs[b].sums,
           d.at \in {"manifest", "marked"} => \A m \in Archives : d.sums[m] # Absent,
           \A m \in Archives : d.sums[m] # Absent => FilesThere
    PROVE  RestoreInv'
<1>1. /\ dirs' \in [Backups -> Directories] /\ dirs'[b] = d
      /\ \A c \in Backups \ {b} : dirs'[c] = dirs[c]
  BY StoreType
<1>2. FilesThere' = FilesThere /\ Owner' = Owner BY DEF FilesThere, Owner
<1>3. RestoreType' BY <1>1, <1>2, StoreType DEF RestoreType
<1>4. ASSUME NEW r \in Runs PROVE ProcTells(r)' BY <1>2, StoreType DEF ProcTells
<1>5. ASSUME NEW c \in Backups PROVE DirTells(c)'
  <2>1. CASE c = b BY <1>1, <1>2, <2>1 DEF DirTells
  <2>2. CASE c # b BY <1>1, <1>2, <2>2, StoreType DEF DirTells
  <2> QED BY <2>1, <2>2
<1>6. \A c \in Backups : dirs[c].at = "marked" => dirs'[c].at = "marked" /\ dirs'[c].sums = dirs[c].sums
  BY <1>1
<1>7. SourceTells'
  <2>1. restore.at \in {"staged", "done"} \cup Replacing => restore.at # "idle" BY DEF Replacing
  <2> QED BY <1>6, <2>1, StoreType DEF SourceTells
<1>8. TargetTells' BY StoreType DEF TargetTells
<1> QED BY <1>3, <1>4, <1>5, <1>7, <1>8 DEF RestoreInv

LEMMA DirIs ==
    ASSUME RestoreInv, NEW b \in Backups
    PROVE  /\ dirs[b] \in Directories /\ DirTells(b) /\ dirs[b].copy \in Sets /\ dirs[b].sums \in Sets
           /\ dirs[b].at \in {"copying", "manifest", "marked", "removed"}
BY StoreType DEF Directories

LEMMA CopyMemberKeeps ==
    ASSUME RestoreInv, NEW b \in Backups, NEW m \in Archives, CopyMember(b, m) PROVE RestoreInv'
<1>1. /\ dirs[b].at = "copying" /\ FilesThere
      /\ files' = files /\ proc' = proc /\ handles' = handles /\ lock' = lock
      /\ restore' = restore /\ rollbacks' = rollbacks /\ replaced' = replaced
      /\ shared' = shared /\ stamp' = stamp
  BY DEF CopyMember, FilesThere
<1>2. PICK c : c = Seen(files[m]) OBVIOUS
<1>3. c \in Good BY <1>2, StoreType, SeenIs
<1>4. PICK p : p = [dirs[b].copy EXCEPT ![m] = c] OBVIOUS
<1>5. PICK q : q = [dirs[b].sums EXCEPT ![m] = c] OBVIOUS
<1>6. p \in Sets /\ q \in Sets BY <1>3, <1>4, <1>5, DirIs DEF Sets
<1>7. PICK d : d = [at |-> "copying", copy |-> p, sums |-> q] OBVIOUS
<1>8. d \in Directories /\ d.at = "copying" BY <1>6, <1>7 DEF Directories
<1>9. dirs' = [dirs EXCEPT ![b] = d] BY <1>2, <1>4, <1>5, <1>7 DEF CopyMember
<1> QED BY <1>1, <1>8, <1>9, DirMoves

LEMMA DescribeKeeps == ASSUME RestoreInv, NEW b \in Backups, Describe(b) PROVE RestoreInv'
<1>1. /\ files' = files /\ proc' = proc /\ handles' = handles /\ lock' = lock
      /\ restore' = restore /\ rollbacks' = rollbacks /\ replaced' = replaced
      /\ shared' = shared /\ stamp' = stamp
  BY DEF Describe
<1>2. PICK at \in {"manifest", "marked"} : /\ dirs' = [dirs EXCEPT ![b] = [dirs[b] EXCEPT !.at = at]]
                                           /\ dirs[b].at \in {"copying", "manifest"}
                                           /\ \A m \in Archives : dirs[b].sums[m] # Absent
  BY DirIs DEF Describe, DirTells
<1>3. PICK y \in Directories : y = dirs[b] BY DirIs
<1>4. PICK d : d = [y EXCEPT !.at = at] OBVIOUS
<1>5. d \in Directories /\ d.at = at /\ d.sums = y.sums BY <1>4 DEF Directories
<1>6. dirs' = [dirs EXCEPT ![b] = d] BY <1>2, <1>3, <1>4
<1>7. \A m \in Archives : d.sums[m] # Absent BY <1>2, <1>3, <1>5
<1>8. FilesThere BY <1>2, DirIs DEF DirTells, Archives
<1>9. dirs[b].at # "marked" BY <1>2
<1> QED BY <1>1, <1>5, <1>6, <1>7, <1>8, <1>9, DirMoves

LEMMA AbandonBackupKeeps == ASSUME RestoreInv, NEW b \in Backups, AbandonBackup(b) PROVE RestoreInv'
<1>1. /\ files' = files /\ proc' = proc /\ handles' = handles /\ lock' = lock
      /\ restore' = restore /\ rollbacks' = rollbacks /\ replaced' = replaced
      /\ shared' = shared /\ stamp' = stamp /\ dirs[b].at # "marked"
  BY DEF AbandonBackup
<1>2. NoContents \in Sets /\ \A m \in Archives : NoContents[m] = Absent
  BY AbsentIs DEF NoContents, Sets
<1>3. PICK d : d = [at |-> "removed", copy |-> NoContents, sums |-> NoContents] OBVIOUS
<1>4. d \in Directories /\ d.at = "removed" /\ d.sums = NoContents BY <1>2, <1>3 DEF Directories
<1>5. dirs' = [dirs EXCEPT ![b] = d] BY <1>3 DEF AbandonBackup
<1> QED BY <1>1, <1>2, <1>4, <1>5, DirMoves

LEMMA DamageKeeps ==
    ASSUME RestoreInv, NEW b \in Backups, NEW m \in Archives, Damage(b, m) PROVE RestoreInv'
<1>1. /\ files' = files /\ proc' = proc /\ handles' = handles /\ lock' = lock
      /\ restore' = restore /\ rollbacks' = rollbacks /\ replaced' = replaced
      /\ shared' = shared /\ stamp' = stamp
  BY DEF Damage
<1>2. PICK y \in Directories : y = dirs[b] /\ DirTells(b) BY DirIs
<1>3. PICK p : p = [y.copy EXCEPT ![m] = Garbage] OBVIOUS
<1>4. p \in Sets BY <1>2, <1>3, DirIs, GarbageIs DEF Sets
<1>5. PICK d : d = [y EXCEPT !.copy = p] OBVIOUS
<1>6. d \in Directories /\ d.at = y.at /\ d.sums = y.sums BY <1>4, <1>5 DEF Directories
<1>7. dirs' = [dirs EXCEPT ![b] = d] BY <1>2, <1>3, <1>5 DEF Damage
<1> QED BY <1>1, <1>2, <1>6, <1>7, DirMoves DEF DirTells

-----------------------------------------------------------------------------
(* Restores *)

LEMMA IdleIs == NoRestore \in RestoreStates /\ NoRestore.at = "idle"
<1>1. PICK g : g = [main |-> Absent, log |-> Absent] OBVIOUS
<1>2. g \in Pairs BY <1>1, AbsentIs DEF Pairs
<1>3. NoContents \in Sets BY AbsentIs DEF NoContents, Sets
<1>4. PICK v : v = [m \in Archives |-> g] OBVIOUS
<1>5. v \in [Archives -> Pairs] BY <1>2, <1>4
<1>6. NoRestore = [at |-> "idle", from |-> NoBackup, staged |-> NoContents, saved |-> v]
  BY <1>1, <1>4 DEF NoRestore
<1> QED BY <1>3, <1>5, <1>6 DEF RestoreStates, RestorePlaces

\* What is known while a restore is under way.
LEMMA UnderWay ==
    ASSUME RestoreInv, restore.at # "idle"
    PROVE  /\ restore.from \in Backups /\ dirs[restore.from].at = "marked" /\ FilesThere
           /\ \A m \in Archives : dirs[restore.from].sums[m] # Absent
           /\ dirs[restore.from].sums \in Sets
           /\ restore.at # "verified" => lock = TheRestore
<1>1. restore.from \in Backups /\ dirs[restore.from].at = "marked" BY StoreType DEF SourceTells
<1>2. PICK b \in Backups : b = restore.from BY <1>1
<1>3. DirTells(b) /\ dirs[b].sums \in Sets BY DirIs
<1>4. \A m \in Archives : dirs[b].sums[m] # Absent BY <1>1, <1>2, <1>3 DEF DirTells
<1>5. FilesThere BY <1>3, <1>4 DEF DirTells, Archives
<1>6. restore.at # "verified" => lock = TheRestore BY StoreType DEF SourceTells
<1> QED BY <1>1, <1>2, <1>3, <1>4, <1>5, <1>6

\* Members without their lease are still there.
LEMMA UnownedIs ==
    ASSUME NEW c \in Sets, \A m \in Archives : c[m] # Absent
    PROVE  Unowned(c) \in Sets /\ \A m \in Archives : Unowned(c)[m] # Absent
<1>1. ASSUME NEW m \in Archives
      PROVE  Unowned(c)[m] \in Good /\ Unowned(c)[m] # Absent
  <2>1. c[m] \in Good /\ c[m] # Absent BY DEF Sets
  <2>2. Unowned(c)[m] = [c[m] EXCEPT !.owner = NoRun] BY DEF Unowned
  <2> QED BY <2>1, <2>2, Rewritten, Names
<1>2. Unowned(c) = [m \in Archives |-> Unowned(c)[m]] BY DEF Unowned
<1> QED BY <1>1, <1>2 DEF Sets

\* The restore goes on under its lock ...
LEMMA RestoreActs ==
    ASSUME RestoreInv, lock = TheRestore, lock' = TheRestore, NEW x \in RestoreStates, restore' = x,
           files' \in [Archives -> Pairs], FilesThere', proc' = proc, dirs' = dirs,
           shared' = shared, stamp' = stamp, handles' \in [Runs -> SUBSET Archives],
           \A r \in Runs : handles'[r] \subseteq handles[r],
           x.from = restore.from, x.at \notin {"idle", "verified"},
           x.at \in {"staged", "done"} \cup Replacing => x.staged = Unowned(dirs[x.from].sums),
           x.at \in {"done", "undone"} \cup Replacing \cup Undoing =>
               x.saved \in rollbacks' /\ \A m \in Archives : x.saved[m].main # Absent,
           TargetTells'
    PROVE  RestoreInv'
<1>1. RestoreType' BY StoreType DEF RestoreType
<1>2. restore.at # "idle" BY StoreType DEF SourceTells
<1>3. SourceTells' BY <1>2, UnderWay DEF SourceTells
<1>4. \A r \in Runs : ProcTells(r)' BY RunsRest
<1>5. ASSUME NEW b \in Backups PROVE DirTells(b)' BY StoreType DEF DirTells
<1> QED BY <1>1, <1>3, <1>4, <1>5 DEF RestoreInv

\* ... or is over.
LEMMA RestoreEnds ==
    ASSUME RestoreInv, restore' = NoRestore, lock' = IF lock = TheRestore THEN NoRun ELSE lock,
           files' \in [Archives -> Pairs], files' = files \/ (lock = TheRestore /\ FilesThere'),
           proc' = proc, dirs' = dirs, rollbacks' = rollbacks, replaced' = replaced,
           shared' = shared, stamp' = stamp, handles' = handles
    PROVE  RestoreInv'
<1>1. FilesThere => FilesThere' BY DEF FilesThere
<1>2. /\ lock' \in Runs \cup {NoRun, TheRestore} /\ lock' # TheRestore /\ shared' = shared
      /\ FilesThere' \/ Owner' = NoRun
  BY <1>1, StoreType, Names DEF Owner
<1>3. RestoreType' BY <1>2, StoreType, IdleIs DEF RestoreType
<1>4. SourceTells'
  <2>1. "idle" \notin {"staged", "done"} \cup Replacing
        /\ "idle" \notin {"done", "undone"} \cup Replacing \cup Undoing
    BY DEF Replacing, Undoing
  <2> QED BY <1>2, <2>1, IdleIs DEF SourceTells
<1>5. TargetTells'
  <2>1. TargetTells BY StoreType
  <2>2. ~shared => replaced \subseteq rollbacks BY <2>1 DEF TargetTells
  <2>3. restore'.at = "idle" BY IdleIs
  <2> QED BY <2>2, <2>3 DEF TargetTells
<1>6. ASSUME NEW b \in Backups PROVE DirTells(b)' BY <1>1, StoreType DEF DirTells
<1>7. \A r \in Runs : ProcTells(r)'
  <2>1. CASE lock = TheRestore BY <1>1, <1>2, <2>1, RunsRest
  <2>2. CASE lock # TheRestore
    <3>1. files' = files /\ lock' = lock BY <2>2
    <3> QED BY <1>1, <1>2, <3>1, StoreType DEF ProcTells, Owner
  <2> QED BY <2>1, <2>2
<1> QED BY <1>3, <1>4, <1>5, <1>6, <1>7 DEF RestoreInv

LEMMA BeginRestoreKeeps == ASSUME RestoreInv, NEW b \in Backups, BeginRestore(b) PROVE RestoreInv'
<1>1. /\ restore.at = "idle" /\ dirs[b].at = "marked"
      /\ files' = files /\ proc' = proc /\ handles' = handles /\ lock' = lock /\ dirs' = dirs
      /\ rollbacks' = rollbacks /\ replaced' = replaced /\ shared' = shared /\ stamp' = stamp
      /\ restore' = [NoRestore EXCEPT !.at = "verified", !.from = b]
  BY DEF BeginRestore, Verifies, Complete
<1>2. PICK y \in RestoreStates : y = NoRestore BY IdleIs
<1>3. PICK x : x = [y EXCEPT !.at = "verified", !.from = b] OBVIOUS
<1>4. x \in RestoreStates /\ x.at = "verified" /\ x.from = b
  BY <1>3 DEF RestoreStates, RestorePlaces
<1>5. restore' = x BY <1>1, <1>2, <1>3
<1>6. (FilesThere' <=> FilesThere) /\ Owner' = Owner BY <1>1 DEF FilesThere, Owner
<1>7. RestoreType' BY <1>1, <1>4, <1>5, <1>6, StoreType DEF RestoreType
<1>8. SourceTells'
  <2>1. "verified" \notin {"staged", "done"} \cup Replacing
        /\ "verified" \notin {"done", "undone"} \cup Replacing \cup Undoing
    BY DEF Replacing, Undoing
  <2> QED BY <1>1, <1>4, <1>5, <2>1, StoreType DEF SourceTells
<1>9. TargetTells'
  <2>1. ~shared' => replaced' \subseteq rollbacks' BY <1>1, StoreType DEF TargetTells
  <2> QED BY <1>4, <1>5, <2>1 DEF TargetTells
<1>10. ASSUME NEW r \in Runs PROVE ProcTells(r)' BY <1>1, <1>6, StoreType DEF ProcTells
<1>11. ASSUME NEW c \in Backups PROVE DirTells(c)' BY <1>1, <1>6, StoreType DEF DirTells
<1> QED BY <1>7, <1>8, <1>9, <1>10, <1>11 DEF RestoreInv

\* The restore moves to another place.
LEMMA OnwardIs ==
    ASSUME RestoreInv, NEW at \in RestorePlaces, Onward(at)
    PROVE  \E x \in RestoreStates : /\ restore' = x /\ x.at = at /\ x.from = restore.from
                                    /\ x.staged = restore.staged /\ x.saved = restore.saved
<1>1. PICK y \in RestoreStates : y = restore BY StoreType
<1>2. PICK x : x = [y EXCEPT !.at = at] OBVIOUS
<1>3. x \in RestoreStates /\ x.at = at /\ x.from = y.from /\ x.staged = y.staged /\ x.saved = y.saved
  BY <1>2 DEF RestoreStates
<1> QED BY <1>1, <1>2, <1>3 DEF Onward

LEMMA LockTargetKeeps == ASSUME RestoreInv, LockTarget PROVE RestoreInv'
<1>1. /\ restore.at = "verified" /\ files' = files /\ proc' = proc /\ handles' = handles
      /\ dirs' = dirs /\ rollbacks' = rollbacks /\ replaced' = replaced /\ stamp' = stamp
      /\ shared' = (shared \/ (lock = NoRun /\ \E r \in Runs : handles[r] # {}))
  BY DEF LockTarget
<1>2. lock # TheRestore BY <1>1, StoreType DEF SourceTells
<1>3. CASE lock # NoRun /\ restore' = NoRestore /\ lock' = lock
  BY <1>1, <1>2, <1>3, StoreType, RestoreEnds
<1>4. CASE lock = NoRun /\ lock' = TheRestore /\ Onward("locked")
  <2>1. PICK x \in RestoreStates : restore' = x /\ x.at = "locked" /\ x.from = restore.from
    BY <1>4, OnwardIs DEF RestorePlaces
  <2>2. shared' \in BOOLEAN /\ (shared => shared') BY <1>1, StoreType
  <2>3. (FilesThere' <=> FilesThere) /\ Owner' = Owner BY <1>1 DEF FilesThere, Owner
  <2>4. RestoreType' BY <1>1, <1>4, <2>1, <2>2, <2>3, StoreType DEF RestoreType
  <2>5. SourceTells'
    <3>1. "locked" \notin {"staged", "done"} \cup Replacing
          /\ "locked" \notin {"done", "undone"} \cup Replacing \cup Undoing
      BY DEF Replacing, Undoing
    <3> QED BY <1>1, <1>4, <2>1, <3>1, StoreType DEF SourceTells
  <2>6. TargetTells'
    <3>1. rollbacks' = rollbacks /\ replaced' = replaced BY <1>1
    <3>2. ~shared' => replaced \subseteq rollbacks BY <2>2, StoreType DEF TargetTells
    <3> QED BY <2>1, <3>1, <3>2 DEF TargetTells
  <2>7. ASSUME NEW r \in Runs PROVE ProcTells(r)'
    <3>1. proc[r] # "owner" /\ lock' # r /\ ProcTells(r) BY <1>4, Names, StoreType DEF ProcTells
    <3>2. ~shared' => handles[r] = {} BY <1>1, <1>4
    <3> QED BY <1>1, <2>2, <2>3, <3>1, <3>2 DEF ProcTells
  <2>8. ASSUME NEW b \in Backups PROVE DirTells(b)' BY <1>1, <2>3, StoreType DEF DirTells
  <2> QED BY <2>4, <2>5, <2>6, <2>7, <2>8 DEF RestoreInv
<1> QED BY <1>3, <1>4 DEF LockTarget

LEMMA CheckTargetKeeps == ASSUME RestoreInv, CheckTarget PROVE RestoreInv'
<1>1. /\ restore.at = "locked" /\ proc' = proc /\ handles' = handles /\ dirs' = dirs
      /\ rollbacks' = rollbacks /\ replaced' = replaced /\ shared' = shared /\ stamp' = stamp
      /\ files' = [files EXCEPT !["operational"] = ClosedByAdmin(files["operational"])]
  BY DEF CheckTarget
<1>2. lock = TheRestore /\ FilesThere BY <1>1, UnderWay
<1>3. PICK g : g = ClosedByAdmin(files["operational"]) OBVIOUS
<1>4. g \in Pairs /\ g.main # Absent
  <2>1. files["operational"] \in Pairs /\ files["operational"].main # Absent
    BY <1>2, StoreType DEF Archives, FilesThere
  <2> QED BY <1>3, <2>1, CheckpointedIs DEF ClosedByAdmin
<1>5. files' \in [Archives -> Pairs] /\ FilesThere'
  BY <1>1, <1>2, <1>3, <1>4, Written DEF Archives
<1>6. CASE EndRestore BY <1>1, <1>2, <1>5, <1>6, RestoreEnds DEF EndRestore
<1>7. CASE Onward("safe") /\ lock' = lock
  <2>1. PICK x \in RestoreStates : restore' = x /\ x.at = "safe" /\ x.from = restore.from
    BY <1>7, OnwardIs DEF RestorePlaces
  <2>2. TargetTells' BY <1>1, <2>1, StoreType DEF TargetTells
  <2>3. "safe" \notin {"staged", "done"} \cup Replacing
        /\ "safe" \notin {"done", "undone"} \cup Replacing \cup Undoing
    BY DEF Replacing, Undoing
  <2>4. handles' \in [Runs -> SUBSET Archives] BY <1>1, StoreType
  <2> QED BY <1>1, <1>2, <1>5, <1>7, <2>1, <2>2, <2>3, <2>4, RestoreActs
<1> QED BY <1>6, <1>7 DEF CheckTarget

\* Staging looks again at the copies, and forgets the lease.
LEMMA StageMembersKeeps == ASSUME RestoreInv, StageMembers PROVE RestoreInv'
<1>1. /\ restore.at = "safe" /\ proc' = proc /\ handles' = handles /\ dirs' = dirs /\ files' = files
      /\ rollbacks' = rollbacks /\ replaced' = replaced /\ shared' = shared /\ stamp' = stamp
  BY DEF StageMembers
<1>2. lock = TheRestore /\ FilesThere BY <1>1, UnderWay
<1>3. files' \in [Archives -> Pairs] /\ FilesThere' /\ handles' \in [Runs -> SUBSET Archives]
  BY <1>1, <1>2, StoreType DEF FilesThere
<1>4. CASE EndRestore BY <1>1, <1>2, <1>3, <1>4, RestoreEnds DEF EndRestore
<1>5. ASSUME Intact(restore.from), lock' = lock,
             restore' = [restore EXCEPT !.at = "staged", !.staged = Unowned(dirs[restore.from].copy)]
      PROVE  RestoreInv'
  <2>1. PICK c : c = Unowned(dirs[restore.from].sums) OBVIOUS
  <2>2. c \in Sets BY <1>1, <2>1, UnderWay, UnownedIs
  <2>3. PICK y \in RestoreStates : y = restore BY StoreType
  <2>4. PICK x : x = [y EXCEPT !.at = "staged", !.staged = c] OBVIOUS
  <2>5. x \in RestoreStates /\ x.at = "staged" /\ x.staged = c /\ x.from = y.from
    BY <2>2, <2>4 DEF RestoreStates, RestorePlaces
  <2>6. restore' = x BY <1>5, <2>1, <2>3, <2>4 DEF Intact
  <2>7. TargetTells'
    <3>1. ~shared' => replaced' \subseteq rollbacks' BY <1>1, StoreType DEF TargetTells
    <3> QED BY <2>5, <2>6, <3>1 DEF TargetTells
  <2>8. "staged" \notin {"done", "undone"} \cup Replacing \cup Undoing BY DEF Replacing, Undoing
  <2> QED BY <1>1, <1>2, <1>3, <1>5, <2>1, <2>3, <2>5, <2>6, <2>7, <2>8, RestoreActs
<1> QED BY <1>4, <1>5 DEF StageMembers

LEMMA SaveTargetKeeps == ASSUME RestoreInv, SaveTarget PROVE RestoreInv'
<1>1. /\ restore.at = "staged" /\ proc' = proc /\ handles' = handles /\ dirs' = dirs /\ files' = files
      /\ rollbacks' = rollbacks \cup {files} /\ replaced' = replaced /\ shared' = shared
      /\ stamp' = stamp /\ lock' = lock
      /\ restore' = [restore EXCEPT !.at = "swap audit", !.saved = files]
  BY DEF SaveTarget
<1>2. lock = TheRestore /\ FilesThere BY <1>1, UnderWay
<1>3. files' \in [Archives -> Pairs] /\ FilesThere' /\ handles' \in [Runs -> SUBSET Archives]
  BY <1>1, <1>2, StoreType DEF FilesThere
<1>4. PICK y \in RestoreStates : y = restore BY StoreType
<1>5. PICK x : x = [y EXCEPT !.at = "swap audit", !.saved = files] OBVIOUS
<1>6. /\ x \in RestoreStates /\ x.at = "swap audit" /\ x.saved = files /\ x.from = y.from
      /\ x.staged = y.staged
  BY <1>5, StoreType DEF RestoreStates, RestorePlaces, Replacing
<1>7. restore' = x BY <1>1, <1>4, <1>5
<1>8. y.staged = Unowned(dirs[y.from].sums) BY <1>1, <1>4, StoreType DEF SourceTells
<1>9. TargetTells'
  <2>1. ~shared' => replaced' \subseteq rollbacks' BY <1>1, StoreType DEF TargetTells
  <2> QED BY <1>1, <1>6, <1>7, <2>1 DEF TargetTells
<1>10. x.saved \in rollbacks' /\ \A m \in Archives : x.saved[m].main # Absent
  BY <1>1, <1>2, <1>6 DEF FilesThere
<1>11. x.staged = Unowned(dirs[x.from].sums) /\ x.from = restore.from BY <1>4, <1>6, <1>8
<1>12. x.at \notin {"idle", "verified"} BY <1>6
<1>13. lock' = TheRestore /\ \A r \in Runs : handles'[r] \subseteq handles[r] BY <1>1, <1>2
<1> QED BY <1>1, <1>2, <1>3, <1>6, <1>7, <1>9, <1>10, <1>11, <1>12, <1>13, RestoreActs

\* What a restore that has saved the files knows.
LEMMA SavedIs ==
    ASSUME RestoreInv, restore.at \in {"done", "undone"} \cup Replacing \cup Undoing
    PROVE  /\ restore.saved \in rollbacks /\ \A m \in Archives : restore.saved[m].main # Absent
           /\ lock = TheRestore /\ FilesThere
           /\ restore.saved \in [Archives -> Pairs] /\ restore.staged \in Sets
           /\ restore.at \in {"done"} \cup Replacing =>
                /\ restore.staged = Unowned(dirs[restore.from].sums)
                /\ \A m \in Archives : restore.staged[m] # Absent
<1>1. restore.at \notin {"idle", "verified"} BY DEF Replacing, Undoing
<1>2. restore.at \in {"done"} \cup Replacing => restore.staged = Unowned(dirs[restore.from].sums)
  BY StoreType DEF SourceTells
<1>3. /\ lock = TheRestore /\ FilesThere /\ dirs[restore.from].sums \in Sets
      /\ \A m \in Archives : dirs[restore.from].sums[m] # Absent
  BY <1>1, UnderWay
<1>4. \A m \in Archives : Unowned(dirs[restore.from].sums)[m] # Absent BY <1>3, UnownedIs
<1>5. restore.saved \in rollbacks /\ \A m \in Archives : restore.saved[m].main # Absent
  BY StoreType DEF SourceTells
<1> QED BY <1>2, <1>3, <1>4, <1>5, StoreType, RestoreFields

LEMMA SwapMemberKeeps == ASSUME RestoreInv, NEW m \in Archives, SwapMember(m) PROVE RestoreInv'
<1>1. /\ restore.at = (IF m = "audit" THEN "swap audit" ELSE "swap operational")
      /\ proc' = proc /\ lock' = lock /\ dirs' = dirs /\ rollbacks' = rollbacks
      /\ shared' = shared /\ stamp' = stamp /\ handles' = [r \in Runs |-> handles[r] \ {m}]
      /\ files' = [files EXCEPT ![m] = [main |-> restore.staged[m], log |-> files[m].log]]
      /\ replaced' = (IF m = "audit" THEN replaced \cup {files} ELSE replaced)
      /\ Onward(AfterSwap(m))
  BY DEF SwapMember
<1>2. restore.at \in Replacing /\ AfterSwap(m) \in Replacing /\ AfterSwap(m) \in RestorePlaces
  BY <1>1 DEF Replacing, AfterSwap, RestorePlaces
<1>3. /\ restore.saved \in rollbacks /\ (\A k \in Archives : restore.saved[k].main # Absent)
      /\ lock = TheRestore /\ FilesThere /\ restore.staged = Unowned(dirs[restore.from].sums)
      /\ restore.staged \in Sets /\ restore.staged[m] # Absent
  BY <1>2, SavedIs
<1>4. PICK g : g = [main |-> restore.staged[m], log |-> files[m].log] OBVIOUS
<1>5. g \in Pairs /\ g.main = restore.staged[m] /\ g.log = files[m].log
  BY <1>3, <1>4, StoreType, SeenIs DEF Pairs, Sets
<1>6. files' = [files EXCEPT ![m] = g] BY <1>1, <1>4
<1>7. files' \in [Archives -> Pairs] /\ FilesThere' /\ files'[m] = g
  BY <1>3, <1>5, <1>6, Written
<1>8. \A k \in Archives \ {m} : files'[k] = files[k] BY <1>6, StoreType
<1>9. handles' \in [Runs -> SUBSET Archives] /\ \A r \in Runs : handles'[r] \subseteq handles[r]
  BY <1>1, StoreType
<1>10. PICK x \in RestoreStates : /\ restore' = x /\ x.at = AfterSwap(m) /\ x.from = restore.from
                                  /\ x.staged = restore.staged /\ x.saved = restore.saved
  BY <1>1, <1>2, OnwardIs
<1>11. TargetTells'
  <2>1. CASE m = "audit"
    <3>1. x.at = "log audit" BY <1>10, <2>1 DEF AfterSwap
    <3>2. ~shared => files = restore.saved /\ replaced \subseteq rollbacks
      BY <1>1, <2>1, StoreType DEF TargetTells
    <3>3. ~shared => replaced' \subseteq rollbacks' BY <1>1, <1>3, <2>1, <3>2
    <3> QED BY <1>1, <1>5, <1>7, <1>10, <2>1, <3>1, <3>3 DEF TargetTells
  <2>2. CASE m = "operational"
    <3>1. x.at = "log operational" BY <1>10, <2>2 DEF AfterSwap
    <3>2. restore.at = "swap operational" /\ replaced' = replaced BY <1>1, <2>2
    <3>3. ~shared => /\ files["audit"].main = restore.staged["audit"] /\ files["audit"].log = Absent
                     /\ replaced \subseteq rollbacks
      BY <3>2, StoreType DEF TargetTells
    <3>4. files'["audit"] = files["audit"] BY <1>8, <2>2 DEF Archives
    <3> QED BY <1>1, <1>5, <1>7, <1>10, <2>2, <3>1, <3>2, <3>3, <3>4 DEF TargetTells
  <2> QED BY <2>1, <2>2 DEF Archives
<1>12. x.at \notin {"idle", "verified"} BY <1>10 DEF AfterSwap
<1>13. x.saved \in rollbacks' /\ (\A k \in Archives : x.saved[k].main # Absent)
       /\ x.staged = Unowned(dirs[x.from].sums) /\ lock' = TheRestore
  BY <1>1, <1>3, <1>10
<1> QED BY <1>1, <1>3, <1>7, <1>9, <1>10, <1>11, <1>12, <1>13, RestoreActs

LEMMA UnlinkLogKeeps == ASSUME RestoreInv, NEW m \in Archives, UnlinkLog(m) PROVE RestoreInv'
<1>1. /\ restore.at = AfterSwap(m) /\ proc' = proc /\ lock' = lock /\ dirs' = dirs
      /\ rollbacks' = rollbacks /\ shared' = shared /\ stamp' = stamp /\ handles' = handles
      /\ replaced' = replaced /\ Onward(AfterLog(m))
      /\ files' = [files EXCEPT ![m] = [main |-> files[m].main, log |-> Absent]]
  BY DEF UnlinkLog
<1>2. /\ restore.at \in Replacing /\ AfterLog(m) \in {"done"} \cup Replacing
      /\ AfterLog(m) \in RestorePlaces /\ AfterLog(m) \notin {"idle", "verified"}
  BY <1>1 DEF Replacing, AfterSwap, AfterLog, RestorePlaces
<1>3. /\ restore.saved \in rollbacks /\ (\A k \in Archives : restore.saved[k].main # Absent)
      /\ lock = TheRestore /\ FilesThere /\ restore.staged = Unowned(dirs[restore.from].sums)
  BY <1>2, SavedIs
<1>4. PICK g : g = [main |-> files[m].main, log |-> Absent] OBVIOUS
<1>5. g \in Pairs /\ g.main = files[m].main /\ g.log = Absent
  BY <1>4, StoreType, SeenIs, AbsentIs DEF Pairs
<1>6. files' = [files EXCEPT ![m] = g] /\ g.main # Absent BY <1>1, <1>3, <1>4, <1>5 DEF FilesThere
<1>7. files' \in [Archives -> Pairs] /\ FilesThere' /\ files'[m] = g
  BY <1>3, <1>5, <1>6, Written
<1>8. \A k \in Archives \ {m} : files'[k] = files[k] BY <1>6, StoreType
<1>9. PICK x \in RestoreStates : /\ restore' = x /\ x.at = AfterLog(m) /\ x.from = restore.from
                                 /\ x.staged = restore.staged /\ x.saved = restore.saved
  BY <1>1, <1>2, OnwardIs
<1>10. TargetTells'
  <2>1. CASE m = "audit"
    <3>1. x.at = "swap operational" /\ restore.at = "log audit"
      BY <1>1, <1>9, <2>1 DEF AfterSwap, AfterLog
    <3>2. ~shared => files["audit"].main = restore.staged["audit"] /\ replaced \subseteq rollbacks
      BY <3>1, StoreType DEF TargetTells
    <3> QED BY <1>1, <1>5, <1>7, <1>9, <2>1, <3>1, <3>2 DEF TargetTells
  <2>2. CASE m = "operational"
    <3>1. x.at = "done" /\ restore.at = "log operational"
      BY <1>1, <1>9, <2>2 DEF AfterSwap, AfterLog
    <3>2. ~shared => /\ files["audit"].main = restore.staged["audit"] /\ files["audit"].log = Absent
                     /\ files["operational"].main = restore.staged["operational"]
                     /\ replaced \subseteq rollbacks
      BY <3>1, StoreType DEF TargetTells
    <3>3. files'["audit"] = files["audit"] BY <1>8, <2>2 DEF Archives
    <3> QED BY <1>1, <1>5, <1>7, <1>9, <2>2, <3>1, <3>2, <3>3 DEF TargetTells
  <2> QED BY <2>1, <2>2 DEF Archives
<1>11. /\ x.saved \in rollbacks' /\ (\A k \in Archives : x.saved[k].main # Absent)
       /\ x.staged = Unowned(dirs[x.from].sums) /\ lock' = TheRestore
       /\ x.at \notin {"idle", "verified"} /\ handles' \in [Runs -> SUBSET Archives]
       /\ \A r \in Runs : handles'[r] \subseteq handles[r]
  BY <1>1, <1>2, <1>3, <1>9, StoreType
<1> QED BY <1>1, <1>3, <1>7, <1>9, <1>10, <1>11, RestoreActs

LEMMA RestoreFailsKeeps == ASSUME RestoreInv, RestoreFails PROVE RestoreInv'
<1>1. /\ proc' = proc /\ handles' = handles /\ dirs' = dirs /\ files' = files
      /\ rollbacks' = rollbacks /\ replaced' = replaced /\ shared' = shared /\ stamp' = stamp
  BY DEF RestoreFails
<1>2. files' \in [Archives -> Pairs] /\ handles' \in [Runs -> SUBSET Archives] BY <1>1, StoreType
<1>3. CASE EndRestore /\ restore.at \notin {"idle", "verified"}
  <2>1. lock = TheRestore BY <1>3, UnderWay
  <2> QED BY <1>1, <1>2, <1>3, <2>1, RestoreEnds DEF EndRestore
<1>4. CASE restore.at \in Replacing \cup {"done"} /\ Onward("undo operational") /\ lock' = lock
  <2>1. /\ restore.saved \in rollbacks /\ (\A k \in Archives : restore.saved[k].main # Absent)
        /\ lock = TheRestore /\ FilesThere
    BY <1>4, SavedIs
  <2>2. PICK x \in RestoreStates : /\ restore' = x /\ x.at = "undo operational"
                                   /\ x.from = restore.from /\ x.saved = restore.saved
    BY <1>4, OnwardIs DEF RestorePlaces, Undoing
  <2>3. TargetTells'
    <3>1. ~shared' => replaced' \subseteq rollbacks' BY <1>1, StoreType DEF TargetTells
    <3> QED BY <2>2, <3>1 DEF TargetTells
  <2>4. x.at \notin {"idle", "verified"} /\ x.at \notin {"staged", "done"} \cup Replacing
    BY <2>2 DEF Replacing
  <2>5. FilesThere' BY <1>1, <2>1 DEF FilesThere
  <2>6. x.saved \in rollbacks' /\ (\A k \in Archives : x.saved[k].main # Absent)
    BY <1>1, <2>1, <2>2
  <2> QED BY <1>1, <1>2, <1>4, <2>1, <2>2, <2>3, <2>4, <2>5, <2>6, RestoreActs
<1>5. \A at \in {"locked", "safe", "staged"} \cup Undoing : at \notin {"idle", "verified"}
  BY DEF Undoing
<1> QED BY <1>3, <1>4, <1>5 DEF RestoreFails

LEMMA UndoMemberKeeps == ASSUME RestoreInv, UndoMember PROVE RestoreInv'
<1>1. /\ restore.at \in Undoing /\ proc' = proc /\ lock' = lock /\ dirs' = dirs
      /\ rollbacks' = rollbacks /\ shared' = shared /\ stamp' = stamp /\ handles' = handles
      /\ replaced' = replaced
  BY DEF UndoMember
<1>2. PICK m \in Archives, at \in {"undo audit", "undone"} :
        /\ files' = [files EXCEPT ![m] = restore.saved[m]] /\ Onward(at)
        /\ at = "undo audit" => m = "operational"
        /\ at = "undone" => m = "audit" /\ restore.at = "undo audit"
  BY <1>1 DEF UndoMember, Archives, Undoing
<1>3. /\ restore.saved \in rollbacks /\ (\A k \in Archives : restore.saved[k].main # Absent)
      /\ lock = TheRestore /\ FilesThere /\ restore.saved \in [Archives -> Pairs]
  BY <1>1, SavedIs
<1>4. PICK g \in Pairs : g = restore.saved[m] /\ g.main # Absent BY <1>3
<1>5. files' \in [Archives -> Pairs] /\ FilesThere' /\ files'[m] = g
  BY <1>2, <1>3, <1>4, Written
<1>6. \A k \in Archives \ {m} : files'[k] = files[k] BY <1>2, StoreType
<1>7. at \in RestorePlaces BY DEF RestorePlaces, Undoing
<1>8. PICK x \in RestoreStates : /\ restore' = x /\ x.at = at /\ x.from = restore.from
                                 /\ x.saved = restore.saved
  BY <1>2, <1>7, OnwardIs
<1>9. TargetTells'
  <2>1. ~shared' => replaced' \subseteq rollbacks' BY <1>1, StoreType DEF TargetTells
  <2>2. CASE at = "undo audit" BY <1>2, <1>4, <1>5, <1>8, <2>1, <2>2 DEF TargetTells
  <2>3. CASE at = "undone"
    <3>1. m = "audit" /\ restore.at = "undo audit" BY <1>2, <2>3
    <3>2. ~shared => files["operational"] = restore.saved["operational"]
      BY <3>1, StoreType DEF TargetTells
    <3>3. files'["operational"] = files["operational"] BY <1>6, <3>1 DEF Archives
    <3> QED BY <1>1, <1>4, <1>5, <1>8, <2>1, <2>3, <3>1, <3>2, <3>3 DEF TargetTells
  <2> QED BY <2>2, <2>3
<1>10. x.at \notin {"idle", "verified"} /\ x.at \notin {"staged", "done"} \cup Replacing
  BY <1>8 DEF Replacing
<1>11. /\ x.saved \in rollbacks' /\ (\A k \in Archives : x.saved[k].main # Absent)
       /\ lock' = TheRestore /\ handles' \in [Runs -> SUBSET Archives]
       /\ \A r \in Runs : handles'[r] \subseteq handles[r]
  BY <1>1, <1>3, <1>8, StoreType
<1> QED BY <1>1, <1>3, <1>5, <1>8, <1>9, <1>10, <1>11, RestoreActs

LEMMA FinishRestoreKeeps == ASSUME RestoreInv, FinishRestore PROVE RestoreInv'
<1>1. lock = TheRestore BY UnderWay DEF FinishRestore
<1> QED BY <1>1, StoreType, RestoreEnds DEF FinishRestore, EndRestore

LEMMA KillRestoreKeeps == ASSUME RestoreInv, KillRestore PROVE RestoreInv'
BY StoreType, RestoreEnds DEF KillRestore

-----------------------------------------------------------------------------
(* All of it *)

LEMMA RestoreStart == ASSUME BackupInit PROVE RestoreInv
<1>1. /\ files = [m \in Archives |-> [main |-> Absent, log |-> Absent]]
      /\ proc = [r \in Runs |-> "new"] /\ handles = [r \in Runs |-> {}] /\ lock = NoRun
      /\ dirs = [b \in Backups |-> [at |-> "copying", copy |-> NoContents, sums |-> NoContents]]
      /\ restore = NoRestore /\ replaced = {} /\ shared = FALSE /\ stamp = 1
  BY DEF BackupInit
<1>2. PICK g : g = [main |-> Absent, log |-> Absent] OBVIOUS
<1>3. g \in Pairs /\ Seen(g).owner = NoRun BY <1>2, AbsentIs DEF Pairs, Seen
<1>4. NoContents \in Sets /\ \A m \in Archives : NoContents[m] = Absent
  BY AbsentIs DEF NoContents, Sets
<1>5. PICK d : d = [at |-> "copying", copy |-> NoContents, sums |-> NoContents] OBVIOUS
<1>6. d \in Directories /\ d.at = "copying" /\ d.sums = NoContents BY <1>4, <1>5 DEF Directories
<1>7. files = [m \in Archives |-> g] /\ dirs = [b \in Backups |-> d] BY <1>1, <1>2, <1>5
<1>8. Owner = NoRun BY <1>3, <1>7 DEF Owner, Archives
<1>9. RestoreType
  <2>1. files \in [Archives -> Pairs] /\ dirs \in [Backups -> Directories] BY <1>3, <1>6, <1>7
  <2>2. proc \in [Runs -> Alive \cup {"new", "gone"}] /\ handles \in [Runs -> SUBSET Archives]
    BY <1>1
  <2> QED BY <1>1, <1>8, <2>1, <2>2, IdleIs DEF RestoreType
<1>10. SourceTells
  <2>1. "idle" \notin {"staged", "done"} \cup Replacing
        /\ "idle" \notin {"done", "undone"} \cup Replacing \cup Undoing
    BY DEF Replacing, Undoing
  <2> QED BY <1>1, <2>1, IdleIs, Names DEF SourceTells
<1>11. TargetTells BY <1>1, IdleIs DEF TargetTells
<1>12. ASSUME NEW r \in Runs PROVE ProcTells(r)
  <2>1. proc[r] = "new" /\ handles[r] = {} /\ lock # r /\ "new" \notin Alive
    BY <1>1, Names DEF Alive
  <2> QED BY <2>1 DEF ProcTells
<1>13. ASSUME NEW b \in Backups PROVE DirTells(b) BY <1>4, <1>6, <1>7 DEF DirTells
<1> QED BY <1>9, <1>10, <1>11, <1>12, <1>13 DEF RestoreInv

LEMMA RestoreStep == ASSUME RestoreInv, [BackupNext]_backupVars PROVE RestoreInv'
<1>1. CASE UNCHANGED backupVars
  <2>1. /\ files' = files /\ proc' = proc /\ handles' = handles /\ lock' = lock /\ dirs' = dirs
        /\ restore' = restore /\ rollbacks' = rollbacks /\ replaced' = replaced
        /\ shared' = shared /\ stamp' = stamp
    BY <1>1 DEF backupVars
  <2>2. (FilesThere' <=> FilesThere) /\ Owner' = Owner BY <2>1 DEF FilesThere, Owner
  <2>3. RestoreType' BY <2>1, <2>2, StoreType DEF RestoreType
  <2>4. SourceTells' /\ TargetTells' BY <2>1, StoreType DEF SourceTells, TargetTells
  <2>5. ASSUME NEW r \in Runs PROVE ProcTells(r)' BY <2>1, <2>2, StoreType DEF ProcTells
  <2>6. ASSUME NEW b \in Backups PROVE DirTells(b)' BY <2>1, <2>2, StoreType DEF DirTells
  <2> QED BY <2>3, <2>4, <2>5, <2>6 DEF RestoreInv
<1>2. ASSUME NEW r \in Runs,
             \/ OpenFiles(r) \/ Own(r) \/ ReleaseOwnership(r) \/ CloseRuntime(r)
             \/ KillRuntime(r) \/ ReleaseStale(r) \/ \E m \in Archives : CommitTo(r, m)
      PROVE  RestoreInv'
  BY <1>2, OpenFilesKeeps, OwnKeeps, ReleaseOwnershipKeeps, CloseRuntimeKeeps, KillRuntimeKeeps,
     ReleaseStaleKeeps, CommitToKeeps
<1>3. ASSUME NEW b \in Backups,
             \/ Describe(b) \/ AbandonBackup(b) \/ BeginRestore(b)
             \/ \E m \in Archives : CopyMember(b, m) \/ Damage(b, m)
      PROVE  RestoreInv'
  BY <1>3, DescribeKeeps, AbandonBackupKeeps, BeginRestoreKeeps, CopyMemberKeeps, DamageKeeps
<1>4. CASE LockTarget \/ CheckTarget \/ StageMembers \/ SaveTarget
  BY <1>4, LockTargetKeeps, CheckTargetKeeps, StageMembersKeeps, SaveTargetKeeps
<1>5. CASE \E m \in Archives : SwapMember(m) \/ UnlinkLog(m)
  BY <1>5, SwapMemberKeeps, UnlinkLogKeeps
<1>6. CASE RestoreFails \/ UndoMember \/ FinishRestore \/ KillRestore
  BY <1>6, RestoreFailsKeeps, UndoMemberKeeps, FinishRestoreKeeps, KillRestoreKeeps
<1>7. CASE BackupNext BY <1>2, <1>3, <1>4, <1>5, <1>6, <1>7 DEF BackupNext
<1> QED BY <1>1, <1>7

LEMMA RestoreTold == ASSUME RestoreInv PROVE FilesAreSafe
<1>1. OwnerIsAlone
  <2>1. \A r \in Runs : proc[r] = "owner" =>
          lock = r /\ (~shared => handles[r] = Archives /\ Owner = r)
    BY StoreType DEF ProcTells, Alive
  <2> QED BY <2>1 DEF OwnerIsAlone
<1>2. ASSUME ~shared, restore.at = "done", NEW m \in Archives
      PROVE  /\ files[m] = [main |-> Unowned(dirs[restore.from].sums)[m], log |-> Absent]
             /\ files[m].main # Absent
  <2>1. /\ restore.staged = Unowned(dirs[restore.from].sums) /\ FilesThere
    BY <1>2, SavedIs
  <2>2. files[m].main = restore.staged[m] /\ files[m].log = Absent
    BY <1>2, StoreType DEF TargetTells, Archives
  <2>3. PICK g \in Pairs : g = files[m] BY StoreType
  <2>4. g = [main |-> g.main, log |-> g.log] BY DEF Pairs
  <2> QED BY <2>1, <2>2, <2>3, <2>4 DEF FilesThere
<1>3. ASSUME ~shared, restore.at = "undone" PROVE files = restore.saved
  <2>1. files \in [Archives -> Pairs] /\ restore.saved \in [Archives -> Pairs]
    BY StoreType, RestoreFields
  <2>2. \A m \in Archives : files[m] = restore.saved[m] BY <1>3, StoreType DEF TargetTells, Archives
  <2> QED BY <2>1, <2>2
<1>4. ~shared => replaced \subseteq rollbacks BY StoreType DEF TargetTells
<1>5. RestoreIsWhole BY <1>2, <1>3, <1>4 DEF RestoreIsWhole
<1> QED BY <1>1, <1>5 DEF FilesAreSafe

\* The files of a deployment, for any number of runtimes, backups, restores,
\* commits, failures and kills: at most one runtime owns them and the row names
\* it, and a restore that ran alone replaced all of them by one complete backup,
\* put back what was there, or left what was there in a rollback directory
\* (RuntimeOwnership, BackupService.restore).
THEOREM FilesStaySafe == BackupSpec => []FilesAreSafe
<1>1. BackupInit => RestoreInv BY RestoreStart
<1>2. RestoreInv /\ [BackupNext]_backupVars => RestoreInv' BY RestoreStep
<1>3. RestoreInv => FilesAreSafe BY RestoreTold
<1> QED BY <1>1, <1>2, <1>3, PTL DEF BackupSpec

-----------------------------------------------------------------------------
(* The skill.  A bundle is chained when each plan waits for the last plan    *)
(* before it on each of its devices; that two plans on one device are then   *)
(* chained however far apart they lie follows from the least plan on the     *)
(* device that waits for the later one.                                      *)

LEMMA LeastNatural == ASSUME NEW S \in SUBSET Nat, S # {} PROVE \E m \in S : \A n \in S : m <= n
<1>1. \E R : R = OpToRel(<, Nat) /\ IsWellFoundedOn(R, Nat) BY NatLessThanWellFounded, Zenon
<1>2. PICK R : R = {ss \in Nat \X Nat : ss[1] < ss[2]} /\ IsWellFoundedOn(R, Nat)
  BY <1>1, Zenon DEF OpToRel
<1>3. PICK x \in S : \A y \in S : <<y, x>> \notin R BY <1>2, WFMin
<1>4. \A y \in S : y \in Nat /\ x \in Nat /\ ~(y < x) BY <1>2, <1>3
<1> QED BY <1>4

LEMMA GreatestBelow ==
    ASSUME NEW n \in Nat, NEW S \in SUBSET Nat, S # {}, \A m \in S : m <= n
    PROVE  \E m \in S : \A k \in S : k <= m
<1>0. \A m \in S : m \in Nat /\ n - m \in Nat OBVIOUS
<1>a. PICK D : D = {n - m : m \in S} OBVIOUS
<1>1. D \in SUBSET Nat /\ D # {} BY <1>0, <1>a
<1>2. PICK d \in D : \A e \in D : d <= e BY <1>1, LeastNatural
<1>3. PICK m \in S : d = n - m BY <1>a
<1>4. ASSUME NEW k \in S PROVE k <= m
  <2>1. n - k \in D BY <1>a
  <2>2. d <= n - k BY <1>2, <2>1
  <2>3. k \in Nat /\ m \in Nat OBVIOUS
  <2> QED BY <1>3, <2>2, <2>3
<1> QED BY <1>4

Chained(b) == \A j \in DOMAIN b : b[j].after = Predecessors(b, j)

LEMMA ChainReaches ==
    ASSUME NEW b, NEW n \in Nat, DOMAIN b = 1 .. n, Chained(b),
           NEW j \in 1 .. n, NEW i \in 1 .. (j - 1), b[i].touches \cap b[j].touches # {}
    PROVE  i \in Awaits(b, j)
<1>1. PICK d : d \in b[i].touches /\ d \in b[j].touches OBVIOUS
<1>2. i \in Nat /\ j \in Nat /\ i < j /\ i \in DOMAIN b /\ 0 < i OBVIOUS
<1> SUFFICES ASSUME NEW S \in SUBSET DOMAIN b, b[j].after \subseteq S,
                    \A k \in S : b[k].after \subseteq S
             PROVE  i \in S
  BY <1>2 DEF Awaits
<1>t. PICK T : T = {k \in S \cup {j} : i < k /\ d \in b[k].touches} OBVIOUS
<1>3. T \in SUBSET Nat /\ j \in T BY <1>1, <1>2, <1>t
<1>4. PICK k \in T : \A l \in T : k <= l BY <1>3, LeastNatural
<1>5. k \in DOMAIN b /\ k \in Nat /\ i < k /\ d \in b[k].touches /\ b[k].after \subseteq S
  BY <1>2, <1>4, <1>t
<1>u. PICK M : M = {m \in i .. (k - 1) : d \in b[m].touches} OBVIOUS
<1>6. M \in SUBSET Nat /\ i \in M /\ \A m \in M : m <= k BY <1>1, <1>2, <1>5, <1>u
<1>7. PICK m \in M : \A l \in M : l <= m BY <1>5, <1>6, GreatestBelow
<1>8. m \in 1 .. (k - 1) /\ i <= m /\ d \in b[m].touches BY <1>2, <1>5, <1>7, <1>u
<1>9. \A l \in (m + 1) .. (k - 1) : d \notin b[l].touches
  <2>1. ASSUME NEW l \in (m + 1) .. (k - 1), d \in b[l].touches PROVE FALSE
    <3>1. l \in M BY <1>2, <1>5, <1>8, <1>u, <2>1
    <3> QED BY <1>7, <1>8, <1>5, <3>1, <2>1
  <2> QED BY <2>1
<1>10. m \in Predecessors(b, k) BY <1>5, <1>8, <1>9 DEF Predecessors
<1>11. m \in S BY <1>5, <1>10 DEF Chained
<1>12. CASE m = i BY <1>11, <1>12
<1>13. CASE m # i
  <2>1. m \in T BY <1>2, <1>8, <1>11, <1>13, <1>t
  <2> QED BY <1>4, <1>5, <1>8, <2>1
<1> QED BY <1>12, <1>13

TouchSets == UNION {{p[i].touches : i \in DOMAIN p} : p \in Proposals}
Revs      == [1 .. 2 -> Nat]
Parts     == [touches : TouchSets, confirm : BOOLEAN, after : SUBSET Nat, rev : Revs]
HandRows  == [at : {"idle", "found", "ready", "proposed", "validated", "grants", "sending", "ended"},
              found : Nat, proposal : Proposals \cup {<<>>}, bundle : Seq(Parts), rev : Revs,
              next : Nat, approved : BOOLEAN]
KeptRows  == [status : Statuses, rev : Revs, bundle : Seq(Parts)]
SentRows  == [by : Hands, bundle : Seq(Parts), approved : BOOLEAN]

SkillType ==
    /\ current \in Revs /\ hand \in [Hands -> HandRows] /\ kept \in KeptRows /\ final \in Statuses
    /\ carried \in [as : Outcomes \cup {"no", "committing"}, by : Hands]
    /\ sent \subseteq SentRows /\ declined \in BOOLEAN /\ dropped \subseteq Hands

BundleOK(b) == Chained(b) /\ \A i, j \in DOMAIN b : b[i].rev[1] = b[j].rev[1]

\* What a call that stands at h.at holds.
HandOK(h) ==
    /\ BundleOK(h.bundle)
    /\ h.at \in {"idle", "found", "ready"} => h.bundle = <<>>
    /\ h.at = "proposed" =>
         /\ h.proposal \in Proposals /\ Len(h.bundle) < Len(h.proposal)
         /\ \A i \in DOMAIN h.bundle : /\ h.bundle[i].touches = h.proposal[i].touches
                                       /\ h.bundle[i].rev[1] = h.found
    /\ h.at \notin {"grants", "sending"} => h.next = 1
    /\ \A i \in DOMAIN h.bundle : i < h.next /\ h.bundle[i].confirm => h.approved

SentOK(s) == BundleOK(s.bundle) /\ (Confirms(s.bundle) => s.approved)

Busy(x) == hand[x].at \in {"grants", "sending"}

\* Nothing is resumed, kept or declined before run() returns, nor sent before it executes.
RunFirst ==
    /\ hand["run"].at # "ended" =>
         kept = NoResult /\ final = "none" /\ ~declined /\ \A x \in Resumes : hand[x].at = "idle"
    /\ hand["run"].at \notin {"grants", "sending", "ended"} => sent = {}
    /\ \A x \in Resumes : hand[x].at \in {"idle", "grants", "sending", "ended"}

AllDropped == \A s \in sent : s.by \in dropped

\* While the run waits for approval, whoever sent a request was cancelled or still executes.
SentTells ==
    final = "none" /\ kept.status = "awaiting_approval" =>
        \A s \in sent : s.by \in dropped \/ Busy(s.by)

NothingToCome == hand["run"].at = "ended" /\ \A x \in Hands : ~Busy(x)
DeclinedTells == declined => AllDropped /\ NothingToCome /\ kept.status # "awaiting_approval"
FinalTells ==
    /\ final = "completed" => carried.as = "completed"
    /\ final = "scheduled" => carried.as \in {"scheduled", "mixed"}
    /\ final = "no_action_required" => sent = {} /\ NothingToCome

SkillInv ==
    /\ SkillType /\ BundleOK(kept.bundle)
    /\ \A x \in Hands : HandOK(hand[x])
    /\ \A s \in sent : SentOK(s)
    /\ RunFirst /\ SentTells /\ DeclinedTells /\ FinalTells

LEMMA EmptyBundle == <<>> \in Seq(Parts) /\ DOMAIN <<>> = {} /\ Len(<<>>) = 0 /\ BundleOK(<<>>)
<1>1. <<>> \in Seq(Parts) /\ DOMAIN <<>> = {} /\ Len(<<>>) = 0 OBVIOUS
<1>2. BundleOK(<<>>) BY <1>1 DEF BundleOK, Chained
<1> QED BY <1>1, <1>2

LEMMA ZeroRev == <<0, 0>> \in Revs
BY DEF Revs

LEMMA RestingIs ==
    /\ Resting \in HandRows /\ HandOK(Resting) /\ Resting.at = "idle"
    /\ Ended \in HandRows /\ HandOK(Ended) /\ Ended.at = "ended"
<1>1. Resting \in HandRows BY EmptyBundle, ZeroRev DEF Resting, HandRows
<1>2. Resting.at = "idle" /\ Resting.bundle = <<>> /\ Resting.next = 1 BY DEF Resting
<1>3. HandOK(Resting) BY <1>2, EmptyBundle DEF HandOK
<1>4. Ended \in HandRows /\ Ended.at = "ended" /\ Ended.bundle = <<>> /\ Ended.next = 1
  BY <1>1, <1>2 DEF Ended, HandRows
<1>5. HandOK(Ended) BY <1>4, EmptyBundle DEF HandOK
<1> QED BY <1>1, <1>2, <1>3, <1>4, <1>5

LEMMA NoResultIs == NoResult \in KeptRows /\ NoResult.status = "none" /\ BundleOK(NoResult.bundle)
BY EmptyBundle, ZeroRev DEF NoResult, KeptRows, Statuses, Outcomes

LEMMA WorkflowInitially == WorkflowInit => SkillInv
<1> SUFFICES ASSUME WorkflowInit PROVE SkillInv OBVIOUS
<1>1. \A x \in Hands : hand[x] = Resting BY DEF WorkflowInit
<1>2. "run" \in Hands /\ Resumes \subseteq Hands BY DEF Hands
<1>3. carried \in [as : Outcomes \cup {"no", "committing"}, by : Hands] BY <1>2 DEF WorkflowInit
<1>4. hand \in [Hands -> HandRows] BY RestingIs DEF WorkflowInit
<1>5. final = "none" /\ final \in Statuses BY DEF WorkflowInit, Statuses
<1>6. SkillType BY <1>3, <1>4, <1>5, ZeroRev, NoResultIs DEF WorkflowInit, SkillType
<1>7. BundleOK(kept.bundle) BY NoResultIs DEF WorkflowInit
<1>8. \A x \in Hands : HandOK(hand[x]) BY <1>1, RestingIs
<1>9. sent = {} /\ ~declined /\ kept = NoResult BY DEF WorkflowInit
<1>10. RunFirst BY <1>1, <1>2, <1>5, <1>9, RestingIs DEF RunFirst
<1>11. SentTells /\ DeclinedTells BY <1>9 DEF SentTells, DeclinedTells, AllDropped
<1>12. FinalTells BY <1>5 DEF FinalTells
<1> QED BY <1>6, <1>7, <1>8, <1>9, <1>10, <1>11, <1>12 DEF SkillInv

LEMMA HandsMove ==
    ASSUME SkillInv, NEW x \in Hands, NEW h \in HandRows, HandOK(h), hand' = [hand EXCEPT ![x] = h]
    PROVE  /\ hand' \in [Hands -> HandRows]
           /\ \A y \in Hands : hand'[y] = IF y = x THEN h ELSE hand[y]
           /\ \A y \in Hands : HandOK(hand'[y])
<1>1. hand \in [Hands -> HandRows] /\ \A y \in Hands : HandOK(hand[y]) BY DEF SkillInv, SkillType
<1>2. \A y \in Hands : hand'[y] = IF y = x THEN h ELSE hand[y] BY <1>1
<1>3. hand' \in [Hands -> HandRows] BY <1>1
<1> QED BY <1>1, <1>2, <1>3

\* A result is consumed.
LEMMA EndsKeeps ==
    ASSUME SkillInv, NEW x \in Hands, NEW status \in Statuses, status # "none", Ends(x, status),
           UNCHANGED <<current, carried, sent, declined, dropped>>,
           Busy(x) \/ (x = "run" /\ hand[x].at # "ended"),
           status = "completed" => carried.as = "completed",
           status = "scheduled" => carried.as \in {"scheduled", "mixed"},
           status = "no_action_required" => x = "run" /\ hand[x].at = "ready"
    PROVE  SkillInv'
<1>1. PICK r : r = [status |-> status, rev |-> hand[x].rev, bundle |-> hand[x].bundle] OBVIOUS
<1>2. hand[x] \in HandRows /\ HandOK(hand[x]) BY DEF SkillInv, SkillType
<1>3. r \in KeptRows /\ r.bundle = hand[x].bundle BY <1>1, <1>2 DEF HandRows, KeptRows
<1>4. BundleOK(r.bundle) BY <1>2, <1>3 DEF HandOK
<1>5. kept' = r /\ final' = status /\ hand' = [hand EXCEPT ![x] = Ended] BY <1>1 DEF Ends
<1>6. /\ hand' \in [Hands -> HandRows]
      /\ \A y \in Hands : hand'[y] = IF y = x THEN Ended ELSE hand[y]
      /\ \A y \in Hands : HandOK(hand'[y])
  BY <1>5, RestingIs, HandsMove
<1>7. SkillType' BY <1>3, <1>5, <1>6 DEF SkillInv, SkillType
<1>8. "run" \in Hands /\ Resumes \subseteq Hands /\ \A y \in Hands : y = "run" \/ y \in Resumes
  BY DEF Hands
<1>9. RunFirst BY DEF SkillInv
<1>10. hand'["run"].at = "ended" BY <1>6, <1>8, <1>9, RestingIs DEF RunFirst, Busy
<1>11. RunFirst' BY <1>6, <1>8, <1>9, <1>10, RestingIs DEF RunFirst
<1>12. SentTells' BY <1>5 DEF SentTells
<1>13. ~declined BY <1>8, <1>9 DEF SkillInv, DeclinedTells, NothingToCome, RunFirst
<1>14. DeclinedTells' BY <1>13 DEF DeclinedTells
<1>15. status = "no_action_required" => sent = {} /\ \A y \in Hands : ~(hand'[y].at \in {"grants", "sending"})
  BY <1>6, <1>8, <1>9, RestingIs DEF RunFirst
<1>16. FinalTells' BY <1>5, <1>10, <1>15 DEF FinalTells, NothingToCome, Busy
<1>17. \A s \in sent' : SentOK(s) BY DEF SkillInv
<1>18. BundleOK(kept'.bundle) BY <1>4, <1>5
<1> QED BY <1>6, <1>7, <1>11, <1>12, <1>14, <1>16, <1>17, <1>18 DEF SkillInv

\* run() ends without executing.
LEMMA StoreKeeps ==
    ASSUME SkillInv, NEW status \in {"failed", "blocked", "awaiting_approval", "cancelled"},
           Store("run", status), hand["run"].at \notin {"grants", "sending", "ended"},
           UNCHANGED <<current, carried, sent, dropped>>, declined' \in BOOLEAN,
           declined' => declined \/ status = "cancelled"
    PROVE  SkillInv'
<1>0. "run" \in Hands /\ Resumes \subseteq Hands /\ \A y \in Hands : y = "run" \/ y \in Resumes
  BY DEF Hands
<1>1. hand["run"] \in HandRows /\ HandOK(hand["run"]) BY <1>0 DEF SkillInv, SkillType
<1>2. kept' \in KeptRows /\ BundleOK(kept'.bundle) /\ kept'.status = status
  <2>1. status \in Statuses BY DEF Statuses, Outcomes
  <2>2. CASE status \in {"awaiting_approval", "cancelled"}
    <3>1. PICK r : r = [status |-> status, rev |-> hand["run"].rev, bundle |-> hand["run"].bundle] OBVIOUS
    <3>2. r \in KeptRows /\ r.bundle = hand["run"].bundle /\ r.status = status
      BY <1>1, <2>1, <3>1 DEF HandRows, KeptRows
    <3>3. kept' = r BY <2>2, <3>1 DEF Store
    <3> QED BY <1>1, <3>2, <3>3 DEF HandOK
  <2>3. CASE status \notin {"awaiting_approval", "cancelled"}
    <3>1. PICK r : r = [NoResult EXCEPT !.status = status] OBVIOUS
    <3>2. r \in KeptRows /\ r.bundle = NoResult.bundle /\ r.status = status
      BY <2>1, <3>1, NoResultIs DEF KeptRows
    <3>3. kept' = r BY <2>3, <3>1 DEF Store
    <3> QED BY <3>2, <3>3, NoResultIs
  <2> QED BY <2>2, <2>3
<1>3. hand' = [hand EXCEPT !["run"] = Ended] /\ final' = final BY DEF Store
<1>4. /\ hand' \in [Hands -> HandRows]
      /\ \A y \in Hands : hand'[y] = IF y = "run" THEN Ended ELSE hand[y]
      /\ \A y \in Hands : HandOK(hand'[y])
  BY <1>0, <1>3, RestingIs, HandsMove
<1>5. SkillType' BY <1>2, <1>3, <1>4 DEF SkillInv, SkillType
<1>6. RunFirst BY DEF SkillInv
<1>7. sent = {} /\ final = "none" /\ ~declined /\ \A x \in Resumes : hand[x].at = "idle"
  BY <1>6 DEF RunFirst
<1>8. RunFirst' BY <1>0, <1>4, <1>6, RestingIs DEF RunFirst
<1>9. SentTells' BY <1>7 DEF SentTells
<1>10. NothingToCome' /\ AllDropped' BY <1>0, <1>4, <1>7, RestingIs DEF NothingToCome, Busy, AllDropped
<1>11. DeclinedTells' BY <1>2, <1>7, <1>10 DEF DeclinedTells
<1>12. FinalTells' BY <1>3, <1>7 DEF FinalTells
<1>13. \A s \in sent' : SentOK(s) BY DEF SkillInv
<1> QED BY <1>2, <1>4, <1>5, <1>8, <1>9, <1>11, <1>12, <1>13 DEF SkillInv

\* resume() ends without executing.
LEMMA RefuseKeeps ==
    ASSUME SkillInv, NEW x \in Resumes, Calling(x), hand' = [hand EXCEPT ![x] = Ended],
           UNCHANGED <<final, current, carried, sent, dropped>>,
           NEW status \in {"blocked", "cancelled"},
           kept' = kept \/ kept' = [kept EXCEPT !.status = status],
           declined' \in BOOLEAN,
           declined' => declined \/ (kept' # kept /\ AllDropped /\ \A y \in Hands : ~Busy(y))
    PROVE  SkillInv'
<1>0. "run" \in Hands /\ Resumes \subseteq Hands /\ "run" \notin Resumes
  BY WorkflowAssumption DEF Hands
<1>1. kept \in KeptRows /\ BundleOK(kept.bundle) BY DEF SkillInv, SkillType
<1>2. kept' \in KeptRows /\ BundleOK(kept'.bundle) /\ (kept' = kept \/ kept'.status = status)
  <2>1. status \in Statuses BY DEF Statuses, Outcomes
  <2>2. PICK r : r = [kept EXCEPT !.status = status] OBVIOUS
  <2>3. r \in KeptRows /\ r.bundle = kept.bundle /\ r.status = status BY <1>1, <2>1, <2>2 DEF KeptRows
  <2> QED BY <1>1, <2>2, <2>3
<1>3. /\ hand' \in [Hands -> HandRows]
      /\ \A y \in Hands : hand'[y] = IF y = x THEN Ended ELSE hand[y]
      /\ \A y \in Hands : HandOK(hand'[y])
  BY <1>0, RestingIs, HandsMove
<1>4. SkillType' BY <1>2, <1>3 DEF SkillInv, SkillType
<1>5. hand["run"].at = "ended" /\ hand'["run"] = hand["run"] BY <1>0, <1>3 DEF Calling
<1>6. hand[x].at = "idle" BY DEF Calling
<1>7. RunFirst' BY <1>0, <1>3, <1>5, RestingIs DEF SkillInv, RunFirst
<1>8. \A y \in Hands : Busy(y) <=> hand'[y].at \in {"grants", "sending"}
  BY <1>3, <1>6, RestingIs DEF Busy
<1>9. SentTells'
  <2>1. SentTells BY DEF SkillInv
  <2>2. \A s \in sent : s.by \in Hands BY DEF SkillInv, SkillType, SentRows
  <2> QED BY <1>2, <1>8, <2>1, <2>2 DEF SentTells, Busy
<1>10. (NothingToCome => NothingToCome') /\ (AllDropped => AllDropped') BY <1>5, <1>8 DEF NothingToCome, Busy, AllDropped
<1>11. DeclinedTells'
  <2>1. DeclinedTells BY DEF SkillInv
  <2>2. CASE declined BY <1>2, <1>10, <2>1, <2>2 DEF DeclinedTells
  <2>3. CASE ~declined
    <3>1. declined' => NothingToCome /\ AllDropped BY <1>5, <2>3 DEF NothingToCome
    <3>2. declined' => kept'.status = status BY <1>2, <2>3
    <3> QED BY <1>10, <3>1, <3>2 DEF DeclinedTells
  <2> QED BY <2>2, <2>3 DEF SkillInv, SkillType
<1>12. FinalTells'
  <2>1. FinalTells BY DEF SkillInv
  <2> QED BY <1>10, <2>1 DEF FinalTells
<1>13. \A s \in sent' : SentOK(s) BY DEF SkillInv
<1> QED BY <1>2, <1>3, <1>4, <1>7, <1>9, <1>11, <1>12, <1>13 DEF SkillInv

\* run() goes on.
LEMMA RunGoesOn ==
    ASSUME SkillInv, hand["run"].at \notin {"grants", "sending", "ended"},
           NEW h \in HandRows, HandOK(h), h.at \notin {"sending", "ended"},
           hand' = [hand EXCEPT !["run"] = h],
           UNCHANGED <<current, kept, final, carried, sent, declined, dropped>>
    PROVE  SkillInv'
<1>0. "run" \in Hands /\ Resumes \subseteq Hands /\ "run" \notin Resumes
  BY WorkflowAssumption DEF Hands
<1>1. /\ hand' \in [Hands -> HandRows]
      /\ \A y \in Hands : hand'[y] = IF y = "run" THEN h ELSE hand[y]
      /\ \A y \in Hands : HandOK(hand'[y])
  BY <1>0, HandsMove
<1>2. SkillType' BY <1>1 DEF SkillInv, SkillType
<1>3. RunFirst BY DEF SkillInv
<1>4. sent = {} /\ final = "none" /\ ~declined BY <1>3 DEF RunFirst
<1>5. RunFirst' BY <1>0, <1>1, <1>3 DEF RunFirst
<1>6. SentTells' /\ DeclinedTells' BY <1>4 DEF SentTells, DeclinedTells
<1>7. FinalTells' BY <1>4 DEF FinalTells
<1>8. (\A s \in sent' : SentOK(s)) /\ BundleOK(kept'.bundle) BY DEF SkillInv
<1> QED BY <1>1, <1>2, <1>5, <1>6, <1>7, <1>8 DEF SkillInv

LEMMA RunFailsKeeps == ASSUME SkillInv, RunFails PROVE SkillInv'
<1>1. hand["run"].at \in {"idle", "found", "ready", "proposed", "validated"}
  BY DEF RunFails
<1>2. PICK status \in {"failed", "blocked"} : Store("run", status)
  BY <1>1 DEF RunFails, CallFailures, CheckFailures, PlanFailures
<1>3. UNCHANGED <<current, carried, sent, dropped>> /\ declined' = declined /\ declined' \in BOOLEAN
  BY DEF RunFails, Quiet, SkillInv, SkillType
<1> QED BY <1>1, <1>2, <1>3, StoreKeeps

LEMMA ContextKeeps == ASSUME SkillInv, Discover \/ ReadContext \/ Optimize PROVE SkillInv'
<1>0. hand["run"] \in HandRows /\ HandOK(hand["run"]) BY DEF SkillInv, SkillType, Hands
<1>1. UNCHANGED <<current, carried, sent, declined, dropped>> /\ declined' \in BOOLEAN
  BY DEF Discover, ReadContext, Optimize, Quiet, SkillInv, SkillType
<1>2. hand["run"].at \in {"idle", "found", "ready"} BY DEF Discover, ReadContext, Optimize
<1>3. hand["run"].bundle = <<>> /\ hand["run"].next = 1 BY <1>0, <1>2 DEF HandOK
<1>4. CASE Discover
  <2>1. PICK n \in Nat : n = current[1] BY DEF SkillInv, SkillType, Revs
  <2>2. PICK h : h = [hand["run"] EXCEPT !.at = "found", !.found = n] OBVIOUS
  <2>3. h \in HandRows /\ h.at = "found" /\ h.bundle = <<>> /\ h.next = 1
    BY <1>0, <1>3, <2>2 DEF HandRows
  <2>4. HandOK(h) BY <2>3, EmptyBundle DEF HandOK
  <2>5. hand' = [hand EXCEPT !["run"] = h] BY <1>4, <2>1, <2>2 DEF Discover
  <2>6. UNCHANGED <<kept, final>> BY <1>4 DEF Discover
  <2> QED BY <1>1, <1>2, <2>3, <2>4, <2>5, <2>6, RunGoesOn
<1>5. CASE ReadContext
  <2>1. CASE Store("run", "blocked") BY <1>1, <1>2, <2>1, StoreKeeps
  <2>2. CASE hand' = [hand EXCEPT !["run"] = [hand["run"] EXCEPT !.at = "ready"]] /\ UNCHANGED <<kept, final>>
    <3>1. PICK h : h = [hand["run"] EXCEPT !.at = "ready"] OBVIOUS
    <3>2. h \in HandRows /\ h.at = "ready" /\ h.bundle = <<>> /\ h.next = 1
      BY <1>0, <1>3, <3>1 DEF HandRows
    <3>3. HandOK(h) BY <3>2, EmptyBundle DEF HandOK
    <3>4. hand' = [hand EXCEPT !["run"] = h] BY <2>2, <3>1
    <3> QED BY <1>1, <1>2, <2>2, <3>2, <3>3, <3>4, RunGoesOn
  <2> QED BY <1>5, <2>1, <2>2 DEF ReadContext
<1>6. CASE Optimize
  <2>1. CASE Ends("run", "no_action_required")
    <3>1. PICK status \in Statuses : status = "no_action_required" BY DEF Statuses
    <3>2. "run" \in Hands /\ hand["run"].at = "ready" BY <1>6 DEF Hands, Optimize
    <3> QED BY <1>1, <2>1, <3>1, <3>2, EndsKeeps
  <2>2. ASSUME NEW p \in Proposals, UNCHANGED <<kept, final>>,
               hand' = [hand EXCEPT !["run"] = [hand["run"] EXCEPT !.at = "proposed", !.proposal = p]]
        PROVE  SkillInv'
    <3>1. PICK h : h = [hand["run"] EXCEPT !.at = "proposed", !.proposal = p] OBVIOUS
    <3>2. h \in HandRows /\ h.at = "proposed" /\ h.bundle = <<>> /\ h.next = 1 /\ h.proposal = p
      BY <1>0, <1>3, <3>1 DEF HandRows
    <3>3. Len(p) \in Nat /\ 0 < Len(p) BY WorkflowAssumption
    <3>4. HandOK(h) BY <3>2, <3>3, EmptyBundle DEF HandOK
    <3>5. hand' = [hand EXCEPT !["run"] = h] BY <2>2, <3>1
    <3> QED BY <1>1, <1>2, <2>2, <3>2, <3>4, <3>5, RunGoesOn
  <2> QED BY <1>6, <2>1, <2>2 DEF Optimize
<1> QED BY <1>4, <1>5, <1>6

LEMMA SamePredecessors ==
    ASSUME NEW b, NEW c, NEW j \in Nat, \A i \in 1 .. j : b[i].touches = c[i].touches
    PROVE  Predecessors(b, j) = Predecessors(c, j)
<1>1. \A i \in 1 .. (j - 1) : i \in 1 .. j /\ \A k \in (i + 1) .. (j - 1) : k \in 1 .. j OBVIOUS
<1>2. CASE j = 0 BY <1>2 DEF Predecessors
<1>3. CASE j # 0
  <2>1. j \in 1 .. j BY <1>3
  <2> QED BY <1>1, <2>1 DEF Predecessors
<1> QED BY <1>2, <1>3

LEMMA ValidateNextKeeps == ASSUME SkillInv, ValidateNext PROVE SkillInv'
<1>0. hand["run"] \in HandRows /\ HandOK(hand["run"]) BY DEF SkillInv, SkillType, Hands
<1>1. UNCHANGED <<current, carried, sent, declined, dropped>> /\ declined' \in BOOLEAN
  BY DEF ValidateNext, Quiet, SkillInv, SkillType
<1>2. hand["run"].at = "proposed" BY DEF ValidateNext
<1>3. PICK p, b, j : p = hand["run"].proposal /\ b = hand["run"].bundle /\ j = Len(b) + 1 OBVIOUS
<1>4. CASE Store("run", "blocked") BY <1>1, <1>2, <1>4, StoreKeeps
<1>5. CASE ~Store("run", "blocked")
  <2>1. PICK r : r = [touches |-> p[j].touches, confirm |-> p[j].confirm,
                      after |-> Predecessors(p, j), rev |-> current] OBVIOUS
  <2>2. PICK a \in {"validated", "proposed"} : a = IF j = Len(p) THEN "validated" ELSE "proposed" OBVIOUS
  <2>3. PICK h : h = [hand["run"] EXCEPT !.bundle = Append(b, r), !.rev = current, !.at = a] OBVIOUS
  <2>4. /\ hand' = [hand EXCEPT !["run"] = h] /\ UNCHANGED <<kept, final>>
        /\ current[1] = hand["run"].found
    BY <1>3, <1>5, <2>1, <2>2, <2>3 DEF ValidateNext
  <2>5. /\ p \in Proposals /\ b \in Seq(Parts) /\ Len(b) < Len(p) /\ current \in Revs
        /\ \A i \in DOMAIN b : b[i].touches = p[i].touches /\ b[i].rev[1] = hand["run"].found
        /\ BundleOK(b) /\ hand["run"].next = 1
    BY <1>0, <1>2, <1>3 DEF HandOK, HandRows, SkillInv, SkillType
  <2>6. DOMAIN p = 1 .. Len(p) /\ Len(p) \in Nat /\ \A i \in DOMAIN p : p[i].confirm \in BOOLEAN
    BY <2>5, WorkflowAssumption
  <2>7. Len(b) \in Nat /\ DOMAIN b = 1 .. Len(b) BY <2>5
  <2>8. j \in DOMAIN p /\ j \in Nat /\ j <= Len(p) /\ j = Len(b) + 1 BY <1>3, <2>5, <2>6, <2>7
  <2>9. r \in Parts
    <3>1. p[j].touches \in TouchSets BY <2>5, <2>8 DEF TouchSets
    <3>2. Predecessors(p, j) \in SUBSET Nat BY <2>8 DEF Predecessors
    <3>3. p[j].confirm \in BOOLEAN BY <2>6, <2>8
    <3> QED BY <2>1, <2>5, <3>1, <3>2, <3>3 DEF Parts
  <2>10. PICK c : c = Append(b, r) OBVIOUS
  <2>11. /\ c \in Seq(Parts) /\ Len(c) = j /\ DOMAIN c = 1 .. j /\ c[j] = r
         /\ \A i \in DOMAIN b : c[i] = b[i]
    BY <2>5, <2>7, <2>8, <2>9, <2>10
  <2>12. h \in HandRows /\ h.bundle = c /\ h.at = a /\ h.next = 1 /\ h.proposal = p
         /\ h.found = hand["run"].found
    BY <1>0, <1>3, <2>3, <2>5, <2>10, <2>11 DEF HandRows
  <2>13. \A i \in 1 .. j : c[i].touches = p[i].touches /\ c[i].rev[1] = hand["run"].found
    <3>1. ASSUME NEW i \in 1 .. j PROVE c[i].touches = p[i].touches /\ c[i].rev[1] = hand["run"].found
      <4>1. CASE i = j
        <5>1. r.touches = p[j].touches /\ r.rev = current BY <2>1
        <5> QED BY <4>1, <5>1, <2>4, <2>11
      <4>2. CASE i # j
        <5>1. i \in DOMAIN b BY <2>7, <2>8, <4>2
        <5> QED BY <5>1, <2>5, <2>11
      <4> QED BY <4>1, <4>2
    <3> QED BY <3>1
  <2>14. Chained(c)
    <3>1. ASSUME NEW i \in 1 .. j PROVE c[i].after = Predecessors(c, i)
      <4>1. i \in Nat /\ \A k \in 1 .. i : k \in 1 .. j BY <2>8
      <4>2. CASE i = j
        <5>1. Predecessors(c, j) = Predecessors(p, j) BY <2>8, <2>13, SamePredecessors
        <5>2. r.after = Predecessors(p, j) BY <2>1
        <5> QED BY <4>2, <5>1, <5>2, <2>11
      <4>3. CASE i # j
        <5>1. i \in DOMAIN b /\ \A k \in 1 .. i : k \in DOMAIN b BY <2>7, <2>8, <4>3
        <5>2. \A k \in 1 .. i : c[k].touches = b[k].touches BY <5>1, <2>11
        <5>3. Predecessors(c, i) = Predecessors(b, i) BY <4>1, <5>2, SamePredecessors
        <5>4. b[i].after = Predecessors(b, i) BY <5>1, <2>5 DEF BundleOK, Chained
        <5> QED BY <5>1, <5>3, <5>4, <2>11
      <4> QED BY <4>2, <4>3
    <3> QED BY <3>1, <2>11 DEF Chained
  <2>15. BundleOK(c) BY <2>11, <2>13, <2>14 DEF BundleOK
  <2>16. a = "proposed" => j < Len(p)
    <3>1. j = Len(p) => a = "validated" BY <2>2
    <3>2. PICK n \in Nat : n = Len(p) BY <2>6
    <3>3. j # n => j < n BY <2>8, <3>2
    <3> QED BY <3>1, <3>2, <3>3
  <2>17. \A i \in DOMAIN c : ~(i < h.next) BY <2>11, <2>12, <2>8
  <2>18. HandOK(h)
    <3>1. h.at = "proposed" => /\ h.proposal \in Proposals /\ Len(h.bundle) < Len(h.proposal)
                               /\ \A i \in DOMAIN h.bundle : /\ h.bundle[i].touches = h.proposal[i].touches
                                                             /\ h.bundle[i].rev[1] = h.found
      BY <2>5, <2>11, <2>12, <2>13, <2>16
    <3>2. h.at \notin {"idle", "found", "ready"} BY <2>12
    <3> QED BY <2>12, <2>15, <2>17, <3>1, <3>2 DEF HandOK
  <2>19. h.at \notin {"sending", "ended"} BY <2>12
  <2> QED BY <1>1, <1>2, <2>4, <2>12, <2>18, <2>19, RunGoesOn
<1> QED BY <1>4, <1>5

LEMMA BeginKeeps ==
    ASSUME SkillInv, hand["run"].at = "validated", NEW approved \in BOOLEAN, BeginExecution(approved),
           UNCHANGED <<current, carried, sent, declined, dropped>>
    PROVE  SkillInv'
<1>0. hand["run"] \in HandRows /\ HandOK(hand["run"]) /\ "run" \in Hands
  BY DEF SkillInv, SkillType, Hands
<1>1. CASE Ends("run", "blocked")
  <2>1. PICK status \in Statuses : status = "blocked" BY DEF Statuses
  <2> QED BY <1>0, <1>1, <2>1, EndsKeeps
<1>2. CASE ~Ends("run", "blocked")
  <2>1. PICK h : h = [hand["run"] EXCEPT !.at = "grants", !.approved = approved] OBVIOUS
  <2>2. h \in HandRows /\ h.at = "grants" /\ h.bundle = hand["run"].bundle /\ h.next = hand["run"].next
    BY <1>0, <2>1 DEF HandRows
  <2>3. hand["run"].next = 1 /\ h.bundle \in Seq(Parts) BY <1>0, <2>2 DEF HandOK, HandRows
  <2>4. \A i \in DOMAIN h.bundle : ~(i < h.next) BY <2>2, <2>3
  <2>5. HandOK(h) BY <1>0, <2>2, <2>4 DEF HandOK
  <2>6. hand' = [hand EXCEPT !["run"] = h] /\ UNCHANGED <<kept, final>> BY <1>2, <2>1 DEF BeginExecution
  <2> QED BY <2>2, <2>5, <2>6, RunGoesOn
<1> QED BY <1>1, <1>2

LEMMA AskKeeps == ASSUME SkillInv, ProceedUnasked \/ Ask PROVE SkillInv'
<1>1. UNCHANGED <<current, carried, sent, dropped>> /\ hand["run"].at = "validated" /\ declined \in BOOLEAN
  BY DEF ProceedUnasked, Ask, Quiet, SkillInv, SkillType
<1>2. CASE ProceedUnasked BY <1>1, <1>2, BeginKeeps DEF ProceedUnasked
<1>3. CASE Ask
  <2>1. CASE Store("run", "awaiting_approval") /\ UNCHANGED declined BY <1>1, <2>1, StoreKeeps
  <2>2. CASE Store("run", "cancelled") /\ declined' = TRUE BY <1>1, <2>2, StoreKeeps
  <2>3. CASE Store("run", "blocked") /\ UNCHANGED declined BY <1>1, <2>3, StoreKeeps
  <2>4. CASE BeginExecution(TRUE) /\ UNCHANGED declined BY <1>1, <2>4, BeginKeeps
  <2> QED BY <1>3, <2>1, <2>2, <2>3, <2>4 DEF Ask
<1> QED BY <1>2, <1>3

LEMMA ResumeKeeps == ASSUME SkillInv, NEW x \in Hands, ResumeInVain(x) \/ ResumeDecides(x) PROVE SkillInv'
<1>1. x \in Resumes /\ Calling(x) BY DEF ResumeInVain, ResumeDecides, Calling
<1>2. UNCHANGED <<current, carried, sent, dropped>> /\ declined \in BOOLEAN
  BY DEF ResumeInVain, ResumeDecides, Quiet, SkillInv, SkillType
<1>3. hand' = [hand EXCEPT ![x] = Ended] /\ final' = final BY DEF ResumeInVain, ResumeDecides, Refuse
<1>4. CASE UNCHANGED declined
  <2>1. kept' = kept \/ kept' = [kept EXCEPT !.status = "blocked"] \/ kept' = [kept EXCEPT !.status = "cancelled"]
    BY DEF ResumeInVain, ResumeDecides, Refuse
  <2>2. PICK status \in {"blocked", "cancelled"} : kept' = kept \/ kept' = [kept EXCEPT !.status = status]
    BY <2>1
  <2> QED BY <1>1, <1>2, <1>3, <1>4, <2>2, RefuseKeeps
<1>5. CASE ~(UNCHANGED declined)
  <2>1. /\ ResumeDecides(x) /\ Refuse(x, "cancelled") /\ declined' = (declined \/ Executing = {})
    BY <1>5 DEF ResumeInVain, ResumeDecides
  <2>2. final = "none" /\ kept.status = "awaiting_approval" BY <2>1 DEF ResumeDecides
  <2>3. PICK status \in {"blocked", "cancelled"} : status = "cancelled" OBVIOUS
  <2>4. kept' = [kept EXCEPT !.status = status] BY <2>1, <2>3 DEF Refuse
  <2>5. kept' # kept
    <3>1. kept'.status = status BY <2>4 DEF SkillInv, SkillType, KeptRows
    <3> QED BY <2>2, <3>1
  <2>6. declined' \in BOOLEAN BY <2>1
  <2>7. declined' => declined \/ \A y \in Hands : ~Busy(y) BY <2>1 DEF Executing, Busy
  <2>10. \A s \in sent : s.by \in Hands BY DEF SkillInv, SkillType, SentRows
  <2>8. (\A y \in Hands : ~Busy(y)) => AllDropped BY <2>2, <2>10 DEF SkillInv, SentTells, AllDropped
  <2>9. declined' => declined \/ (kept' # kept /\ AllDropped /\ \A y \in Hands : ~Busy(y))
    BY <2>5, <2>7, <2>8
  <2> QED BY <1>1, <1>2, <1>3, <2>4, <2>6, <2>9, RefuseKeeps
<1> QED BY <1>4, <1>5

LEMMA ResumeExecutesKeeps == ASSUME SkillInv, NEW x \in Hands, ResumeExecutes(x) PROVE SkillInv'
<1>0. "run" \in Hands /\ Resumes \subseteq Hands /\ "run" \notin Resumes
  BY WorkflowAssumption DEF Hands
<1>1. x \in Resumes /\ Calling(x) BY DEF ResumeExecutes, Calling
<1>2. UNCHANGED <<current, carried, sent, declined, dropped>> /\ declined \in BOOLEAN
  BY DEF ResumeExecutes, Quiet, SkillInv, SkillType
<1>3. final = "none" /\ kept.status = "awaiting_approval" BY DEF ResumeExecutes
<1>4. CASE Refuse(x, "blocked") BY <1>1, <1>2, <1>4, RefuseKeeps DEF Refuse
<1>5. CASE ~Refuse(x, "blocked")
  <2>1. PICK r \in Revs, b \in Seq(Parts), t \in BOOLEAN : r = kept.rev /\ b = kept.bundle /\ t = TRUE
    BY DEF SkillInv, SkillType, KeptRows
  <2>2. PICK h : h = [hand[x] EXCEPT !.at = "grants", !.rev = r, !.bundle = b, !.approved = t] OBVIOUS
  <2>3. hand[x] \in HandRows /\ HandOK(hand[x]) /\ hand[x].at = "idle"
    BY <1>1 DEF SkillInv, SkillType, Calling
  <2>4. h \in HandRows /\ h.at = "grants" /\ h.bundle = b /\ h.next = hand[x].next
    BY <2>2, <2>3 DEF HandRows
  <2>5. h.next = 1 /\ BundleOK(b) BY <2>1, <2>3, <2>4 DEF HandOK, SkillInv
  <2>6. \A i \in DOMAIN b : ~(i < h.next) BY <2>5
  <2>7. HandOK(h) BY <2>4, <2>5, <2>6 DEF HandOK
  <2>8. hand' = [hand EXCEPT ![x] = h] /\ UNCHANGED <<kept, final>>
    BY <1>5, <2>1, <2>2 DEF ResumeExecutes
  <2>9. /\ hand' \in [Hands -> HandRows]
        /\ \A y \in Hands : hand'[y] = IF y = x THEN h ELSE hand[y]
        /\ \A y \in Hands : HandOK(hand'[y])
    BY <2>4, <2>7, <2>8, HandsMove
  <2>10. SkillType' BY <1>2, <2>8, <2>9 DEF SkillInv, SkillType
  <2>11. hand'["run"] = hand["run"] /\ hand["run"].at = "ended" BY <1>0, <1>1, <2>9 DEF Calling
  <2>12. RunFirst' BY <1>0, <2>4, <2>9, <2>11 DEF SkillInv, RunFirst
  <2>13. SentTells'
    <3>1. SentTells BY DEF SkillInv
    <3>2. \A s \in sent : s.by \in Hands BY DEF SkillInv, SkillType, SentRows
    <3> QED BY <1>2, <2>4, <2>8, <2>9, <3>1, <3>2 DEF SentTells, Busy
  <2>14. ~declined BY <1>3 DEF SkillInv, DeclinedTells
  <2>15. DeclinedTells' BY <1>2, <2>14 DEF DeclinedTells
  <2>16. FinalTells' BY <1>3, <2>8 DEF FinalTells
  <2>17. (\A s \in sent' : SentOK(s)) /\ BundleOK(kept'.bundle) BY <1>2, <2>8 DEF SkillInv
  <2> QED BY <2>9, <2>10, <2>12, <2>13, <2>15, <2>16, <2>17 DEF SkillInv
<1> QED BY <1>4, <1>5

\* What a call that executes does to itself leaves the rest as it was.
LEMMA BusyGoesOn ==
    ASSUME SkillInv, NEW x \in Hands, Busy(x), NEW h \in HandRows, HandOK(h),
           h.at \in {"grants", "sending"}, hand' = [hand EXCEPT ![x] = h],
           UNCHANGED <<current, kept, final, declined, dropped>>,
           carried' \in [as : Outcomes \cup {"no", "committing"}, by : Hands],
           carried.as \in Outcomes => carried' = carried,
           sent' \subseteq SentRows, \A s \in sent' : SentOK(s),
           sent' = sent \/ h.at = "sending",
           \A s \in sent' : s \in sent \/ s.by = x
    PROVE  SkillInv'
<1>0. "run" \in Hands /\ Resumes \subseteq Hands /\ "run" \notin Resumes
  BY WorkflowAssumption DEF Hands
<1>1. /\ hand' \in [Hands -> HandRows]
      /\ \A y \in Hands : hand'[y] = IF y = x THEN h ELSE hand[y]
      /\ \A y \in Hands : HandOK(hand'[y])
  BY HandsMove
<1>2. SkillType' BY <1>1 DEF SkillInv, SkillType
<1>3. RunFirst BY DEF SkillInv
<1>4. RunFirst'
  <2>1. CASE x = "run" BY <1>0, <1>1, <1>3, <2>1 DEF RunFirst, Busy
  <2>2. CASE x # "run"
    <3>1. x \in Resumes BY <2>2 DEF Hands
    <3>2. hand["run"].at = "ended" BY <1>3, <3>1 DEF RunFirst, Busy
    <3> QED BY <1>0, <1>1, <1>3, <2>2, <3>2 DEF RunFirst
  <2> QED BY <2>1, <2>2
<1>5. SentTells'
  <2>1. SentTells BY DEF SkillInv
  <2>2. \A s \in sent' : s.by \in Hands BY <1>2 DEF SkillType, SentRows
  <2> QED BY <1>1, <2>1, <2>2 DEF SentTells, Busy
<1>6. ~declined /\ final # "no_action_required"
  BY DEF SkillInv, DeclinedTells, FinalTells, NothingToCome
<1>7. DeclinedTells' BY <1>6 DEF DeclinedTells
<1>8. FinalTells'
  <2>1. FinalTells BY DEF SkillInv
  <2>2. {"completed", "scheduled", "mixed"} \subseteq Outcomes BY DEF Outcomes
  <2> QED BY <1>6, <2>1, <2>2 DEF FinalTells
<1>9. BundleOK(kept'.bundle) BY DEF SkillInv
<1> QED BY <1>1, <1>2, <1>4, <1>5, <1>7, <1>8, <1>9 DEF SkillInv

LEMMA NextMemberKeeps == ASSUME SkillInv, NEW x \in Hands, NextMember(x) PROVE SkillInv'
<1>1. Busy(x) /\ hand[x].at = "grants" /\ hand[x] \in HandRows /\ HandOK(hand[x])
  BY DEF NextMember, Busy, SkillInv, SkillType
<1>2. UNCHANGED <<current, carried, sent, declined, dropped>> BY DEF NextMember, Quiet
<1>3. CASE Ends(x, "blocked") \/ Ends(x, "failed")
  <2>1. PICK status \in Statuses : status \in {"blocked", "failed"} /\ Ends(x, status)
    BY <1>3 DEF Statuses, Outcomes
  <2> QED BY <1>1, <1>2, <2>1, EndsKeeps
<1>4. CASE ~(Ends(x, "blocked") \/ Ends(x, "failed"))
  <2>1. PICK n \in Nat, m \in Nat : n = hand[x].next /\ m = n + 1 BY <1>1 DEF HandRows
  <2>2. PICK h : h = [hand[x] EXCEPT !.next = m] OBVIOUS
  <2>3. /\ h \in HandRows /\ h.at = "grants" /\ h.bundle = hand[x].bundle /\ h.next = n + 1
        /\ h.approved = hand[x].approved
    BY <1>1, <2>1, <2>2 DEF HandRows
  <2>4. /\ hand' = [hand EXCEPT ![x] = h] /\ UNCHANGED <<kept, final>>
        /\ hand[x].bundle[n].confirm => hand[x].approved
    BY <1>4, <2>1, <2>2 DEF NextMember
  <2>5. \A i \in DOMAIN h.bundle : i < h.next /\ h.bundle[i].confirm => h.approved
    <3>1. ASSUME NEW i \in DOMAIN h.bundle, i < h.next, h.bundle[i].confirm PROVE h.approved
      <4>1. i \in Nat BY <2>3 DEF HandRows
      <4>2. CASE i = n BY <2>3, <2>4, <3>1, <4>2
      <4>3. CASE i # n
        <5>1. i < n BY <2>3, <3>1, <4>1, <4>3
        <5> QED BY <1>1, <2>1, <2>3, <3>1, <5>1 DEF HandOK
      <4> QED BY <4>2, <4>3
    <3> QED BY <3>1
  <2>6. HandOK(h) BY <1>1, <2>3, <2>5 DEF HandOK
  <2>7. /\ sent' \subseteq SentRows /\ \A s \in sent' : SentOK(s)
        /\ carried' \in [as : Outcomes \cup {"no", "committing"}, by : Hands]
    BY <1>2 DEF SkillInv, SkillType
  <2>8. h.at \in {"grants", "sending"} BY <2>3
  <2>9. \A s \in sent' : s \in sent BY <1>2
  <2> QED BY <1>1, <1>2, <2>3, <2>4, <2>6, <2>7, <2>8, <2>9, BusyGoesOn
<1> QED BY <1>3, <1>4

LEMMA SendKeeps == ASSUME SkillInv, NEW x \in Hands, Send(x) PROVE SkillInv'
<1>1. Busy(x) /\ hand[x].at = "grants" /\ hand[x] \in HandRows /\ HandOK(hand[x])
  BY DEF Send, Busy, SkillInv, SkillType
<1>2. UNCHANGED <<current, kept, final, declined, dropped>> BY DEF Send
<1>3. PICK h : h = [hand[x] EXCEPT !.at = "sending"] OBVIOUS
<1>4. /\ h \in HandRows /\ h.at = "sending" /\ h.bundle = hand[x].bundle /\ h.next = hand[x].next
      /\ h.approved = hand[x].approved
  BY <1>1, <1>3 DEF HandRows
<1>5. HandOK(h) BY <1>1, <1>4 DEF HandOK
<1>6. hand' = [hand EXCEPT ![x] = h] BY <1>3 DEF Send
<1>7. PICK r : r = [by |-> x, bundle |-> hand[x].bundle, approved |-> hand[x].approved] OBVIOUS
<1>8. r \in SentRows /\ r.bundle = hand[x].bundle /\ r.approved = hand[x].approved
  BY <1>1, <1>7 DEF HandRows, SentRows
<1>9. sent' = sent \cup {r} BY <1>7 DEF Send
<1>10. SentOK(r)
  <2>1. hand[x].bundle \in Seq(Parts) /\ hand[x].next \in Nat /\ hand[x].next > Len(hand[x].bundle)
    BY <1>1 DEF HandRows, Send
  <2>2. \A i \in DOMAIN hand[x].bundle : i < hand[x].next BY <2>1
  <2>3. Confirms(hand[x].bundle) => hand[x].approved BY <1>1, <2>2 DEF Confirms, HandOK
  <2> QED BY <1>1, <1>8, <2>3 DEF SentOK, HandOK
<1>11. sent' \subseteq SentRows /\ \A s \in sent' : SentOK(s)
  BY <1>8, <1>9, <1>10 DEF SkillInv, SkillType
<1>14. \A s \in sent' : s \in sent \/ s.by = x BY <1>7, <1>9
<1>12. /\ carried' \in [as : Outcomes \cup {"no", "committing"}, by : Hands]
       /\ carried.as \in Outcomes => carried' = carried
  <2>1. "no" \notin Outcomes BY DEF Outcomes
  <2> QED BY <2>1 DEF Send, SkillInv, SkillType
<1>13. h.at \in {"grants", "sending"} BY <1>4
<1> QED BY <1>1, <1>2, <1>4, <1>5, <1>6, <1>11, <1>12, <1>13, <1>14, BusyGoesOn

LEMMA AnswerKeeps == ASSUME SkillInv, NEW x \in Hands, Answer(x) PROVE SkillInv'
<1>1. Busy(x) BY DEF Answer, Busy
<1>2. UNCHANGED <<current, carried, sent, declined, dropped>> BY DEF Answer, Quiet
<1>3. CASE Ends(x, "failed")
  <2>1. PICK status \in Statuses : status = "failed" /\ Ends(x, status)
    BY <1>3 DEF Statuses, Outcomes
  <2> QED BY <1>1, <1>2, <2>1, EndsKeeps
<1>4. CASE Ends(x, StatusOf(x))
  <2>1. PICK status : status = StatusOf(x) OBVIOUS
  <2>2. /\ status \in Statuses /\ status \notin {"none", "no_action_required"}
        /\ status = "completed" => carried.as = "completed"
        /\ status = "scheduled" => carried.as \in {"scheduled", "mixed"}
    BY <2>1 DEF StatusOf, Statuses, Outcomes
  <2>3. Ends(x, status) BY <1>4, <2>1
  <2> QED BY <1>1, <1>2, <2>2, <2>3, EndsKeeps
<1> QED BY <1>3, <1>4 DEF Answer

\* A cancelled call leaves what it sent, and nothing else.
LEMMA CancelledKeeps == ASSUME SkillInv, NEW x \in Hands, Cancelled(x) PROVE SkillInv'
<1>0. "run" \in Hands /\ Resumes \subseteq Hands /\ "run" \notin Resumes /\ \A y \in Hands : y = "run" \/ y \in Resumes
  BY WorkflowAssumption DEF Hands
<1>1. /\ UNCHANGED <<current, kept, final, carried, sent, declined>> /\ dropped' = dropped \cup {x}
      /\ hand' = [hand EXCEPT ![x] = Ended]
  BY DEF Cancelled
<1>2. /\ hand' \in [Hands -> HandRows]
      /\ \A y \in Hands : hand'[y] = IF y = x THEN Ended ELSE hand[y]
      /\ \A y \in Hands : HandOK(hand'[y])
  BY <1>1, RestingIs, HandsMove
<1>3. SkillType' BY <1>1, <1>2 DEF SkillInv, SkillType
<1>4. RunFirst BY DEF SkillInv
<1>5. x = "run" \/ hand["run"].at = "ended"
  BY <1>0, <1>4 DEF RunFirst, Cancelled, Awaiting
<1>6. hand'["run"].at = "ended" BY <1>0, <1>2, <1>5, RestingIs
<1>7. RunFirst' BY <1>0, <1>2, <1>4, <1>6, RestingIs DEF RunFirst
<1>8. AllDropped => AllDropped' BY <1>1 DEF AllDropped
<1>9. NothingToCome => NothingToCome' BY <1>2, <1>6, RestingIs DEF NothingToCome, Busy
<1>10. DeclinedTells' BY <1>1, <1>8, <1>9 DEF SkillInv, DeclinedTells
<1>11. FinalTells' BY <1>1, <1>9 DEF SkillInv, FinalTells
<1>12. SentTells'
  <2>1. SentTells BY DEF SkillInv
  <2>2. \A s \in sent : s.by \in Hands BY DEF SkillInv, SkillType, SentRows
  <2> QED BY <1>1, <1>2, <2>1, <2>2 DEF SentTells, Busy
<1>13. (\A s \in sent' : SentOK(s)) /\ BundleOK(kept'.bundle) BY <1>1 DEF SkillInv
<1> QED BY <1>2, <1>3, <1>7, <1>10, <1>11, <1>12, <1>13 DEF SkillInv

\* Steps outside the calls.
LEMMA AroundKeeps ==
    ASSUME SkillInv, UNCHANGED <<hand, kept, final, sent, declined, dropped>>, current' \in Revs,
           carried' \in [as : Outcomes \cup {"no", "committing"}, by : Hands],
           carried.as \in Outcomes => carried' = carried
    PROVE  SkillInv'
<1>1. SkillType' BY DEF SkillInv, SkillType
<1>2. \A x \in Hands : HandOK(hand'[x]) BY DEF SkillInv
<1>3. BundleOK(kept'.bundle) /\ \A s \in sent' : SentOK(s) BY DEF SkillInv
<1>4. RunFirst' BY DEF SkillInv, RunFirst
<1>5. SentTells' BY DEF SkillInv, SentTells, Busy
<1>6. (NothingToCome => NothingToCome') /\ (AllDropped => AllDropped') BY DEF NothingToCome, Busy, AllDropped
<1>7. DeclinedTells' BY <1>6 DEF SkillInv, DeclinedTells
<1>8. FinalTells'
  <2>1. FinalTells BY DEF SkillInv
  <2>2. {"completed", "scheduled", "mixed"} \subseteq Outcomes BY DEF Outcomes
  <2> QED BY <1>6, <2>1, <2>2 DEF FinalTells
<1> QED BY <1>1, <1>2, <1>3, <1>4, <1>5, <1>7, <1>8 DEF SkillInv

LEMMA SettleKeeps == ASSUME SkillInv, Settle PROVE SkillInv'
<1>1. current' \in Revs /\ UNCHANGED <<hand, kept, final, sent, declined, dropped>>
  BY DEF Settle, SkillInv, SkillType
<1>2. carried' \in [as : Outcomes \cup {"no", "committing"}, by : Hands]
  BY DEF Settle, SkillInv, SkillType
<1>3. carried.as \notin Outcomes BY DEF Settle, Outcomes
<1> QED BY <1>1, <1>2, <1>3, AroundKeeps

LEMMA ShiftKeeps == ASSUME SkillInv, Shift PROVE SkillInv'
<1>1. UNCHANGED <<hand, kept, final, carried, sent, declined, dropped>> BY DEF Shift
<1>2. PICK i \in {1, 2} : current' = [current EXCEPT ![i] = @ + 1] BY DEF Shift
<1>3. current \in [1 .. 2 -> Nat] /\ i \in 1 .. 2 BY DEF SkillInv, SkillType, Revs
<1>4. current' \in Revs BY <1>2, <1>3 DEF Revs
<1>5. carried' \in [as : Outcomes \cup {"no", "committing"}, by : Hands]
  BY <1>1 DEF SkillInv, SkillType
<1> QED BY <1>1, <1>4, <1>5, AroundKeeps

LEMMA WorkerRestartsKeeps == ASSUME SkillInv, WorkerRestarts PROVE SkillInv'
<1>0. "run" \in Hands /\ Resumes \subseteq Hands BY DEF Hands
<1>1. /\ UNCHANGED <<current, carried, sent, declined, dropped>> /\ kept' = NoResult /\ final' = "none"
      /\ hand["run"].at = "ended"
      /\ hand' = [x \in Hands |-> IF hand[x].at = "idle" THEN hand[x] ELSE Ended]
  BY DEF WorkerRestarts
<1>2. hand \in [Hands -> HandRows] /\ \A x \in Hands : HandOK(hand[x]) BY DEF SkillInv, SkillType
<1>3. \A x \in Hands : hand'[x] = IF hand[x].at = "idle" THEN hand[x] ELSE Ended BY <1>1
<1>4. hand' \in [Hands -> HandRows] BY <1>1, <1>2, RestingIs
<1>5. \A x \in Hands : HandOK(hand'[x]) BY <1>2, <1>3, RestingIs
<1>6. \A x \in Hands : hand'[x].at \in {"idle", "ended"} BY <1>3, RestingIs
<1>7. hand'["run"].at = "ended" BY <1>0, <1>1, <1>3, RestingIs
<1>8. final' \in Statuses BY <1>1 DEF Statuses
<1>9. SkillType' BY <1>1, <1>4, <1>8, NoResultIs DEF SkillInv, SkillType
<1>10. RunFirst' BY <1>0, <1>6, <1>7 DEF RunFirst
<1>11. SentTells' BY <1>1, NoResultIs DEF SentTells
<1>12. (NothingToCome => NothingToCome') /\ (AllDropped => AllDropped')
  BY <1>1, <1>6, <1>7 DEF NothingToCome, Busy, AllDropped
<1>13. DeclinedTells' BY <1>1, <1>12, NoResultIs DEF SkillInv, DeclinedTells
<1>14. FinalTells' BY <1>1 DEF FinalTells
<1>15. BundleOK(kept'.bundle) /\ \A s \in sent' : SentOK(s) BY <1>1, NoResultIs DEF SkillInv
<1> QED BY <1>5, <1>9, <1>10, <1>11, <1>13, <1>14, <1>15 DEF SkillInv

LEMMA SkillStays == SkillInv /\ [WorkflowNext]_workflowVars => SkillInv'
<1> SUFFICES ASSUME SkillInv, [WorkflowNext]_workflowVars PROVE SkillInv' OBVIOUS
<1>1. CASE RunFails BY <1>1, RunFailsKeeps
<1>2. CASE Discover \/ ReadContext \/ Optimize BY <1>2, ContextKeeps
<1>3. CASE ValidateNext BY <1>3, ValidateNextKeeps
<1>4. CASE ProceedUnasked \/ Ask BY <1>4, AskKeeps
<1>5. ASSUME NEW x \in Hands, ResumeInVain(x) \/ ResumeDecides(x) PROVE SkillInv'
  BY <1>5, ResumeKeeps
<1>6. ASSUME NEW x \in Hands, ResumeExecutes(x) PROVE SkillInv' BY <1>6, ResumeExecutesKeeps
<1>7. ASSUME NEW x \in Hands, NextMember(x) PROVE SkillInv' BY <1>7, NextMemberKeeps
<1>8. ASSUME NEW x \in Hands, Send(x) PROVE SkillInv' BY <1>8, SendKeeps
<1>9. ASSUME NEW x \in Hands, Answer(x) PROVE SkillInv' BY <1>9, AnswerKeeps
<1>14. ASSUME NEW x \in Hands, Cancelled(x) PROVE SkillInv' BY <1>14, CancelledKeeps
<1>10. CASE Settle BY <1>10, SettleKeeps
<1>11. CASE Shift BY <1>11, ShiftKeeps
<1>12. CASE WorkerRestarts BY <1>12, WorkerRestartsKeeps
<1>13. CASE UNCHANGED workflowVars
  <2>1. UNCHANGED <<hand, kept, final, sent, declined, dropped>> /\ current' = current /\ carried' = carried
    BY <1>13 DEF workflowVars
  <2>2. current' \in Revs /\ carried' \in [as : Outcomes \cup {"no", "committing"}, by : Hands]
    BY <2>1 DEF SkillInv, SkillType
  <2> QED BY <2>1, <2>2, AroundKeeps
<1> QED
  BY <1>1, <1>2, <1>3, <1>4, <1>5, <1>6, <1>7, <1>8, <1>9, <1>10, <1>11, <1>12, <1>13,
     <1>14 DEF WorkflowNext

\* The invariant is what the properties ask for.
LEMMA SkillTells == SkillInv => WorkflowIsFaithful
<1> SUFFICES ASSUME SkillInv PROVE WorkflowIsFaithful OBVIOUS
<1>1. \A s \in sent : s \in SentRows /\ SentOK(s) BY DEF SkillInv, SkillType
<1>2. TrajectoriesAreChained
  <2>1. ASSUME NEW s \in sent, NEW j \in DOMAIN s.bundle, NEW i \in 1 .. (j - 1),
               s.bundle[i].touches \cap s.bundle[j].touches # {}
        PROVE  i \in Awaits(s.bundle, j)
    <3>1. PICK b : b = s.bundle OBVIOUS
    <3>2. b \in Seq(Parts) /\ Chained(b) BY <1>1, <3>1 DEF SentRows, SentOK, BundleOK
    <3>3. PICK n \in Nat : n = Len(b) BY <3>2
    <3>4. DOMAIN b = 1 .. n /\ j \in 1 .. n BY <2>1, <3>1, <3>2, <3>3
    <3>5. b[i].touches \cap b[j].touches # {} BY <2>1, <3>1
    <3>6. i \in Awaits(b, j) BY <2>1, <3>2, <3>4, <3>5, ChainReaches
    <3> QED BY <3>1, <3>6
  <2> QED BY <2>1 DEF TrajectoriesAreChained
<1>3. RequestsAreSound BY <1>1 DEF RequestsAreSound, SentOK, BundleOK
<1>4. RefusalHolds BY DEF SkillInv, DeclinedTells, AllDropped, RefusalHolds
<1>5. ResultIsEarned BY DEF SkillInv, FinalTells, NothingToCome, ResultIsEarned
<1> QED BY <1>2, <1>3, <1>4, <1>5 DEF WorkflowIsFaithful

\* However run() and any number of overlapping resume() calls interleave, and whatever
\* answers are lost (skills/workflow.py), the bundle that goes out chains every two
\* plans that touch one device, was validated on one inventory and approved if a plan
\* asks for it; a refusal while nothing executes is final; and no success is reported
\* that the runtime did not have.
THEOREM SkillKeepsFaith == WorkflowSpec => []WorkflowIsFaithful
<1>1. WorkflowSpec => []SkillInv BY WorkflowInitially, SkillStays, PTL DEF WorkflowSpec
<1> QED BY <1>1, SkillTells, PTL
=============================================================================
