------------------------- MODULE ConnectionSecrets -------------------------
(***************************************************************************)
(* How a connection's credential reaches disk and database together:       *)
(* application/connection_manager.py over                                  *)
(* persistence/connection_repository.py and security/secrets.py.           *)
(*                                                                         *)
(* A credential value starts as a temporary entry in memory.  A TRANSFER   *)
(* moves it: a durable row ('pending') is written, the encrypted file is   *)
(* published, and one transaction marks the row 'adopted' and makes the    *)
(* profile name the file (an insert for a new connection, a compare and    *)
(* set of the old reference for a reauthentication).  When a step fails    *)
(* the manager reads the row back: an adopted one is a success whose       *)
(* answer was lost; any other is discarded ('discarding', unlink,          *)
(* 'discarded'); and when storage does not answer the transfer stays owned *)
(* in memory until a later list() or get() resolves it.                    *)
(*                                                                         *)
(* Every repository call may succeed, fail without effect, take effect and *)
(* lose its answer, or be abandoned by a cancelled caller.  Calls go       *)
(* through one FIFO (StorageBoundary), so the call of a caller that left   *)
(* takes effect before any call made later; it is modelled as taking       *)
(* effect when the caller leaves.  A crash forgets everything in memory.   *)
(***************************************************************************)
EXTENDS Naturals

CONSTANTS
    Transfers,      \* credential transfers; each has its own secret reference
    Connections,    \* connector/unique identities
    NewOnes,        \* the transfers of operation "create"; the rest are "reauth"
    Serves,         \* the identity a transfer is for
    Listers,        \* concurrent calls of list()
    NoTransfer,
    NoProfile,      \* no row in the connections table
    MaxFaults       \* bound: failed or cancelled calls, and crashes

ASSUME SecretsAssumption ==
    /\ Serves \in [Transfers -> Connections]
    /\ NewOnes \subseteq Transfers
    /\ NoTransfer \notin Transfers
    /\ Listers \cap Transfers = {}

VARIABLES
    transfer,   \* connection_secret_transfers: the state column, or "none"
    secret,     \* the published secret files
    profile,    \* connections: [id, ref, by], or NoProfile
    temporary,  \* FileSecretStore._temporary: "none", "open" or "closed"
    owned,      \* ConnectionManager._owned_transfers
    inflight,   \* ConnectionManager._inflight_transfers
    agent,      \* the callers: a writer per transfer, and the listers
    lent,       \* a borrower between its read and its write, or NoTransfer
    told,       \* what the writer's caller was told
    secretFaults

secretVars == <<transfer, secret, profile, temporary, owned, inflight, agent, lent,
                told, secretFaults>>

Agents == Transfers \cup Listers

Away == [at |-> "away", on |-> NoTransfer, todo |-> {}, seen |-> "none", was |-> NoProfile]

SecretsInit ==
    /\ transfer = [t \in Transfers |-> "none"]
    /\ secret = {}
    /\ profile = [c \in Connections |-> NoProfile]
    /\ temporary = [t \in Transfers |-> "none"]
    /\ owned = {}
    /\ inflight = {}
    /\ agent = [a \in Agents |-> Away]
    /\ lent = NoTransfer
    /\ told = [t \in Transfers |-> "nothing"]
    /\ secretFaults = 0

-----------------------------------------------------------------------------
(* What the callers share. *)

Walk(a, at) == agent' = [agent EXCEPT ![a] = [agent[a] EXCEPT !.at = at]]

\* A writer leaves: the operation locks and the in-flight mark are given up in
\* its finally blocks, and its caller hears `news`.  A lister just leaves.
Depart(a, news) ==
    /\ agent' = [agent EXCEPT ![a] = Away]
    /\ inflight' = inflight \ {a}
    /\ told' = IF a \in Transfers THEN [told EXCEPT ![a] = news] ELSE told

\* The "connection" operation lock: held by a reauthentication from its read of
\* the profile to its end, and by a borrower.
Locked(c) ==
    \/ \E t \in Transfers \ NewOnes : agent[t].at # "away" /\ Serves[t] = c
    \/ lent # NoTransfer /\ lent.conn = c

\* release_temporary, and the pop from the owned transfers.
Release(t) ==
    /\ temporary' = [temporary EXCEPT ![t] = "none"]
    /\ owned' = owned \ {t}

Fault == secretFaults < MaxFaults /\ secretFaults' = secretFaults + 1

\* The outcomes of a repository call with effect `change` on `state`: answered;
\* failed, with or without the effect; or its caller cancelled, likewise.
Answered(change) == change /\ UNCHANGED secretFaults
Failed(change, state) == Fault /\ (change \/ UNCHANGED state)
Abandoned(a, change, state) ==
    /\ Fault
    /\ Depart(a, "cancelled")
    /\ change \/ UNCHANGED state

-----------------------------------------------------------------------------
(* create() and reauth(), up to the call of _write_secret_transfer. *)

AdmitTransfer(t, was) ==
    /\ agent[t].at = "away"
    /\ told[t] = "nothing"
    /\ temporary' = [temporary EXCEPT ![t] = "open"]
    /\ owned' = owned \cup {t}
    /\ inflight' = inflight \cup {t}
    /\ agent' = [agent EXCEPT ![t] = [Away EXCEPT !.at = "prepare", !.on = t, !.was = was]]
    /\ UNCHANGED <<transfer, secret, profile, lent, told, secretFaults>>

\* The identity was free when get_by_unique_id looked; the table's UNIQUE
\* constraint decides again at the adoption.
Create(t) ==
    /\ t \in NewOnes
    /\ profile[Serves[t]] = NoProfile
    /\ AdmitTransfer(t, NoProfile)

Reauth(t) ==
    /\ t \notin NewOnes
    /\ profile[Serves[t]] # NoProfile
    /\ ~Locked(Serves[t])
    /\ AdmitTransfer(t, profile[Serves[t]])

\* cancel_setup closes the session's temporary entry, and any entry expires.
CloseTemporary(t) ==
    /\ temporary[t] = "open"
    /\ temporary' = [temporary EXCEPT ![t] = "closed"]
    /\ UNCHANGED <<transfer, secret, profile, owned, inflight, agent, lent, told, secretFaults>>

-----------------------------------------------------------------------------
(* _persist_secret_transfer. *)

PrepareTransfer(t) ==
    LET insert == transfer' = [transfer EXCEPT ![t] = "pending"] IN
    /\ agent[t].at = "prepare"
    /\ \/ Answered(insert) /\ Walk(t, "publish") /\ UNCHANGED <<inflight, told>>
       \/ Failed(insert, transfer) /\ Walk(t, "recheck") /\ UNCHANGED <<inflight, told>>
       \/ Abandoned(t, insert, transfer)
    /\ UNCHANGED <<secret, profile, temporary, owned, lent>>

\* The row is read back after a failed insert; nothing was published yet.
MayPublish(t) == transfer[t] = "pending"

RecheckPrepared(t) ==
    /\ agent[t].at = "recheck"
    /\ \/ /\ Fault
          /\ \E news \in {"unsettled", "cancelled"} : Depart(t, news)
          /\ UNCHANGED <<temporary, owned>>
       \/ /\ MayPublish(t)
          /\ Walk(t, "publish")
          /\ UNCHANGED <<temporary, owned, inflight, told, secretFaults>>
       \/ /\ ~MayPublish(t)
          /\ Release(t)
          /\ Depart(t, "refused")
          /\ UNCHANGED secretFaults
    /\ UNCHANGED <<transfer, secret, profile, lent>>

\* prepare_temporary once more, then the file.  A closed entry stops here; the
\* file system may fail with or without the file in place.
Publish(t) ==
    /\ agent[t].at = "publish"
    /\ \/ temporary[t] = "open" /\ secret' = secret \cup {t} /\ Walk(t, "adopt")
          /\ UNCHANGED secretFaults
       \/ temporary[t] # "open" /\ Walk(t, "resolve") /\ UNCHANGED <<secret, secretFaults>>
       \/ temporary[t] = "open" /\ Fault /\ Walk(t, "resolve")
          /\ secret' \in {secret, secret \cup {t}}
    /\ UNCHANGED <<transfer, profile, temporary, owned, inflight, lent, told>>

\* adopt_secret_transfer: one transaction.
Adoptable(t) ==
    /\ transfer[t] = "pending"
    /\ profile[Serves[t]] = agent[t].was

Adoption(t) ==
    /\ transfer' = [transfer EXCEPT ![t] = "adopted"]
    /\ profile' = [profile EXCEPT ![Serves[t]] =
           [id |-> IF t \in NewOnes THEN t ELSE profile[Serves[t]].id, ref |-> t, by |-> t]]

AdoptTransfer(t) ==
    /\ agent[t].at = "adopt"
    /\ \/ /\ Adoptable(t)
          /\ Adoption(t)
          /\ Release(t)
          /\ Depart(t, "stored")
          /\ UNCHANGED secretFaults
       \/ /\ ~Adoptable(t)
          /\ Walk(t, "resolve")
          /\ UNCHANGED <<transfer, profile, temporary, owned, inflight, told, secretFaults>>
       \/ /\ Failed(Adoptable(t) /\ Adoption(t), <<transfer, profile>>)
          /\ Walk(t, "resolve")
          /\ UNCHANGED <<temporary, owned, inflight, told>>
       \/ /\ Abandoned(t, Adoptable(t) /\ Adoption(t), <<transfer, profile>>)
          /\ UNCHANGED <<temporary, owned>>
    /\ UNCHANGED <<secret, lent>>

\* _read_adoption finds the profile naming this transfer, and its file.
Confirmed(t) ==
    /\ transfer[t] = "adopted"
    /\ profile[Serves[t]] # NoProfile
    /\ profile[Serves[t]].by = t
    /\ profile[Serves[t]].ref = t
    /\ t \in secret

Resolve(t) ==
    /\ agent[t].at = "resolve"
    /\ \/ /\ Fault
          /\ \E news \in {"unsettled", "cancelled"} : Depart(t, news)
          /\ UNCHANGED <<temporary, owned>>
       \/ /\ Confirmed(t)
          /\ Release(t)
          /\ Depart(t, "stored")
          /\ UNCHANGED secretFaults
       \/ /\ transfer[t] = "adopted" /\ ~Confirmed(t)
          /\ Depart(t, "unsettled")
          /\ UNCHANGED <<temporary, owned, secretFaults>>
       \/ /\ transfer[t] # "adopted"
          /\ Walk(t, "begin")
          /\ UNCHANGED <<temporary, owned, inflight, told, secretFaults>>
    /\ UNCHANGED <<transfer, secret, profile, lent>>

-----------------------------------------------------------------------------
(* _discard_owned_transfer, run by a writer or by a lister. *)

InUse(t) == \E c \in Connections : profile[c] # NoProfile /\ profile[c].ref = t

\* Mutant: ownership in memory is trusted, not the row.
DiscardableOwned(t) == t \in owned

\* begin_secret_discard.
Discardable(t) == transfer[t] \in {"pending", "discarding"} /\ ~InUse(t)

BeginDiscard(a) ==
    LET t == agent[a].on
        mark == Discardable(t) /\ transfer' = [transfer EXCEPT ![t] = "discarding"] IN
    /\ agent[a].at = "begin"
    /\ \/ /\ Answered(mark)
          /\ Walk(a, "unlink")
          /\ UNCHANGED <<temporary, owned, inflight, told>>
       \/ /\ transfer[t] = "discarded"
          /\ Release(t)
          /\ Depart(a, "refused")
          /\ UNCHANGED <<transfer, secretFaults>>
       \/ /\ transfer[t] # "discarded" /\ ~Discardable(t)
          /\ Depart(a, "unsettled")
          /\ UNCHANGED <<transfer, temporary, owned, secretFaults>>
       \/ /\ Failed(mark, transfer)
          /\ Depart(a, "unsettled")
          /\ UNCHANGED <<temporary, owned>>
       \/ Abandoned(a, mark, transfer) /\ UNCHANGED <<temporary, owned>>
    /\ UNCHANGED <<secret, profile, lent>>

Unlink(a) ==
    /\ agent[a].at = "unlink"
    /\ \/ secret' = secret \ {agent[a].on} /\ Walk(a, "finish")
          /\ UNCHANGED <<inflight, told, secretFaults>>
       \/ Fault /\ secret' \in {secret, secret \ {agent[a].on}} /\ Depart(a, "unsettled")
    /\ UNCHANGED <<transfer, profile, temporary, owned, lent>>

\* finish_secret_discard.
FinishDiscard(a) ==
    LET t == agent[a].on
        finish == /\ transfer[t] \in {"discarding", "discarded"}
                  /\ ~InUse(t)
                  /\ transfer' = [transfer EXCEPT ![t] = "discarded"] IN
    /\ agent[a].at = "finish"
    /\ \/ /\ Answered(finish)
          /\ Release(t)
          /\ Depart(a, "refused")
       \/ Failed(finish, transfer) /\ Depart(a, "unsettled") /\ UNCHANGED <<temporary, owned>>
       \/ Abandoned(a, finish, transfer) /\ UNCHANGED <<temporary, owned>>
    /\ UNCHANGED <<secret, profile, lent>>

-----------------------------------------------------------------------------
(* list(), get() and the other operations on profiles. *)

\* list() works on a copy of the owned transfers, and reads each of them.
BeginList(l) ==
    /\ agent[l].at = "away" /\ owned # {}
    /\ agent' = [agent EXCEPT ![l] = [agent[l] EXCEPT !.at = "look", !.todo = owned]]
    /\ UNCHANGED <<transfer, secret, profile, temporary, owned, inflight, lent, told, secretFaults>>

ReadAdoption(t) ==
    IF Confirmed(t) THEN "confirmed" ELSE IF transfer[t] = "adopted" THEN "mismatch" ELSE "open"

LookAt(l) ==
    /\ agent[l].at = "look"
    /\ \/ \E t \in agent[l].todo :
             agent' = [agent EXCEPT ![l] =
                 [agent[l] EXCEPT !.at = "decide", !.on = t, !.todo = agent[l].todo \ {t},
                                  !.seen = ReadAdoption(t)]]
       \/ agent[l].todo = {} /\ agent' = [agent EXCEPT ![l] = Away]
    /\ UNCHANGED <<transfer, secret, profile, temporary, owned, inflight, lent, told, secretFaults>>

\* A list that raises (a mismatch, a transfer no longer owned) just ends.
Decide(l) ==
    LET t == agent[l].on IN
    /\ agent[l].at = "decide"
    /\ \/ agent[l].seen = "confirmed" /\ Release(t) /\ Walk(l, "look")
       \/ agent[l].seen = "mismatch" /\ agent' = [agent EXCEPT ![l] = Away]
          /\ UNCHANGED <<temporary, owned>>
       \/ agent[l].seen = "open" /\ t \in inflight /\ Walk(l, "look")
          /\ UNCHANGED <<temporary, owned>>
       \/ /\ agent[l].seen = "open" /\ t \notin inflight
          /\ IF t \in owned THEN Walk(l, "begin") ELSE agent' = [agent EXCEPT ![l] = Away]
          /\ UNCHANGED <<temporary, owned>>
    /\ UNCHANGED <<transfer, secret, profile, inflight, lent, told, secretFaults>>

\* get(), and a repeated create_setup(), only read the adoption.
Get(t) ==
    /\ t \in owned
    /\ Confirmed(t)
    /\ Release(t)
    /\ UNCHANGED <<transfer, secret, profile, inflight, agent, lent, told, secretFaults>>

Delete(c) ==
    /\ profile[c] # NoProfile
    /\ ~Locked(c)
    /\ profile' = [profile EXCEPT ![c] = NoProfile]
    /\ UNCHANGED <<transfer, secret, temporary, owned, inflight, agent, lent, told, secretFaults>>

\* reauth_ref(), or create() of a draft that names a stored secret: the
\* reference is not temporary and resolves ...
Borrow(c, t) ==
    /\ lent = NoTransfer
    /\ ~Locked(c)
    /\ temporary[t] = "none"
    /\ t \in secret
    /\ lent' = [conn |-> c, ref |-> t, was |-> profile[c]]
    /\ UNCHANGED <<transfer, secret, profile, temporary, owned, inflight, agent, told, secretFaults>>

\* ... and the write (save, or compare_and_set_credential_ref) checks that it
\* is not in transfer and that the profile is the one that was read.
Borrowable(t) == transfer[t] \in {"none", "adopted"}

WriteBorrowed ==
    LET c == lent.conn  old == profile[c] IN
    /\ lent # NoTransfer
    /\ lent' = NoTransfer
    /\ profile' =
         IF ~Borrowable(lent.ref) \/ old # lent.was THEN profile
         ELSE [profile EXCEPT ![c] =
                IF old = NoProfile THEN [id |-> NoTransfer, ref |-> lent.ref, by |-> NoTransfer]
                ELSE [id |-> old.id, ref |-> lent.ref,
                      by |-> IF old.ref = lent.ref THEN old.by ELSE NoTransfer]]
    /\ UNCHANGED <<transfer, secret, temporary, owned, inflight, agent, told, secretFaults>>

\* Rows, files and profiles survive; temporary values and ownership do not.
StopManager ==
    /\ Fault
    /\ temporary' = [t \in Transfers |-> "none"]
    /\ owned' = {}
    /\ inflight' = {}
    /\ lent' = NoTransfer
    /\ agent' = [a \in Agents |-> Away]
    /\ told' = [t \in Transfers |-> IF agent[t].at # "away" THEN "cancelled" ELSE told[t]]
    /\ UNCHANGED <<transfer, secret, profile>>

SecretsNext ==
    \/ \E t \in Transfers :
          \/ Create(t) \/ Reauth(t) \/ CloseTemporary(t) \/ PrepareTransfer(t)
          \/ RecheckPrepared(t) \/ Publish(t) \/ AdoptTransfer(t) \/ Resolve(t) \/ Get(t)
    \/ \E a \in Agents : BeginDiscard(a) \/ Unlink(a) \/ FinishDiscard(a)
    \/ \E l \in Listers : BeginList(l) \/ LookAt(l) \/ Decide(l)
    \/ \E c \in Connections : Delete(c) \/ \E t \in Transfers : Borrow(c, t)
    \/ WriteBorrowed
    \/ StopManager

SecretsSpec == SecretsInit /\ [][SecretsNext]_secretVars

-----------------------------------------------------------------------------
(* Properties. *)

SecretsTypeOK ==
    /\ transfer \in [Transfers -> {"none", "pending", "adopted", "discarding", "discarded"}]
    /\ secret \subseteq Transfers
    /\ owned \subseteq Transfers /\ inflight = {t \in Transfers : agent[t].at # "away"}
    /\ told \in [Transfers -> {"nothing", "stored", "refused", "unsettled", "cancelled"}]
    /\ DOMAIN profile = Connections /\ DOMAIN agent = Agents

\* Every persisted profile can be resolved: the secret file its credential_ref
\* names is on disk, and a profile bound to a transfer is bound to an adopted
\* one.  No interleaving of failed, lost or cancelled calls, discards by list(),
\* borrowed references and crashes removes a file that a profile names.
ProfileHasItsSecret ==
    \A c \in Connections : profile[c] # NoProfile =>
        /\ profile[c].ref \in secret
        /\ profile[c].by # NoTransfer =>
              transfer[profile[c].by] = "adopted" /\ profile[c].by = profile[c].ref

\* No secret is published that the database does not know of: a file on disk
\* has a transfer row that is not yet 'discarded', so recover() reports what a
\* crash leaves behind and nothing is orphaned silently.
FileHasItsRow ==
    \A t \in secret : transfer[t] \in {"pending", "adopted", "discarding"}

\* What create() and reauth() report is final: a stored credential is adopted,
\* and after the original error is raised nothing of the credential remains and
\* nothing of it appears later.
OutcomeIsHonest ==
    \A t \in Transfers :
        /\ told[t] = "stored" => transfer[t] = "adopted"
        /\ told[t] = "refused" => transfer[t] \in {"none", "discarded"} /\ t \notin secret

\* Profile, file, row and what the caller was told agree.
SecretsAreAccounted == ProfileHasItsSecret /\ FileHasItsRow /\ OutcomeIsHonest
=============================================================================
