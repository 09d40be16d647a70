--------------------------- MODULE ManagedAdapters ---------------------------
(***************************************************************************)
(* One connection and the transports behind it:                            *)
(*   application/connection_manager.py  activate, replace, reconfigure,    *)
(*                                      disable, delete                    *)
(*   runtime/managed_adapter_set.py     attach, replace, detach, the event *)
(*                                      pump and the event stream          *)
(*   application/event_consumer.py      the subscriber, which reconnects   *)
(*                                                                         *)
(* An operation builds an adapter OBJECT, connects it before it is         *)
(* published, and disconnects the one it takes the place of.  Operations   *)
(* on a connection exclude one another; the adapter set has a mutation     *)
(* lock of its own, which the subscriber takes to reconnect but not to     *)
(* open or to close its stream.  A connect or a disconnect that fails or   *)
(* is cancelled leaves the transport open or closed.                       *)
(***************************************************************************)
EXTENDS Naturals

CONSTANTS
    Objects,        \* bound: adapter objects the providers may build
    NoObject,
    MaxTroubles     \* bound: calls that fail or are cancelled

ASSUME AdaptersAssumption == NoObject \notin Objects /\ MaxTroubles \in Nat

VARIABLES
    entry,      \* the profile's row: [saved, enabled, conf]
    built,      \* object -> configuration it was built from, "none" before
    link,       \* object -> "open" or "closed": its transport
    child,      \* the published object: ManagedAdapterSet.adapters, _by_id
    online,     \* the connection's adapter_id is in _connected
    pump,       \* the object its task in _child_pump_tasks serves
    trying,     \* that task lost its stream and reconnects
    listening,  \* _event_stream_active
    unclean,    \* _unpublished_cleanup
    work,       \* the operation under way: [op, at, on, back]
    left,       \* published objects whose disconnect failed: nobody holds them
    muted,      \* the child whose pump a detach stopped before it was cut off
    crossed,    \* a stream was opened between the stop of a pump and the publication
    halfway,    \* an operation was cut off between the row and the runtime
    troubles

adapterVars == <<entry, built, link, child, online, pump, trying, listening, unclean, work,
                 left, muted, crossed, halfway, troubles>>

Rest == [op |-> "none", at |-> "rest", on |-> NoObject, back |-> "old"]

AdaptersInit ==
    /\ entry = [saved |-> TRUE, enabled |-> FALSE, conf |-> "old"]
    /\ built = [o \in Objects |-> "none"]
    /\ link = [o \in Objects |-> "closed"]
    /\ child = NoObject /\ online = FALSE
    /\ pump = NoObject /\ trying = FALSE /\ listening = FALSE
    /\ unclean = {} /\ work = Rest
    /\ left = {} /\ muted = NoObject /\ crossed = FALSE /\ halfway = FALSE /\ troubles = 0

-----------------------------------------------------------------------------
(* What the operations share. *)

\* ManagedAdapterSet._mutation_lock is held by the operation.
Mutating == work.at \in {"connect", "swap", "drop"}

Trouble == troubles < MaxTroubles /\ troubles' = troubles + 1
Smooth == UNCHANGED troubles

Onto(at) == work' = [work EXCEPT !.at = at]
Finish == work' = Rest
\* The operation is cut off; `unsettled` when row and runtime are left apart.
Break(unsettled) == Finish /\ halfway' = (halfway \/ unsettled)
Reconfiguring == work.op = "reconfigure"

\* A write of the row that is answered, or that fails or is cancelled, with or
\* without effect.
Wrote(row) == entry' = row /\ Smooth
Unwritten(row) == Trouble /\ entry' \in {entry, row}

\* adapter.disconnect() of object o.
Closes(o) == link' = [link EXCEPT ![o] = "closed"]
MayClose(o) == link' \in {link, [link EXCEPT ![o] = "closed"]}

\* _start_child_pump of a published, connected object o, beside the pump p.
PumpAfter(o, p) == IF listening /\ p = NoObject THEN o ELSE p

PublishChild(o) ==
    /\ child' = o /\ online' = TRUE
    /\ pump' = PumpAfter(o, pump)
    /\ trying' = (trying /\ pump # NoObject)

\* Mutant: an object whose disconnect failed is forgotten.
UncleanForgets(o, clean) == unclean

\* _disconnect_unpublished: the object is listed until its disconnect succeeds.
UncleanAfter(o, clean) == IF clean THEN unclean \ {o} ELSE unclean \cup {o}

DiscardUnpublished(o) ==
    \E clean \in BOOLEAN :
        /\ unclean' = UncleanAfter(o, clean)
        /\ link' \in IF clean THEN {[link EXCEPT ![o] = "closed"]}
                     ELSE {[link EXCEPT ![o] = s] : s \in {"open", "closed"}}

-----------------------------------------------------------------------------
(* How the operations begin. *)

AtRest == work.op = "none" /\ entry.saved

Unbuilt == {o \in Objects : built[o] = "none"}

\* provider.build_adapter: a fresh object, whichever it is.
Build(op, conf, back) ==
    /\ Unbuilt # {}
    /\ LET o == CHOOSE o \in Unbuilt : TRUE IN
         /\ built' = [built EXCEPT ![o] = conf]
         /\ work' = [op |-> op, at |-> "clean", on |-> o, back |-> back]

\* _activate_locked: a connection that has its child is only marked enabled.
Activate ==
    /\ AtRest
    /\ \/ /\ child = NoObject
          /\ Build("activate", entry.conf, entry.conf)
          /\ UNCHANGED <<entry, troubles, halfway>>
       \/ /\ child # NoObject /\ ~entry.enabled
          /\ \/ Wrote([entry EXCEPT !.enabled = TRUE]) /\ UNCHANGED halfway
             \/ Unwritten([entry EXCEPT !.enabled = TRUE]) /\ halfway' = TRUE
          /\ UNCHANGED <<built, work>>
    /\ UNCHANGED <<link, child, online, pump, trying, listening, unclean, left, muted, crossed>>

\* _replace_locked, for replace, repair and reauthentication.
Replace ==
    /\ AtRest
    /\ Build("replace", entry.conf, entry.conf)
    /\ UNCHANGED <<entry, link, child, online, pump, trying, listening, unclean, left, muted, crossed,
                   halfway, troubles>>

\* _reconfigure_locked: the row first, then the runtime if the row was enabled.
Reconfigure(conf) ==
    /\ AtRest /\ conf # entry.conf
    /\ \/ /\ Wrote([entry EXCEPT !.conf = conf])
          /\ IF entry.enabled
               THEN Build("reconfigure", conf, entry.conf)
               ELSE UNCHANGED <<built, work>>
          /\ UNCHANGED halfway
       \/ /\ Unwritten([entry EXCEPT !.conf = conf])
          /\ halfway' = TRUE
          /\ UNCHANGED <<built, work>>
    /\ UNCHANGED <<link, child, online, pump, trying, listening, unclean, left, muted, crossed>>

\* _disable_locked, alone or as the first half of _delete_locked: a connection
\* that is disabled and has no child is left as it is.
Disable(op) ==
    /\ AtRest
    /\ \/ /\ entry.enabled
          /\ \/ /\ Wrote([entry EXCEPT !.enabled = FALSE])
                /\ work' = [Rest EXCEPT !.op = op, !.at = "detach"]
                /\ UNCHANGED halfway
             \/ /\ Unwritten([entry EXCEPT !.enabled = FALSE])
                /\ halfway' = TRUE
                /\ UNCHANGED work
       \/ /\ ~entry.enabled
          /\ \/ child # NoObject /\ work' = [Rest EXCEPT !.op = op, !.at = "detach"]
             \/ child = NoObject /\ op = "delete" /\ work' = [Rest EXCEPT !.op = op, !.at = "erase"]
          /\ UNCHANGED <<entry, troubles, halfway>>
    /\ UNCHANGED <<built, link, child, online, pump, trying, listening, unclean, left, muted, crossed>>

-----------------------------------------------------------------------------
(* attach and replace, under the mutation lock. *)

\* The failure of attach or replace before anything was published: an
\* activation disables its profile, a reconfiguration puts the old row back.
Refused ==
    work' = CASE work.op = "activate" -> [work EXCEPT !.at = "disenable"]
              [] work.op = "reconfigure" -> [work EXCEPT !.at = "restore"]
              [] OTHER -> Rest

\* _retry_unpublished_cleanup: while a disconnect still fails the identity stays
\* closed.  A replacement without a child ends here, and so does an operation
\* whose build fails or that is cancelled.
Clean ==
    /\ work.at = "clean"
    /\ \E still \in SUBSET unclean :
          /\ unclean' = still
          /\ link' = [o \in Objects |-> IF o \in unclean \ still THEN "closed" ELSE link[o]]
          /\ \/ /\ still = {} /\ Smooth
                /\ IF work.op = "activate" \/ child # NoObject THEN Onto("connect") ELSE Refused
                /\ UNCHANGED halfway
             \/ Trouble /\ Refused /\ UNCHANGED halfway
             \/ Trouble /\ Break(Reconfiguring)
    /\ UNCHANGED <<entry, built, child, online, pump, trying, listening, left, muted, crossed>>

\* adapter.connect(); a replacement then stops the pump of the child at once.
Connect ==
    /\ work.at = "connect"
    /\ link' = [link EXCEPT ![work.on] = "open"]
    /\ IF work.op = "activate"
         THEN PublishChild(work.on) /\ Onto("enable")
         ELSE /\ pump' = NoObject /\ trying' = FALSE
              /\ Onto("swap")
              /\ UNCHANGED <<child, online>>
    /\ UNCHANGED <<entry, built, listening, unclean, left, muted, crossed, halfway, troubles>>

\* It fails: the identity is marked unavailable, even if a child still runs.
ConnectFails ==
    /\ work.at = "connect"
    /\ Trouble
    /\ online' = FALSE
    /\ DiscardUnpublished(work.on)
    /\ Refused
    /\ UNCHANGED <<entry, built, child, pump, trying, listening, left, muted, crossed, halfway>>

ConnectCancelled ==
    /\ work.at = "connect"
    /\ Trouble
    /\ DiscardUnpublished(work.on)
    /\ Break(Reconfiguring)
    /\ UNCHANGED <<entry, built, child, online, pump, trying, listening, left, muted, crossed>>

\* current.disconnect(): whether it succeeds or raises, the new object is
\* published; an exception still reaches the manager.
Swap ==
    /\ work.at = "swap"
    /\ \/ Closes(child) /\ Onto("refresh") /\ Smooth /\ UNCHANGED <<left, halfway>>
       \/ /\ Trouble /\ MayClose(child)
          /\ left' = left \cup {child}
          /\ halfway' = (halfway \/ Reconfiguring)
          /\ IF Reconfiguring THEN Onto("restore") ELSE Finish
    /\ PublishChild(work.on)
    /\ UNCHANGED <<entry, built, listening, unclean, muted, crossed>>

\* It is cancelled: the old object keeps its place, the new one is discarded.
SwapCancelled ==
    /\ work.at = "swap"
    /\ Trouble
    /\ online' = FALSE
    /\ \E s \in {"open", "closed"}, clean \in BOOLEAN :
          /\ unclean' = UncleanAfter(work.on, clean)
          /\ link' = [o \in Objects |-> IF (o = child /\ s = "closed") \/ (o = work.on /\ clean)
                                       THEN "closed" ELSE link[o]]
    /\ Break(Reconfiguring)
    /\ UNCHANGED <<entry, built, child, pump, trying, listening, left, muted, crossed>>

-----------------------------------------------------------------------------
(* What follows. *)

Enable ==
    /\ work.at = "enable"
    /\ \/ Wrote([entry EXCEPT !.enabled = TRUE]) /\ Onto("refresh") /\ UNCHANGED halfway
       \/ Unwritten([entry EXCEPT !.enabled = TRUE]) /\ Onto("detach") /\ UNCHANGED halfway
       \/ Unwritten([entry EXCEPT !.enabled = TRUE]) /\ Break(TRUE)
    /\ UNCHANGED <<built, link, child, online, pump, trying, listening, unclean, left, muted, crossed>>

\* refresh_inventory: an exception undoes an activation, and puts back the row,
\* but not the runtime, of a reconfiguration; a cancellation undoes nothing.
Refresh ==
    /\ work.at = "refresh"
    /\ \/ /\ IF work.op = "delete" THEN Onto("erase") ELSE Finish
          /\ Smooth /\ UNCHANGED halfway
       \/ Trouble /\ work.op = "activate" /\ Onto("detach") /\ UNCHANGED halfway
       \/ Trouble /\ Reconfiguring /\ Onto("restore") /\ halfway' = TRUE
       \/ Trouble /\ Break(FALSE)
    /\ UNCHANGED <<entry, built, link, child, online, pump, trying, listening, unclean, left, muted, crossed>>

\* A failed activation disables its profile; disable and delete refresh.
AfterDetach == IF work.op = "activate" THEN "disenable" ELSE "refresh"

\* detach: an absent child is no error.
Detach ==
    /\ work.at = "detach"
    /\ IF child = NoObject
         THEN /\ Onto(AfterDetach)
              /\ UNCHANGED <<pump, trying>>
         ELSE /\ pump' = NoObject /\ trying' = FALSE
              /\ Onto("drop")
    /\ UNCHANGED <<entry, built, link, child, online, listening, unclean, left, muted, crossed, halfway, troubles>>

\* detach is cancelled while it waits for the lock or, outside the try, for the pump
\* it cancelled to end: the child stays, with the row as the operation left it.
DetachCancelled ==
    /\ work.at = "detach"
    /\ Trouble
    /\ \/ UNCHANGED <<pump, trying, muted>>
       \/ /\ child # NoObject /\ pump # NoObject
          /\ pump' = NoObject /\ trying' = FALSE /\ muted' = child
    /\ Break(child # NoObject)
    /\ UNCHANGED <<entry, built, link, child, online, listening, unclean, left, crossed>>

\* The child is removed whether its disconnect succeeds or not.
Drop ==
    /\ work.at = "drop"
    /\ child' = NoObject /\ online' = FALSE
    /\ \/ /\ Closes(child)
          /\ Onto(AfterDetach)
          /\ Smooth /\ UNCHANGED <<left, halfway>>
       \/ /\ Trouble /\ MayClose(child)
          /\ left' = left \cup {child}
          /\ Break(work.op = "activate")
    /\ UNCHANGED <<entry, built, pump, trying, listening, unclean, muted, crossed>>

\* The last write of a failed activation, a failed reconfiguration or a deletion.
Settled(row) ==
    /\ \/ Wrote(row) /\ Finish /\ UNCHANGED halfway
       \/ Unwritten(row) /\ Break(TRUE)
    /\ UNCHANGED <<built, link, child, online, pump, trying, listening, unclean, left, muted, crossed>>

Disenable == work.at = "disenable" /\ Settled([entry EXCEPT !.enabled = FALSE])
Restore == work.at = "restore" /\ Settled([entry EXCEPT !.conf = work.back])
Erase == work.at = "erase" /\ Settled([entry EXCEPT !.saved = FALSE])

-----------------------------------------------------------------------------
(* The subscriber and the pump. *)

\* _event_stream starts a pump for the connected child, whatever is under way.
Subscribe ==
    /\ ~listening
    /\ listening' = TRUE
    /\ pump' = IF child # NoObject /\ online THEN child ELSE pump
    /\ trying' = FALSE
    /\ muted' = NoObject
    /\ crossed' = (crossed \/ (work.at \in {"swap", "drop"} /\ online))
    /\ UNCHANGED <<entry, built, link, child, online, unclean, work, left, halfway, troubles>>

\* Its finally block stops every pump.
Unsubscribe ==
    /\ listening
    /\ listening' = FALSE /\ pump' = NoObject /\ trying' = FALSE
    /\ UNCHANGED <<entry, built, link, child, online, unclean, work, left, muted, crossed, halfway, troubles>>

\* run(): a degraded set is connected again before the stream is opened.
ReconnectSet ==
    /\ ~listening /\ ~Mutating
    /\ child # NoObject
    /\ \/ Smooth /\ online' = TRUE /\ link' = [link EXCEPT ![child] = "open"]
       \/ Trouble /\ online' = FALSE /\ link' \in {link, [link EXCEPT ![child] = "closed"]}
    /\ UNCHANGED <<entry, built, child, pump, trying, listening, unclean, work, left, muted, crossed, halfway>>

\* A health call raises.
HealthFails ==
    /\ child # NoObject /\ online
    /\ Trouble
    /\ online' = FALSE
    /\ UNCHANGED <<entry, built, link, child, pump, trying, listening, unclean, work, left, muted, crossed, halfway>>

\* _pump_child: the stream fails (an end without an error does not mark the
\* source), and the same object is connected again until it succeeds.
StreamFails ==
    /\ pump # NoObject /\ ~trying
    /\ Trouble
    /\ trying' = TRUE
    /\ online' \in {online, FALSE}
    /\ link' \in {link, [link EXCEPT ![pump] = "closed"]}
    /\ UNCHANGED <<entry, built, child, pump, listening, unclean, work, left, muted, crossed, halfway>>

PumpReconnects ==
    /\ pump # NoObject /\ trying
    /\ trying' = FALSE /\ online' = TRUE
    /\ link' = [link EXCEPT ![pump] = "open"]
    /\ UNCHANGED <<entry, built, child, pump, listening, unclean, work, left, muted, crossed, halfway, troubles>>

AdaptersNext ==
    \/ Activate \/ Replace \/ \E c \in {"old", "new"} : Reconfigure(c)
    \/ \E op \in {"disable", "delete"} : Disable(op)
    \/ Clean \/ Connect \/ ConnectFails \/ ConnectCancelled \/ Swap \/ SwapCancelled
    \/ Enable \/ Refresh \/ Detach \/ DetachCancelled \/ Drop \/ Disenable \/ Restore \/ Erase
    \/ Subscribe \/ Unsubscribe \/ ReconnectSet \/ HealthFails \/ StreamFails \/ PumpReconnects

AdaptersSpec == AdaptersInit /\ [][AdaptersNext]_adapterVars

-----------------------------------------------------------------------------
AdaptersTypeOK ==
    /\ entry \in [saved : BOOLEAN, enabled : BOOLEAN, conf : {"old", "new"}]
    /\ built \in [Objects -> {"none", "old", "new"}]
    /\ link \in [Objects -> {"open", "closed"}]
    /\ {child, pump} \subseteq Objects \cup {NoObject}
    /\ {online, trying, listening, crossed, halfway} \subseteq BOOLEAN
    /\ unclean \subseteq Objects /\ left \subseteq Objects /\ muted \in Objects \cup {NoObject}
    /\ work.op \in {"none", "activate", "replace", "reconfigure", "disable", "delete"}
    /\ work.on \in Objects \cup {NoObject}
    /\ troubles \in 0..MaxTroubles

\* No transport is lost.  Whatever fails or is cancelled, and however often, an
\* open transport belongs to the published child, to the operation under way, or
\* to the cleanup list that keeps its identity closed until it is gone; and the
\* only pump is the child's, so that no object that was taken out is connected
\* again ("ningún event pump huérfano").  Three things escape: a published object
\* whose own disconnect failed, the pump of a stream opened during a swap, and a child
\* that a cancelled detach left published, online and without its pump until the next
\* stream.
TransportsAreHeld ==
    ~crossed =>
        /\ pump \in {NoObject, child}
        /\ \A o \in Objects :
              link[o] = "open" => o \in {child, work.on} \cup unclean \cup left
        /\ listening /\ online /\ ~Mutating => pump = child \/ muted = child

\* The row and the runtime agree between operations: an enabled connection has a
\* child, a disabled one has none, and the child was built from the row's own
\* configuration, unless an operation was cut off, or its write lost, between the
\* two (a cancelled refresh, replacement or disconnect leaves them together).
RuntimeFollowsRow ==
    work.op = "none" /\ ~halfway =>
        /\ entry.enabled <=> child # NoObject
        /\ child # NoObject => entry.saved /\ built[child] = entry.conf

\* No transport is lost sight of, and the runtime is what the row says.
ConnectionsAreSound == TransportsAreHeld /\ RuntimeFollowsRow
=============================================================================
