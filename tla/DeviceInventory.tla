--------------------------- MODULE DeviceInventory ---------------------------
(***************************************************************************)
(* The inventory that plans are validated against:                         *)
(*   runtime/registry.py               canonical devices and their routes  *)
(*   application/discovery_service.py  refreshing it, one task at a time   *)
(*   runtime/state_store.py            its revision and fingerprint        *)
(*   application/plan_service.py       the evidence a plan keeps of it     *)
(*                                                                         *)
(* An entity of a source offers one capability.  Some entities take        *)
(* commands for it, others only report it.  `max` stands for the metadata  *)
(* of the capability: 0 says nothing.  A canonical identifier is a name    *)
(* and a suffix.  Everything between two awaits is one step.               *)
(***************************************************************************)
EXTENDS Naturals, FiniteSets, Sequences, SequencesExt

CONSTANTS
    EntityOrder,    \* the entities, in the order in which sources list them
    SourceOf,       \* entity -> its source adapter
    DeviceOf,       \* entity -> its source device
    NameOf,         \* entity -> the local identifier made from its name
    Writers,        \* the entities whose capability takes commands
    Snapshots,      \* what the sources may say together: sets of entity -> report
    NoEntity, NoId, NoName, NoDigest,
    MaxSuffix,      \* bound: devices of one name
    MaxRefreshes,   \* bound: discoveries
    MaxUpsets       \* bound: failing sources, failed writes, cancellations, restarts

Entities == {EntityOrder[i] : i \in DOMAIN EntityOrder}
Sources == {SourceOf[e] : e \in Entities}
Names == {NameOf[e] : e \in Entities}
Ids == Names \X (1..MaxSuffix)
\* _identity_to_canonical: a source device, or the identifier a source insists on.
Anchors == ({"source"} \X {DeviceOf[e] : e \in Entities}) \cup ({"canonical"} \X Names)

Reports == [canon : Names \cup {NoName}, max : Nat, up : BOOLEAN, wellFormed : BOOLEAN]

ASSUME InventoryAssumption ==
    /\ MaxSuffix \in Nat \ {0} /\ {MaxRefreshes, MaxUpsets} \subseteq Nat
    /\ Len(EntityOrder) \in Nat /\ DOMAIN EntityOrder = 1 .. Len(EntityOrder)
    /\ NoId \notin Ids /\ NoEntity \notin Entities /\ NoName \notin Names
    /\ \A said \in Snapshots : /\ DOMAIN said \subseteq Entities
                               /\ \A e \in DOMAIN said : said[e] \in Reports

VARIABLES
    reg,        \* DeviceRegistry: [devs, ids, anchors, routes]
    meta,       \* StateStore: [rev, digest], the revision and the recorded fingerprint
    before,     \* _pending_metadata_before: <<>> or <<meta>>
    commit,     \* the store's mutation in progress: [by, meta] or NoCommitment
    disk,       \* the metadata row
    rows,       \* the device rows
    task,       \* who holds _refresh_lock: [op, at, src, asked, digest, changed, todo]
    linked,     \* connected sources
    notices,    \* source_unavailable and source_reconnected events, in order
    hushed,     \* sources that failed without an event while a task was under way
    evidence,   \* what a plan keeps of its validation: [dev, rev, digest, route, max]
    named,      \* entities for which a source insisted on an identifier
    clean,      \* nothing has failed, or changed the registry from outside, since the
                \* last refresh began, and no other mutation spanned its change of revision
    torn,       \* a restart found an entity in the rows of two devices
    refreshes, upsets

inventoryVars == <<reg, meta, before, commit, disk, rows, task, linked, notices, hushed,
                   evidence, named, clean, torn, refreshes, upsets>>

NoDevice == [refs |-> {}, avail |-> FALSE, cap |-> FALSE, max |-> 0, write |-> FALSE]
NoCommitment == [by |-> "nobody", meta |-> [rev |-> 0, digest |-> NoDigest]]
NoTask == [op |-> "none", at |-> "none", src |-> {}, asked |-> {}, digest |-> NoDigest,
           changed |-> FALSE, todo |-> {}]
NoEvidence == [dev |-> NoId, rev |-> 0, digest |-> NoDigest, route |-> NoEntity, max |-> 0]

EmptyRegistry == [devs    |-> [d \in Ids |-> NoDevice],
                  ids     |-> [e \in Entities |-> NoId],
                  anchors |-> [k \in Anchors |-> NoId],
                  routes  |-> {}]

InventoryInit ==
    /\ reg = EmptyRegistry
    /\ meta = [rev |-> 0, digest |-> NoDigest] /\ before = <<>> /\ commit = NoCommitment
    /\ disk = meta /\ rows = [d \in Ids |-> NoDevice]
    /\ task = NoTask /\ linked = Sources /\ notices = <<>> /\ hushed = {}
    /\ evidence = NoEvidence /\ named = {} /\ clean = FALSE /\ torn = FALSE
    /\ refreshes = 0 /\ upsets = 0

-----------------------------------------------------------------------------
(* DeviceRegistry. *)

Known(r) == {d \in Ids : r.devs[d].refs # {}}
RoutesOf(r, d) == {t \in r.routes : t.id = d}

\* _refresh_device_availability: a device that has routes is as available as they are.
WithAvailability(r) ==
    [r EXCEPT !.devs = [d \in Ids |->
        IF d \in Known(r) /\ RoutesOf(r, d) # {}
          THEN [r.devs[d] EXCEPT !.avail = \E t \in RoutesOf(r, d) : t.up]
          ELSE r.devs[d]]]

AnchorOf(e, said) ==
    IF said.canon = NoName THEN <<"source", DeviceOf[e]>> ELSE <<"canonical", said.canon>>

\* Mutant: only the identifiers of devices that are still there are taken.
TakenByDevices(r, anchor) == Known(r)

Taken(r, anchor) == Known(r) \cup {r.anchors[k] : k \in Anchors \ {anchor}}

\* _canonical_id_for: a known entity keeps its identifier, a known identity its
\* own; a new one gets what it insists on, or its name with the first free suffix
\* (NoId beyond the bound on suffixes).
FirstFree(r, name, anchor) ==
    LET free == {n \in 1..MaxSuffix : <<name, n>> \notin Taken(r, anchor)} IN
    IF free = {} THEN NoId ELSE <<name, Min(free)>>

CanonicalId(r, e, said) ==
    LET anchor == AnchorOf(e, said) IN
    IF r.ids[e] # NoId THEN r.ids[e]
    ELSE IF r.anchors[anchor] # NoId THEN r.anchors[anchor]
    ELSE IF said.canon # NoName THEN <<said.canon, 1>>
    ELSE FirstFree(r, NameOf[e], anchor)

\* _remove_source_capabilities: the entity's routes go, and with the last route
\* of the device the capability.
WithoutSurface(r, d, e) ==
    LET routes == {t \in r.routes : ~(t.id = d /\ t.e = e)} IN
    [r EXCEPT !.routes = routes,
              !.devs = IF \E t \in routes : t.id = d THEN r.devs
                       ELSE [r.devs EXCEPT ![d] = [r.devs[d] EXCEPT !.cap = FALSE, !.max = 0, !.write = FALSE]]]

\* _merge_capabilities and _combine_capabilities: surfaces complete each other
\* unless their metadata disagree; then the earlier one stays.
Merged(dev, e, said) ==
    IF ~dev.cap
      THEN [dev EXCEPT !.cap = TRUE, !.max = said.max, !.write = (e \in Writers)]
    ELSE IF dev.max # 0 /\ said.max # 0 /\ dev.max # said.max THEN dev
    ELSE [dev EXCEPT !.max = IF dev.max # 0 THEN dev.max ELSE said.max,
                     !.write = dev.write \/ e \in Writers]

\* The device takes the entity in, with a route to it.
Joined(r, d, e, said) ==
    [r EXCEPT !.ids = [r.ids EXCEPT ![e] = d],
              !.devs = [r.devs EXCEPT ![d] = [Merged(r.devs[d], e, said) EXCEPT !.refs = r.devs[d].refs \cup {e}]],
              !.routes = {t \in r.routes : ~(t.id = d /\ t.e = e)}
                           \cup {[id |-> d, e |-> e, up |-> said.up]}]

\* _upsert_entity.  An entity whose capabilities are malformed is rejected after
\* its identity was resolved.
Upsert(r, e, said) ==
    LET d     == CanonicalId(r, e, said)
        known == [r EXCEPT !.anchors = [r.anchors EXCEPT ![AnchorOf(e, said)] = d]]
        bare  == IF e \in r.devs[d].refs THEN WithoutSurface(known, d, e) ELSE known
    IN IF ~said.wellFormed THEN known ELSE WithAvailability(Joined(bare, d, e, said))

\* _remove_source_refs: the device's capability stays as it was merged.
WithoutRefs(r, gone) ==
    WithAvailability(
        [r EXCEPT !.ids = [e \in Entities |-> IF e \in gone THEN NoId ELSE r.ids[e]],
                  !.routes = {t \in r.routes : t.e \notin gone},
                  !.devs = [d \in Ids |->
                      IF r.devs[d].refs \subseteq gone THEN NoDevice
                      ELSE [r.devs[d] EXCEPT !.refs = r.devs[d].refs \ gone]]])

\* Only a source that listed something, and did not fail, says what is gone.
Authoritative(heard, failed) == heard \ failed

\* _reconcile.
Reconciled(r, answer) ==
    LET speaks == Authoritative({SourceOf[e] : e \in DOMAIN answer.said}, answer.failed)
        seen   == {e \in DOMAIN answer.said : answer.said[e].wellFormed}
    IN IF speaks = {} THEN r
       ELSE WithoutRefs(r, {e \in Entities : SourceOf[e] \in speaks /\ e \notin seen})

\* apply_snapshot, in the order of the entities: the registry after i of them.
Upserted(r, said) ==
    LET after[i \in 0 .. Len(EntityOrder)] ==
            IF i = 0 THEN r
            ELSE IF EntityOrder[i] \in DOMAIN said
              THEN Upsert(after[i - 1], EntityOrder[i], said[EntityOrder[i]])
            ELSE after[i - 1]
    IN after

\* No name runs out of suffixes.
Numbered(r, said) ==
    \A i \in 1 .. Len(EntityOrder) : EntityOrder[i] \in DOMAIN said =>
        CanonicalId(Upserted(r, said)[i - 1], EntityOrder[i], said[EntityOrder[i]]) # NoId

Applied(r, answer) == Reconciled(Upserted(r, answer.said)[Len(EntityOrder)], answer)

\* _mark_source_availability, of whole sources.
Marked(r, sources, isUp) ==
    WithAvailability([r EXCEPT !.routes =
        {IF SourceOf[t.e] \in sources THEN [t EXCEPT !.up = isUp] ELSE t : t \in r.routes}])

\* load_persisted: devices and identities, but no routes.
Holders(saved, e) == {d \in Ids : e \in saved[d].refs}
HolderOf(saved, e) == CHOOSE d \in Holders(saved, e) : TRUE
SavedOf(saved, x) == {e \in Entities : DeviceOf[e] = x /\ Holders(saved, e) # {}}

Loaded(saved) ==
    [devs    |-> saved,
     ids     |-> [e \in Entities |-> IF Holders(saved, e) = {} THEN NoId ELSE HolderOf(saved, e)],
     anchors |-> [k \in Anchors |->
                    IF k[1] = "source" /\ SavedOf(saved, k[2]) # {}
                      THEN HolderOf(saved, CHOOSE e \in SavedOf(saved, k[2]) : TRUE)
                      ELSE NoId],
     routes  |-> {}]

\* resolve_command_route: the one entity that takes the device's commands.
Resolved(r, d) ==
    LET able == {t \in RoutesOf(r, d) : t.e \in Writers} IN
    IF r.devs[d].write /\ Cardinality(able) = 1 /\ \A t \in able : t.up
      THEN (CHOOSE t \in able : TRUE).e
      ELSE NoEntity

\* capability_fingerprint: what of a device matters to a command.
CapabilityDigest(r, d) ==
    [dev    |-> [r.devs[d] EXCEPT !.refs = {SourceOf[e] : e \in r.devs[d].refs}],
     routes |-> IF r.devs[d].cap THEN RoutesOf(r, d) ELSE {}]

\* inventory_fingerprint.
InventoryDigest(r) == [d \in Known(r) |-> CapabilityDigest(r, d)]

-----------------------------------------------------------------------------
(* StateStore metadata. *)

Upset == upsets < MaxUpsets /\ upsets' = upsets + 1

Remembered == IF before = <<>> THEN <<meta>> ELSE before

\* begin_revision when the fingerprint changed, and record_inventory_fingerprint.
\* A mutation under way holds the earlier metadata, and will put them back.
Record(was, now) ==
    /\ meta' = [rev |-> IF now # was THEN meta.rev + 1 ELSE meta.rev, digest |-> now]
    /\ before' = Remembered

\* _candidate, then _await_durable_operation, under _mutation_lock.
StartCommit(by) ==
    /\ commit.by = "nobody"
    /\ commit' = [by |-> by, meta |-> meta]

\* _install_candidate, confirm_metadata_persisted.
Installed == meta' = commit.meta /\ disk' = commit.meta /\ before' = <<>> /\ commit' = NoCommitment

\* rollback_metadata_mutation.
RolledBack ==
    /\ meta' = IF before = <<>> THEN meta ELSE before[1]
    /\ before' = <<>> /\ commit' = NoCommitment

\* A readback of the executor saves a state; it takes no part in discovery.
ReaderSaves ==
    /\ StartCommit("reader")
    /\ UNCHANGED <<reg, meta, before, disk, rows, task, linked, notices, hushed, evidence,
                   named, clean, torn, refreshes, upsets>>

ReaderSaved ==
    /\ commit.by = "reader"
    /\ \/ Installed /\ UNCHANGED upsets
       \/ Upset /\ RolledBack /\ UNCHANGED disk
    /\ clean' = (clean /\ meta' = meta)
    /\ UNCHANGED <<reg, rows, task, linked, notices, hushed, evidence, named, torn, refreshes>>

-----------------------------------------------------------------------------
(* DiscoveryService: one task holds _refresh_lock. *)

Go(at) == task' = [task EXCEPT !.at = at]

\* The task raises.  A consumer loses the events it has not handled and marks
\* every source down.
EndTask ==
    /\ task' = NoTask /\ clean' = FALSE
    /\ notices' = IF task.op = "refresh" THEN notices
                  ELSE SetToSeq({[src |-> s, up |-> FALSE] : s \in Sources})

\* refresh: the connected sources are asked.
StartRefresh ==
    /\ task.op = "none" /\ refreshes < MaxRefreshes
    /\ refreshes' = refreshes + 1
    /\ task' = [NoTask EXCEPT !.op = "refresh", !.at = "ask", !.asked = linked]
    /\ clean' = TRUE
    /\ UNCHANGED <<reg, meta, before, commit, disk, rows, linked, notices, hushed, evidence,
                   named, torn, upsets>>

\* What is heard when some sources fail: what the others that were asked say.
Answers(failed) == {Restrict(said, {e \in DOMAIN said : SourceOf[e] \in task.asked \ failed}) :
                        said \in Snapshots}

\* The answers arrive: failed sources are marked, the snapshot is applied.  When
\* every source failed the refresh raises.
Answered ==
    /\ task.op = "refresh" /\ task.at = "ask"
    /\ \E failed \in SUBSET task.asked :
         /\ IF failed = {} THEN UNCHANGED upsets ELSE Upset
         /\ linked' = linked \ failed
         /\ IF failed = task.asked
              THEN /\ reg' = Marked(reg, failed, FALSE)
                   /\ task' = NoTask /\ clean' = FALSE
                   /\ UNCHANGED named
              ELSE \E said \in Answers(failed) :
                     /\ Numbered(Marked(reg, failed, FALSE), said)
                     /\ reg' = Applied(Marked(reg, failed, FALSE), [said |-> said, failed |-> failed])
                     /\ named' = named \cup {e \in DOMAIN said : said[e].canon # NoName}
                     /\ task' = [task EXCEPT !.at = "prune",
                                   !.digest = IF meta.digest = NoDigest THEN InventoryDigest(reg) ELSE meta.digest]
                     /\ UNCHANGED clean
    /\ UNCHANGED <<meta, before, commit, disk, rows, notices, hushed, evidence, torn, refreshes>>

\* The mutations of a task: pruned capabilities, states, deleted devices, as many
\* as there are; and one that marks a source or flushes the metadata.
TaskSaves ==
    /\ task.at \in {"prune", "states", "mark", "metadata"}
    /\ StartCommit("task")
    /\ UNCHANGED <<reg, meta, before, disk, rows, task, linked, notices, hushed, evidence,
                   named, clean, torn, refreshes, upsets>>

\* A cancelled caller is told so only when its mutation has ended.
TaskSaved ==
    /\ commit.by = "task"
    /\ \/ /\ Installed /\ UNCHANGED <<clean, upsets, notices>>
          /\ task' = IF task.at = "metadata" \/ (task.at = "mark" /\ ~task.changed) THEN NoTask
                     ELSE IF task.at = "mark" THEN [task EXCEPT !.at = "mutate"]
                     ELSE task
       \/ Installed /\ Upset /\ EndTask
       \/ Upset /\ RolledBack /\ UNCHANGED disk /\ EndTask
    /\ UNCHANGED <<reg, rows, linked, hushed, evidence, named, torn, refreshes>>

Between(at) == task.at = at /\ commit.by # "task"

\* Once the capabilities are pruned the revision follows.
Revise ==
    /\ Between("prune")
    /\ Record(task.digest, InventoryDigest(reg))
    /\ Go("states")
    /\ UNCHANGED <<reg, commit, disk, rows, linked, notices, hushed, evidence, named, clean,
                   torn, refreshes, upsets>>

\* The rows of devices that are gone, then all that are there as they are now.
Gone == {d \in Ids : rows[d].refs # {} /\ reg.devs[d].refs = {}}
ToRows == task' = [task EXCEPT !.at = "rows", !.todo = {<<d, reg.devs[d]>> : d \in Known(reg)}]

DeleteRows ==
    /\ Between("states")
    /\ IF Gone = {} THEN ToRows /\ UNCHANGED rows
       ELSE \E d \in Gone : rows' = [rows EXCEPT ![d] = NoDevice] /\ UNCHANGED task
    /\ UNCHANGED <<reg, meta, before, commit, disk, linked, notices, hushed, evidence, named,
                   clean, torn, refreshes, upsets>>

WriteRow ==
    /\ Between("rows")
    /\ IF task.todo = {} THEN Go("metadata") /\ UNCHANGED rows
       ELSE LET t == CHOOSE t \in task.todo : TRUE IN
            /\ rows' = [rows EXCEPT ![t[1]] = t[2]]
            /\ task' = [task EXCEPT !.todo = task.todo \ {t}]
    /\ UNCHANGED <<reg, meta, before, commit, disk, linked, notices, hushed, evidence, named,
                   clean, torn, refreshes, upsets>>

\* A row cannot be written, or the caller is cancelled between two steps.
TaskFails ==
    /\ task.at \in {"ask", "read", "states", "rows", "metadata"} /\ commit.by # "task"
    /\ Upset
    /\ EndTask
    /\ UNCHANGED <<reg, meta, before, commit, disk, rows, linked, hushed, evidence, named, torn, refreshes>>

-----------------------------------------------------------------------------
(* apply_source_availability, for the next event. *)

Down(s) ==
    LET r == Marked(reg, {s}, FALSE) IN
    /\ reg' = r
    /\ task' = [NoTask EXCEPT !.op = "down", !.at = "mark", !.src = {s}, !.changed = (r # reg)]
    /\ hushed' = hushed \ {s}

TakeNotice ==
    /\ task.op = "none" /\ notices # <<>>
    /\ notices' = Tail(notices)
    /\ IF Head(notices).up
         THEN /\ task' = [NoTask EXCEPT !.op = "up", !.at = "read", !.src = {Head(notices).src}]
              /\ UNCHANGED <<reg, hushed>>
         ELSE Down(Head(notices).src)
    /\ clean' = (clean /\ reg' = reg)
    /\ UNCHANGED <<meta, before, commit, disk, rows, linked, evidence, named, torn, refreshes, upsets>>

\* The source is read again before its routes are used; if it cannot be, nothing changes.
ReadAgain ==
    /\ task.at = "read"
    /\ IF task.src \subseteq linked
         THEN LET r == Marked(reg, task.src, TRUE) IN
              /\ reg' = r
              /\ task' = [task EXCEPT !.at = "mark", !.changed = (r # reg)]
              /\ hushed' = hushed \ task.src
         ELSE task' = NoTask /\ UNCHANGED <<reg, hushed>>
    /\ clean' = (clean /\ reg' = reg)
    /\ UNCHANGED <<meta, before, commit, disk, rows, linked, notices, evidence, named, torn, refreshes, upsets>>

\* _record_inventory_mutation_unlocked.
Mutate ==
    /\ task.at = "mutate"
    /\ IF meta.digest = InventoryDigest(reg)
         THEN task' = NoTask /\ UNCHANGED <<meta, before>>
         ELSE /\ Record(meta.digest, InventoryDigest(reg))
              /\ ToRows
    /\ UNCHANGED <<reg, commit, disk, rows, linked, notices, hushed, evidence, named, clean,
                   torn, refreshes, upsets>>

-----------------------------------------------------------------------------
(* Sources, plans and restarts. *)

\* _record_failure: the routes go down at once.  A broken stream also tells the
\* consumer; a failed read does not.
SourceFails(s) ==
    /\ s \in linked
    /\ Upset
    /\ linked' = linked \ {s}
    /\ reg' = Marked(reg, {s}, FALSE)
    /\ \/ notices' = Append(notices, [src |-> s, up |-> FALSE]) /\ UNCHANGED hushed
       \/ /\ hushed' = IF task.op = "none" THEN hushed ELSE hushed \cup {s}
          /\ UNCHANGED notices
    /\ clean' = (clean /\ reg' = reg)
    /\ UNCHANGED <<meta, before, commit, disk, rows, task, evidence, named, torn, refreshes>>

SourceReturns(s) ==
    /\ s \notin linked
    /\ linked' = linked \cup {s}
    /\ notices' = Append(notices, [src |-> s, up |-> TRUE])
    /\ UNCHANGED <<reg, meta, before, commit, disk, rows, task, hushed, evidence, named,
                   clean, torn, refreshes, upsets>>

\* PlanService.validate of a command: a plan without errors keeps this evidence.
Validate(d) ==
    /\ evidence = NoEvidence /\ Resolved(reg, d) # NoEntity
    /\ evidence' = [dev |-> d, rev |-> meta.rev, digest |-> CapabilityDigest(reg, d),
                    route |-> Resolved(reg, d), max |-> reg.devs[d].max]
    /\ UNCHANGED <<reg, meta, before, commit, disk, rows, task, linked, notices, hushed, named,
                   clean, torn, refreshes, upsets>>

\* assert_executable, _dependencies_still_current.
Executable ==
    /\ evidence # NoEvidence
    /\ evidence.rev = meta.rev
    /\ evidence.dev \in Known(reg) /\ CapabilityDigest(reg, evidence.dev) = evidence.digest

\* Memory is lost; devices and metadata come back from their rows.
RestartInventory ==
    /\ Upset
    /\ reg' = Loaded(rows)
    /\ meta' = disk /\ before' = <<>> /\ commit' = NoCommitment
    /\ task' = NoTask /\ linked' = Sources /\ notices' = <<>> /\ hushed' = {}
    /\ clean' = FALSE
    /\ torn' = (torn \/ \E e \in Entities : \E d, c \in Holders(rows, e) : c # d)
    /\ UNCHANGED <<disk, rows, evidence, named, refreshes>>

InventoryNext ==
    \/ ReaderSaves \/ ReaderSaved
    \/ StartRefresh \/ Answered \/ TaskSaves \/ TaskSaved
    \/ Revise \/ DeleteRows \/ WriteRow \/ TaskFails
    \/ TakeNotice \/ ReadAgain \/ Mutate
    \/ \E s \in Sources : SourceFails(s) \/ SourceReturns(s)
    \/ \E d \in Ids : Validate(d)
    \/ RestartInventory

InventorySpec == InventoryInit /\ [][InventoryNext]_inventoryVars

-----------------------------------------------------------------------------
Devices == [refs : SUBSET Entities, avail : BOOLEAN, cap : BOOLEAN, max : Nat, write : BOOLEAN]

InventoryTypeOK ==
    /\ reg.devs \in [Ids -> Devices] /\ rows \in [Ids -> Devices]
    /\ reg.ids \in [Entities -> Ids \cup {NoId}] /\ reg.anchors \in [Anchors -> Ids \cup {NoId}]
    /\ reg.routes \subseteq [id : Ids, e : Entities, up : BOOLEAN]
    /\ meta.rev \in Nat /\ disk.rev \in Nat /\ Len(before) <= 1
    /\ commit.by \in {"nobody", "reader", "task"}
    /\ task.op \in {"none", "refresh", "down", "up"}
    /\ task.at \in {"none", "ask", "prune", "states", "rows", "metadata", "read", "mark", "mutate"}
    /\ linked \subseteq Sources /\ hushed \subseteq Sources

\* Every index of the registry tells the same story; and an entity is in one device
\* unless a restart found it in two rows.
IndexesAgree ==
    /\ \A t \in reg.routes : reg.ids[t.e] = t.id /\ t.e \in reg.devs[t.id].refs
    /\ \A e \in Entities, d \in Ids : reg.ids[e] = d => e \in reg.devs[d].refs
    /\ ~torn => \A e \in Entities, d \in Ids : e \in reg.devs[d].refs => reg.ids[e] = d
    /\ \A d \in Known(reg) : RoutesOf(reg, d) # {} =>
          reg.devs[d].cap /\ (reg.devs[d].avail <=> \E t \in RoutesOf(reg, d) : t.up)

\* A source has said of an entity of this source device which device it is.
Told(x) == \E g \in named : DeviceOf[g] = x

\* Two entities are one device only when a source said so, of one of the two or of
\* another entity on its source device.
MergedOnlyWhenTold ==
    \A d \in Ids : \A e, f \in reg.devs[d].refs :
        DeviceOf[e] = DeviceOf[f] \/ Told(DeviceOf[e]) \/ Told(DeviceOf[f])

\* A command is routed only to a source that is connected, or whose failure is
\* still to be handled.
RoutesAreLive ==
    \A d \in Ids : LET e == Resolved(reg, d) IN
        e # NoEntity => \/ SourceOf[e] \in linked \cup hushed
                        \/ \E i \in DOMAIN notices : notices[i] = [src |-> SourceOf[e], up |-> FALSE]

RegistryIsCoherent == IndexesAgree /\ MergedOnlyWhenTold /\ RoutesAreLive

\* A plan that is still executable goes to the entity, with the bounds, that it
\* was validated for.
EvidenceIsCurrent ==
    Executable => /\ Resolved(reg, evidence.dev) = evidence.route
                  /\ reg.devs[evidence.dev].max = evidence.max

\* A refresh that ends well leaves memory, the metadata row and the device rows
\* telling the same inventory under its revision, whatever failed before it.
RefreshSettles ==
    task.op = "none" /\ clean =>
        /\ meta.digest = InventoryDigest(reg) /\ (commit.by = "nobody" => disk = meta)
        /\ rows = reg.devs

\* The registry contradicts neither itself nor the sources, plans run against the
\* inventory they were validated against, and a refresh brings all of it together.
InventoryIsSound ==
    InventoryTypeOK /\ RegistryIsCoherent /\ EvidenceIsCurrent /\ RefreshSettles
=============================================================================
