--------------------------- MODULE RuntimeLifecycle ---------------------------
(***************************************************************************)
(* Building, starting and closing the runtimes of one deployment           *)
(* (application/runtime_factory.py, runtime_lifecycle.py,                  *)
(* runtime_ownership.py, mcp/gateway.py).                                  *)
(*                                                                         *)
(* A process builds a runtime stage by stage and may fail, or be           *)
(* cancelled, in any of them; what it had acquired is then released.  A    *)
(* built runtime is started, runs and is closed step by step; a step may   *)
(* raise.  Several processes may be started on one database: the row of    *)
(* runtime_ownership and, with SQLite, an advisory lock keep them apart.   *)
(***************************************************************************)
EXTENDS Naturals, FiniteSets

CONSTANTS
    Procs,      \* processes that run the gateway, one run after another in each
    MaxRaises   \* bound: closing steps that raise, per run

ASSUME LifecycleAssumption == MaxRaises \in Nat /\ "nobody" \notin Procs

VARIABLES
    engine,     \* "sqlite": with an advisory lock; "postgres": several hosts, with a lease
    ownedBy,    \* runtime_ownership: the owner of the active row, or "nobody"
    flockBy,    \* who holds the advisory lock, or "nobody"
    rt          \* process -> its runtime

lifecycleVars == <<engine, ownedBy, flockBy, rt>>

\* at: the stage or the closing step that comes next; way: "build", "run" or "close", or
\* "fail" when a build is undone; has: what has been acquired and not released; link: the
\* adapter is connected; runners: the background tasks run; raised: the steps that raised.
NoRuntime == [at |-> "off", way |-> "off", has |-> {}, link |-> FALSE,
              runners |-> FALSE, raised |-> {}]

LifecycleInit ==
    /\ engine \in {"sqlite", "postgres"}
    /\ ownedBy = "nobody" /\ flockBy = "nobody"
    /\ rt = [p \in Procs |-> NoRuntime]

-----------------------------------------------------------------------------
(* Building: every stage records what it acquired in _PartialRuntimeBuild *)

\* The advisory lock when p has let go of it.
Unlocked(p) == IF flockBy = p THEN "nobody" ELSE flockBy

Is(p, s) == rt[p].way = "build" /\ rt[p].at = s

Become(p, x) == rt' = [rt EXCEPT ![p] = x]
Reach(p, s, what) == Become(p, [rt[p] EXCEPT !.at = s, !.has = rt[p].has \cup what])

Boot(p) ==
    /\ rt[p] = NoRuntime
    /\ Become(p, [rt[p] EXCEPT !.at = "config", !.way = "build"])
    /\ UNCHANGED <<engine, ownedBy, flockBy>>

\* Settings, qualification evidence, bindings; the coordinator of leases.
ResolveConfig(p) ==
    /\ Is(p, "config")
    /\ Reach(p, "compose", IF engine = "postgres" THEN {"coordinator"} ELSE {})
    /\ UNCHANGED <<engine, ownedBy, flockBy>>

\* Work queues, the adapter (not connected yet), the energy providers.
ComposeAdapter(p) ==
    /\ Is(p, "compose")
    /\ Reach(p, "storage", {"queues", "adapter", "energy"})
    /\ UNCHANGED <<engine, ownedBy, flockBy>>

OpenStorage(p) ==
    /\ Is(p, "storage")
    /\ Reach(p, "audit", {"database", "storage", "audit_storage"})
    /\ UNCHANGED <<engine, ownedBy, flockBy>>

OpenAudit(p) ==
    /\ Is(p, "audit")
    /\ Reach(p, "approvals", {"audit_database"})
    /\ UNCHANGED <<engine, ownedBy, flockBy>>

OpenApprovals(p) ==
    /\ Is(p, "approvals")
    /\ Reach(p, "lock", {"approval_database"})
    /\ UNCHANGED <<engine, ownedBy, flockBy>>

\* RuntimeOwnership.acquire: the advisory lock without waiting for it ...
TakeLock(p) ==
    /\ Is(p, "lock")
    /\ engine = "sqlite" => flockBy = "nobody"
    /\ flockBy' = IF engine = "sqlite" THEN p ELSE flockBy
    /\ Reach(p, "row", {})
    /\ UNCHANGED <<engine, ownedBy>>

\* RuntimeOwnershipRepository.acquire: nobody's row is active.
RowFree == ownedBy = "nobody"

\* ... then the row; a conflict releases the lock and fails.
TakeRow(p) ==
    /\ Is(p, "row") /\ RowFree
    /\ ownedBy' = p
    /\ Reach(p, IF engine = "postgres" THEN "lease" ELSE "restore", {"owner"})
    /\ UNCHANGED <<engine, flockBy>>

TakeLease(p) ==
    /\ Is(p, "lease")
    /\ Reach(p, "restore", {"token"})
    /\ UNCHANGED <<engine, ownedBy, flockBy>>

\* Inventory metadata and snapshots are loaded from the database.
RestoreState(p) ==
    /\ Is(p, "restore")
    /\ Reach(p, "connect", {})
    /\ UNCHANGED <<engine, ownedBy, flockBy>>

\* connect and discovery.refresh; without a connection the runtime starts degraded.
Connect(p) ==
    /\ Is(p, "connect")
    /\ \E up \in BOOLEAN : Become(p, [rt[p] EXCEPT !.at = "policies", !.link = up])
    /\ UNCHANGED <<engine, ownedBy, flockBy>>

\* Commissioning report, policies, the services that only hold references.
LoadPolicies(p) ==
    /\ Is(p, "policies")
    /\ Reach(p, "recover", {})
    /\ UNCHANGED <<engine, ownedBy, flockBy>>

\* recover_orphaned_plans and recover_inflight write rows of earlier runtimes.
RecoverRows(p) ==
    /\ Is(p, "recover")
    /\ Reach(p, "reconcile", {})
    /\ UNCHANGED <<engine, ownedBy, flockBy>>

\* reconcile_startup of every latched actuator.
ReconcileActuators(p) ==
    /\ Is(p, "reconcile")
    /\ Reach(p, "services", {})
    /\ UNCHANGED <<engine, ownedBy, flockBy>>

ComposeServices(p) ==
    /\ Is(p, "services")
    /\ Reach(p, "plane", {})
    /\ UNCHANGED <<engine, ownedBy, flockBy>>

\* ConnectionManager.recover attaches the connections that were saved.
RecoverConnections(p) ==
    /\ Is(p, "plane")
    /\ \E up \in {rt[p].link, TRUE} : Become(p, [rt[p] EXCEPT !.at = "bundles", !.link = up])
    /\ UNCHANGED <<engine, ownedBy, flockBy>>

\* recover_orphaned_bundles, the preferences, and the composition takes over.
RecoverBundles(p) ==
    /\ Is(p, "bundles")
    /\ Become(p, [rt[p] EXCEPT !.at = "built", !.way = "run", !.has = rt[p].has \cup {"workers"}])
    /\ UNCHANGED <<engine, ownedBy, flockBy>>

-----------------------------------------------------------------------------
(* A build that fails: every release is attempted, whatever the others did *)

\* The step after each step.
CleanupOrder ==
    [start |-> "adapter", adapter |-> "owner", owner |-> "token", token |-> "coordinator",
     coordinator |-> "queues", queues |-> "energy", energy |-> "storage",
     storage |-> "audit_storage", audit_storage |-> "database", database |-> "approval_database",
     approval_database |-> "audit_database", audit_database |-> "done"]

\* A stage raises, or the build is cancelled.  At "row" the lock is given back at once.
BuildFails(p) ==
    /\ rt[p].way = "build"
    /\ Become(p, [rt[p] EXCEPT !.at = CleanupOrder["start"], !.way = "fail"])
    /\ flockBy' = IF rt[p].at = "row" THEN Unlocked(p) ELSE flockBy
    /\ UNCHANGED <<engine, ownedBy>>

-----------------------------------------------------------------------------
(* Running and closing *)

Start(p) ==
    /\ rt[p].way = "run" /\ rt[p].at = "built"
    /\ Become(p, [rt[p] EXCEPT !.at = "running", !.runners = TRUE])
    /\ UNCHANGED <<engine, ownedBy, flockBy>>

\* A runner connects the adapter again, or finds it gone.
LinkChanges(p) ==
    /\ rt[p].runners /\ rt[p].way \in {"run", "close"}
    /\ Become(p, [rt[p] EXCEPT !.link = ~rt[p].link])
    /\ UNCHANGED <<engine, ownedBy, flockBy>>

CloseOrder ==
    [start |-> "executor", executor |-> "lifecycle", lifecycle |-> "supervisor",
     supervisor |-> "mqtt", mqtt |-> "adapter", adapter |-> "owner", owner |-> "token",
     token |-> "coordinator", coordinator |-> "queues", queues |-> "workers",
     workers |-> "energy", energy |-> "storage", storage |-> "audit_storage",
     audit_storage |-> "database", database |-> "approval_database",
     approval_database |-> "audit_database", audit_database |-> "done"]

\* close(): all callers share one task.  Called when GatewayApplication could not be
\* composed (gateway.py:495), could not be started, or stops serving.  An exception in
\* build_configured_server after build_runtime (configured.py:89-212) closes nothing: the
\* runtime ends with its process and the row stays, which is Kill here.
AskClose(p) ==
    /\ rt[p].way = "run"
    /\ Become(p, [rt[p] EXCEPT !.at = CloseOrder["start"], !.way = "close"])
    /\ UNCHANGED <<engine, ownedBy, flockBy>>

Order(p) == IF rt[p].way = "fail" THEN CleanupOrder ELSE CloseOrder

\* Mutant: the runtime goes on releasing although its runners may still run.
RescueAlways(p, s) == Order(p)[s]

\* Where _close_impl goes on when step s raises; _close_partial_runtime_build goes on in any case.
Rescue(p, s) ==
    IF rt[p].way = "fail" THEN CleanupOrder[s]
    ELSE CASE s = "mqtt"                      -> "adapter"
           [] s \in {"supervisor", "adapter"} -> "owner"
           [] s = "token"                     -> CloseOrder[s]
           [] OTHER                           -> "done"

\* p is in a list of steps.
Closing(p) == rt[p].way \in {"fail", "close"} /\ rt[p].at # "done"

\* The step was done.
CloseStep(p) ==
    LET s == rt[p].at IN
    /\ Closing(p)
    /\ Become(p, [rt[p] EXCEPT !.at = Order(p)[s], !.has = rt[p].has \ {s},
                               !.runners = rt[p].runners /\ s # "lifecycle",
                               !.link = rt[p].link /\ s # "adapter"])
    /\ IF s = "owner" /\ "owner" \in rt[p].has
       THEN ownedBy' = (IF ownedBy = p THEN "nobody" ELSE ownedBy) /\ flockBy' = Unlocked(p)
       ELSE UNCHANGED <<ownedBy, flockBy>>
    /\ UNCHANGED engine

\* The step raised, or the closing task was cancelled in it.  The lock is released even
\* when the row was not.
CloseRaises(p) ==
    LET s == rt[p].at IN
    /\ Closing(p) /\ Cardinality(rt[p].raised) < MaxRaises
    /\ s \in rt[p].has \cup {"executor", "lifecycle", "supervisor", "mqtt"}
    /\ Become(p, [rt[p] EXCEPT !.at = Rescue(p, s), !.raised = rt[p].raised \cup {s}])
    /\ flockBy' = IF s = "owner" THEN Unlocked(p) ELSE flockBy
    /\ UNCHANGED <<engine, ownedBy>>

\* Only when the cleanup is over does the process end, however often it is interrupted
\* before: build_runtime, close and _close_gateway_safely wait for the task.
Exit(p) ==
    /\ rt[p].at = "done"
    /\ Become(p, NoRuntime)
    /\ flockBy' = Unlocked(p)
    /\ UNCHANGED <<engine, ownedBy>>

\* The process is killed: the row stays.
Kill(p) ==
    /\ rt[p].way # "off"
    /\ Become(p, NoRuntime)
    /\ flockBy' = Unlocked(p)
    /\ UNCHANGED <<engine, ownedBy>>

\* domoai-admin runtime release-stale-owner, for a SQLite file whose lock is free.
FreeStaleRow ==
    /\ engine = "sqlite" /\ flockBy = "nobody" /\ ownedBy # "nobody"
    /\ ownedBy' = "nobody"
    /\ UNCHANGED <<engine, flockBy, rt>>

LifecycleNext ==
    \/ FreeStaleRow
    \/ \E p \in Procs :
         \/ Boot(p) \/ ResolveConfig(p) \/ ComposeAdapter(p) \/ OpenStorage(p) \/ OpenAudit(p)
         \/ OpenApprovals(p) \/ TakeLock(p) \/ TakeRow(p) \/ TakeLease(p) \/ RestoreState(p)
         \/ Connect(p) \/ LoadPolicies(p) \/ RecoverRows(p) \/ ReconcileActuators(p)
         \/ ComposeServices(p) \/ RecoverConnections(p) \/ RecoverBundles(p) \/ BuildFails(p)
         \/ Start(p) \/ LinkChanges(p) \/ AskClose(p) \/ CloseStep(p) \/ CloseRaises(p)
         \/ Exit(p) \/ Kill(p)

LifecycleSpec == LifecycleInit /\ [][LifecycleNext]_lifecycleVars

-----------------------------------------------------------------------------
(* Properties *)

LifecycleTypeOK ==
    /\ ownedBy \in Procs \cup {"nobody"} /\ flockBy \in Procs \cup {"nobody"}
    /\ \A p \in Procs : /\ Cardinality(rt[p].raised) <= MaxRaises
                        /\ rt[p].way \in {"off", "build", "fail", "run", "close"}

\* Stages in which a runtime writes what the one before it left.
Recovers(p) == \E s \in {"recover", "reconcile", "services", "plane", "bundles"} : Is(p, s)

\* Exclusion: a runtime that recovers rows, or whose runners run, owns the deployment,
\* and so does one with a connected adapter, unless closing the adapter, or the step
\* before it, raised.  Tidiness: a build that failed leaves behind only what could not be
\* released; a close that raised nothing leaves nothing; and neither leaves a row that
\* claims the deployment, unless releasing it raised or the close was cancelled before.
RuntimeIsTidy ==
    /\ \A p \in Procs :
         /\ Recovers(p) \/ rt[p].runners => "owner" \in rt[p].has /\ "owner" \notin rt[p].raised
         /\ rt[p].link => \/ "owner" \in rt[p].has
                         \/ rt[p].raised \cap {"supervisor", "adapter"} # {}
         /\ "owner" \in rt[p].has \ rt[p].raised =>
              ownedBy = p /\ (engine = "sqlite" => flockBy = p)
    /\ \A p \in Procs : rt[p].at = "done" =>
         /\ rt[p].way = "fail" => rt[p].has \subseteq rt[p].raised
         /\ rt[p].raised = {} => rt[p].has = {} /\ ~rt[p].runners /\ ~rt[p].link
         /\ "owner" \in rt[p].has => rt[p].raised \cap {"owner", "executor", "lifecycle"} # {}
=============================================================================
