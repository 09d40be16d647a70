# DomoAI: TLA+ verification project

DomoAI is a home-automation runtime. An agent drafts *plans* (ordered device commands)
through MCP tools; policy, safety and approval services decide whether a plan may run; an
executor sends its commands to device adapters and records what happened. A plan may run at
once, at a later time, on a recurring schedule, on an event, or as a member of a *bundle*
committed as a whole. A household may have one host or several, of which a lease elects one.

What is hard here is never a single function. It is what is left when two of them overlap: a
command must reach a device at most once and only with authority, and the durable record
must tell the truth about it, through crashes, lost leases, cancellations, retries, lost
answers and storage faults. That is what the modules model, the runs check and the
theorems prove. Paths below are relative to `src/src/domoai/`.

`tlc -config X.cfg MCModule` repeats a run, `tlapm XProofs.tla` a proof. `PROJECT.json` holds the
components, runs, mutants, the map from definitions to source lines, findings, hazards and
theorems.

## 1. The system and its modules

Every component of the repository is listed in `PROJECT.json`, also the ones left out.
The modules fall into five groups, in the order in which a command meets them.

| Group | Module | Code | Keeps |
|---|---|---|---|
| what to act on | `DeviceInventory` | `runtime/registry.py`, `application/discovery_service.py`, `application/plan_service.py` | canonical devices, routes, inventory revision, a plan's evidence |
| | `StateIngest` | `runtime/state_store.py`, `application/event_consumer.py`, `runtime/composite_adapter.py` | event queues, snapshots in memory and on disk, their versions |
| | `ManagedAdapters` | `runtime/managed_adapter_set.py`, `application/connection_manager.py` | a connection's row, its adapter objects, pump, cleanup list |
| | `ConnectionSecrets` | `application/connection_manager.py`, `persistence/connection_repository.py`, `security/secrets.py` | credential files, transfer rows, profiles |
| who may act | `ApprovalGrants` | `runtime/approval_store.py`, `ApprovalGrantRepository`, approval paths of `mcp/domotics_server.py` | grants, reservations, receipts, delivery permits, revocations |
| | `ResidentConsent` | `management/consent.py`, `mcp/consent_review_source.py` | sessions, challenges, the pinned observation, decisions |
| | `SkillWorkflow` | `skills/workflow.py` | one run of the energy skill, its bundle, approval and result |
| when to act | `ScheduledPlans` | `application/scheduler.py`, `application/bundle_commit.py`, `application/execution_admission.py`, three tools | schedule rows, bundle record, reservation, copies held in memory |
| | `RecurringSchedules` | `application/recurrence.py`, `run_due_recurring` | standing schedules, occurrences, local time |
| | `LocalAutomation` | `application/local_automation.py` | rules with versions, claims, action plans |
| acting | `PlanExecution` | `application/executor.py`, `application/recovery.py`, `persistence/coordination.py` | hosts, lease, ledger, plan rows, every await of an attempt |
| | `PlanLifecycle` | abstract: what a caller of the executor may rely on | status and effect of each plan |
| | `ControlTakeover` | `runtime/control_takeover.py` | leases over a latched actuator, emergency stops |
| | `HouseholdQueue` | `application/household_queue.py` | the bounded lanes in front of the adapters |
| what carries it | `EtcdLease` | `application/etcd_coordination.py`, `application/coordination.py` | lease and epoch keys, requests in flight |
| | `LeaseService` | abstract: one lease at a time, no epoch twice | the current and the last epoch |
| | `RuntimeLifecycle` | `application/runtime_factory.py`, `application/runtime_lifecycle.py` | stages of a build, what is acquired, ownership row and lock |
| | `BackupRestore` | `persistence/backup.py`, `application/runtime_ownership.py` | database files and logs, archives, lock, rollback directories |
| | `StorageBoundary` | `persistence/serialized.py` | slots, queue, the storage thread, callers |
| | `AuditOutbox` | `persistence/audit_outbox.py`, `AuditEventRepository` | outbox rows, leases, batches |

How they meet. The tools, scheduler, saga and recovery call the executor; the executor asks
admission, approvals, takeover and the queue, and writes plan and ledger rows. All of them go
through the storage boundary, whose one thread makes a repository method one transaction;
so a repository call is one step in every module, and each await around it is a place where
anything else may happen. `ScheduledPlans` keeps of the executor what its callers see (claim,
call, settlement); `PlanExecution` keeps of the takeover what a plan's outcome needs;
`RecurringSchedules` and `LocalAutomation` keep execution as a claim and a dispatch.

The *not modelled* parts: the optimizer (a constraint solver over real-valued forecasts), the
device adapters (protocol I/O, represented by the answers a call may have), the management
API and UI, the remaining MCP tools, configuration, administration, repair suggestions, the
laboratory. Policy and safety evaluation are functions of a plan and a snapshot: their result
is a free choice of acceptance or refusal wherever the code asks for it. PostgreSQL dumps
and migration, encryption of archives, commissioning, areas, cursors of ordered sources,
client token files and `import_legacy` are left out of components that are modelled in part.

## 2. What each module does

**PlanExecution.** A host goes through `StartHost`, `RecoverPlans`, `RecoverIntents`, serves, and leaves by
`Crash` or by `CloseHost` and `CloseDone`. An attempt (one `execute()` call) goes through `Admit`,
`Claim`, `Preflight`, `Takeover`, then per command `PrepareCommand`, `Dispatch`, `Fence`, `ClaimIntent`,
`Send`, `Answer`, `SettleAck`, `Readback`, `RecordOutcome`, and ends by `FinishLoop` and `SettleExecution`, or by
`HandleException`. `CancelCall` may happen anywhere. A settlement that fails leads to the exception
path, whose own `mark_unknown_if_executing` may fail too: that is caught and audited, and leaves
the plan EXECUTING (`adrift`) until the recovery of a later start, because recovery spares the
epoch of its own runtime (`application/recovery.py:58`). Ghost state is what an observer at the
adapter sees (`calls`, `reply`, `writer`, `stale`). With `Fenced = FALSE` there is no lease and no
ledger, as on a single host; with `DurablePlans = FALSE` no plan repository. READY and APPROVED
are one claimable status; `rowLapsed` is the persisted `expires_at` having passed; the
emergency stop of a takeover is not counted as a call of the plan.

**PlanLifecycle** says what all that machinery is for: a plan is begun once, each command
reaches the adapter at most once and only after that, the plan is settled once, with a
status that tells; only UNKNOWN may leave a call on its way. `PlanExecution` implements it.

**ScheduledPlans.** The tasks are the scheduler loop (`S...`; `Rec...` for the recovery after each sweep
and start), one saga (`Commit...`), one tool call at a time (`Tool...`), and per caller an execution
(`Exec...`). An execution settles its plan and returns its outcomes; the plan is UNKNOWN, with every
outcome confirmed, when it held a latch whose release is unconfirmed (`application/executor.py:1041`).
The model lets any plan do so, also one that latches nothing. Record and gate go by the
outcomes, the schedule row by the plan's status. `rCopy` and `cCopy` are the copies of the bundle record that recovery and saga hold
between reading and saving. One bundle, all of whose members need grants. Digests, nonces,
stale evidence and expiry are the free refusal `ExecRefused`. A graceful shutdown is a crash.
`Tick` waits for the saga's resumption after its transaction: a unit of model time is longer.

**RecurringSchedules.** Creation, revival and cancellation of a schedule, the sweep over a
listed snapshot, expiry, evidence, execution in three steps, advance. Time is counted in slots
of a local day; the zone changes its offset once, forward or back, and `next_occurrence` is
modelled with both.

**LocalAutomation.** The event consumer and the scheduler each work through a list of rules
they read when they began; rules are edited, disabled and replaced meanwhile; an event may
come again, late or after a younger one. Trigger expressions are a free match.

**ApprovalGrants.** Issuing, revoking and preparing a delivery read in one transaction and
write in another, so each is two actions; consuming, reserving and committing are
one. A failing call undoes in two (`CancelRecord`, `ReleaseHold`), a schedule in this order, a
recurrence in the other, a rule by the release alone; each may raise, after part of its work, and
the call is then `stuck`. A delivery may name a reservation, which it commits. Identities may
collide: two issuers of one nonce, a request id used for two decisions, two calls under one
reservation. Nothing is fair, so a crash after any transaction is included.

**ResidentConsent.** A request awaits twice (plan, preferences); everything after the second
read is one action. The pinned observation, the digest that binds a challenge to what was
shown, sessions and deadlines on two clocks, one of which may be set back.

**SkillWorkflow.** `run()` and overlapping `resume()` calls, every tool call of which may fail,
answer nonsense or lose its answer after it took effect, and each of which may be cancelled at
any await: no handler takes a `CancelledError`, so nothing is stored. The runtime is external.

**DeviceInventory.** Upserts, merges, removal and availability of the registry; a refresh whose
sources fail; revision and fingerprint beside other writers of the state store; device rows;
validation of a plan and what it keeps as evidence. An entity offers one capability, `max`
stands for its metadata. `MaxSuffix` bounds the numbers a clashing canonical id may get. `torn`
remembers that rows written one at a time came to disagree (section 6), `Told` what the sources
have said about which entities belong together.

**StateIngest.** Events are coalesced, dropped when the queue is full, overtaken by readbacks, lost
with the link; a snapshot is committed as a candidate (compute, write, install) under the
mutation lock, with failing writes, cancelled callers and restarts. A write that times out is
given up by its caller and may land later (`late`), before any write that is queued after it; the
points it wrote are `astray` until they are written again, and `muddled` for good if a restart
reads them first. Changes of the world are
numbered, so a value is right exactly when it is the number of the last change.

**ManagedAdapters.** One connection: activate, replace, reconfigure, disable and delete, each
await of which may fail or be cancelled, detach included (`DetachCancelled`: the child stays, with
its pump or, `muted`, without it), beside a subscriber that opens and closes its stream
and a pump that reconnects.

**ConnectionSecrets.** A transfer is prepared, published, adopted; discarded when a step fails;
resolved by a later list when storage did not answer. Every repository call may succeed, fail,
take effect and lose its answer, or be left by a cancelled caller.

**ControlTakeover.** One actuator that stays on until it is stopped: acquisition, dispatch, stop
with readback, supervision, release, restart. No adapter of the repository renews a lease.

**HouseholdQueue**, **StorageBoundary**, **AuditOutbox.** Bounded FIFOs with cancelled callers, timeouts,
workers that leave, closing, callers cancelled before they are admitted, and (outbox) leases that run out under their holder.

**EtcdLease** implements **LeaseService**: each request is tried at one endpoint after another and may be
answered, fail, take effect without an answer, or take effect later.

**RuntimeLifecycle** builds a runtime stage by stage, fails or is cancelled in any, starts, closes step
by step with steps that raise, exits, is killed. An exception in `build_configured_server` after
`build_runtime` returned (`mcp/configured.py:89-212`) closes nothing; the process ends with its row
active, as after `Kill`. **BackupRestore** copies and replaces the files under such runtimes.

Steps that the code takes in several awaits and a module takes in one, because no property can
tell: `ReleaseStale` (opens the database before the lock, closes it after), `UndoMember` (main file
and log), `SetStatus` of a rule (get, then set), `Release` of an etcd lease (validate, then revoke).
`Supervise` reads an entry fresh where `supervise_once` works on a list it copied; `TakeNotice` has one of the
two `_connected.discard` of a failing source; the set of configured sources is fixed, so
`Reconciled` has no references to sources that are no longer configured.

## 3. Runs

State counts are distinct states. Three runs hold several modules that share no variable:
`focus`, chosen in the initial state, names the one whose behaviours are explored while the
others rest. This loses nothing: each property is about one module's variables, the steps of
the others do not change them, and every behaviour of that module is explored under its own
focus. Deadlock checking is off because every instance may come to rest: its starts, time,
calls or troubles used up and nobody calling.

| Run | Instance | Properties |
|---|---|---|
| `execution_failover` | 2 hosts, 2 epochs, 1 attempt, 2 commands, fenced | `TypeOK`, `DeposedHostStops`, `ImplementsLifecycle`, `EvidenceIsFinal`, `RecoverySparesTheLiving` |
| `execution_progress` | 2 hosts, 3 epochs, 1 attempt, 1 command, fenced, fair | `ExecutionSettles` |
| `execution_ledger` | 2 hosts, 2 plans, 2 attempts, one shared key, no plan repository | `AtMostOneWrite`, `LedgerIsHonest` |
| `single_host` | 1 unfenced host, 2 attempts, 2 commands, the first latched; 2 orders for one actuator; 3 entities of 2 sources | `OneExecutorPerPlan`, `VerdictIsHonest`; `LatchIsKnown`, `LeasesEnd`; `InventoryIsSound` |
| `bundle_saga` | 2 chained members at times 2 and 3, grace 1, time to 5, 1 crash, grants expire or are revoked, fair | `TypeOK`, `MembersAreConfirmed`, `AuthorityPrecedesEffect`, `RowIsHonest`, `RowSettles`, `BundleSettles` |
| `schedule_contention` | 1 plan, all three tools and a bundle of it, 1 crash; 2 nodes and 2 leases; 2 processes; 1 archive, 2 runtimes and 2 restores; proposals of 1 to 3 plans | `DispatchedOnce`; `ImplementsLeaseService`; `RuntimeIsTidy`; `FilesAreSafe`; `WorkflowIsFaithful` |
| `services` | 3 items in 2 households; 2 schedules over a clock change; 2 events, 2 dispatchers; 3 storage calls, capacity 1; fair | `ServicesTypeOK`; `WorkIsTended`, `QueuedWorkIsDone`; `OccurrencesAreExact`, `DueIsHandled`; `DeliveryIsAccounted`, `EventsAreDelivered`; `CallersAreAccounted`, `EveryCallEnds` |
| `stores` | 3 issuers, 7 calls in five teams, 2 revokers; 2 rules; 2 points under four budgets; 2 transfers; 3 adapter objects; 2 sessions; 1.5 M | `StoresTypeOK`; `LedgerKeepsItsWord`; `RuleActsSparingly`; `ValuesAreHonest`; `SecretsAreAccounted`; `ConnectionsAreSound`; `ConsentIsInformed` |

Why the bounds are enough to make the case happen: two commands for a lease lost between
them, two epochs for an old owner and a new one, three items for one more than fits, times
2 and 3 so that a bundle is committed before, between or after them, two fault credits where
a failure must meet a failed repair, one assertion and one request shared by two issuers, two
dispatchers for a lease that runs out under its holder, three epochs for a plan left adrift by one
runtime and settled by the next. Two instances are the union of smaller ones, so that each mix of
troubles is explored to its end: `Teams` says which issuers and calls arrive together (one is a
schedule beside a delivery under its reservation, one two retries of a recurrence), `Budgets` how
many changes, ticks, readbacks, lost links, failed writes and restarts the state store sees (one
is three readbacks with a failed write and a restart). Whatever the bounds leave open, the
theorems of section 5 do not.

`bundle_saga` runs `BundleSpec`, a household in which nobody calls a tool on a plan of the
bundle. With `schedule_plan` or `execute_plan` used on a member of a bundle still to be
committed, `MembersAreConfirmed`, `AuthorityPrecedesEffect` and `RowIsHonest` do not hold: the
code has no reason to refuse. `schedule_contention` has those tools and shows `DispatchedOnce`.

Each property has a mutant: a definition of the model changed the way a slip in that code
would change it, for which TLC finds the property violated. Mutated definitions stand before
the original, marked "Mutant".

### Violations

Four runs check one property that a comment or document states, and end in a counterexample.

| Run | Property | What happens |
|---|---|---|
| `execution_periodic_recovery` | `RecoverySparesTheLiving` | Without fencing, `reconcile` (`application/recovery.py:61`) takes every EXECUTING plan for an orphan, also after each sweep. A plan whose attempt is alive becomes UNKNOWN and its result is lost. The verdict stays honest, which is why `single_host` passes. |
| `bundle_restart` | `RuntimeComesUp` | After a revocation, `commit_reservation` raises in bundle recovery inside `build_runtime` (`application/runtime_factory.py:1892`), at every start. |
| `schedule_cancel` | `CancelledPlanNeverActed` | `cancel_scheduled_plan` cancels a plan that is executing and has been sent (`application/scheduler.py:106`). |
| `latched_actuator` | `LatchNeverOutlivesLease` | Acquiring for another plan marks a lease that ran out EXPIRED; neither release nor supervision stops the actuator then (`runtime/control_takeover.py:190`). |

## 4. Fairness

Liveness rests on weak fairness of single steps only.

- Steps of a started task (`Step(a)`, `Sched`, `Saga`, `Tool`, `Exec(c)`, `Worker(h)`, `Wakeup(i)`, `SweepStep`,
  `DispatchStep(d)`, `WorkerStep`, `CallerStep(o)`): the event loop runs every ready task, the storage
  thread every queued call, and adapter calls are bounded by a timeout.
- `Sweep`, periodic recovery, `Supervise`: the loops catch exceptions and sleep between rounds, forever.
- `Tick`, `TakeoverTick`, `LapseRow`, `LeaseEnds`: clocks advance. `DeadLeaseExpires`: etcd drops the
  lease of a host that is gone.
- `Restart`, `RestartHost`, `StartHost`: `deploy/compose.yaml` has `restart: unless-stopped`.
  `DeadOwnerReleased`: an administrator clears the ownership row of a dead host; without that no
  host can start, so it is an assumption on operations and not on the code.
- Not fair: calls of clients, cancellations, crashes, faults, lease loss of a live host, revocations.

`RowSettles` and `BundleSettles` are claimed while the grants are valid; `bundle_restart` shows why.
In `PlanExecution` the incarnation that uses the last start neither crashes nor closes
(`LastStart`); otherwise the bound on starts, and not the code, would leave plans unsettled.
`ExecutionSettles` excuses a plan that the failing settlement of the current epoch left adrift
(`AwaitsNextStart`): a living fenced runtime never settles it. The excuse ends with the next start.

## 5. Proofs

The theorems hold for every value of the constants that satisfies the named assumptions:
any number of hosts, plans, calls, points, objects, processes, and any bound on time, faults
and troubles. Bounds of the model (`MaxTrouble` and the like) are constants, so they are
quantified away too.

| Module | Theorem | States | Along |
|---|---|---|---|
| `PlanExecutionProofs` | `TypeCorrect` | `TypeOK` | `TypeInv`: a running attempt has a host, a plan, a command in range, a terminal verdict when it settles |
| | `AdapterCalledOnce` | `AtMostOneWrite` | `LedgerInv`: who holds an intent is the row's claimant; between claim and send the key is unwritten |
| | `DeposedHostBounded` | `DeposedHostStops` | `LeaseInv`: no token exceeds the epoch, so a lost lease never comes back; who wrote stale is past its fence |
| | `PlanClaimedOnce` | `OneExecutorPerPlan` | `ClaimInv`: a claimed plan is no longer claimable and carries its claimant's epoch |
| | `EvidenceNeverRewritten` | `EvidenceIsFinal` | `TypeInv` |
| | `RecoveryIsFenced` | `RecoverySparesTheLiving`, under `Fenced` | recovery closes only epochs older than its own, and the newest is the live one's |
| | `LedgerNeverLies` | `LedgerIsHonest` | `LedgerInv` and `RowsHonest`: what each place of an attempt knows of row and reply |
| `PlanLifecycleProofs` | `LifecycleImplemented` | `ImplementsLifecycle`, under `Fenced`, `DurablePlans` | `AllInv` (the parts above); each action maps to a step of `PlanLifecycle` or a stutter |
| | `StatusIsHonest` | `VerdictIsHonest`, under the same | `AllInv`: what a terminal status tells of the effects |
| `ScheduledPlansProofs` | `PlanDispatchedOnce` | `DispatchedOnce` | `OnceInv`: a READY plan is untouched, an execution past its claim is alone with its plan; all steps but claim and send are `Sober` |
| | `ScheduleTypesKept` | `TypeOK` | typing of rows, record and both copies |
| `BundleSagaProofs` | `EffectsAreAuthorised` | `AuthorityPrecedesEffect` | where saga, sweep and recovery stand tells what the reservation is |
| | `MembersWaitForPredecessors` | `MembersAreConfirmed` | confirmed outcomes never change, so every stale copy of the record stays right about them |
| | `RowsTellTheTruth` | `RowIsHonest` | what the scheduler has seen of a plan at each place of its sweep |
| `ControlProofs` | `ActuatorIsKnown` | `LatchIsKnown` | what each place of an order and of a stop implies for power and entry |
| | `InventoryStaysSound` | `InventoryIsSound` | `InventoryInv`: what holds of a registry halfway through a snapshot too (`RegistryOK`), which identities may lead to one device (`MergesTold`), whom a route may reach, how far a clean refresh has come (`Settling`) |
| `HostsProofs` | `LeaseServiceImplemented` | `ImplementsLeaseService` | `EtcdInv`: record, transactions in flight and tokens name leases of distinct, counted epochs |
| | `RuntimesAreTidy` | `RuntimeIsTidy` | `LifecycleInv`: each stage of a build or close tells what is held |
| | `FilesStaySafe` | `FilesAreSafe` | `RestoreInv`: sources, targets, processes and rollback directories at each place of a restore |
| | `SkillKeepsFaith` | `WorkflowIsFaithful` | `SkillInv`: each plan of a bundle waits for the last one before it on each device; `ChainReaches` follows that back to any earlier plan on the device; what was sent was sent by a call that executes, has consumed the run, or was cancelled |
| `ServicesProofs` | `StorageIsAccounted` | `CallersAreAccounted` | slots as a cardinality over operations, those lost to callers cancelled while they asked included |
| | `QueuedWorkIsTended` | `WorkIsTended` | counts as cardinalities; each waiting item is in one queue, once |
| | `DeliveriesAreAccounted` | `DeliveryIsAccounted` | `OutboxInv`: batches hold their rows or have lost them; acceptances are bounded by excuses |
| | `OccurrencesStayExact` | `OccurrencesAreExact` | `RecurringInv`: rows and listed entries hold instants of their rule, what was dispatched is on record and was due; on the way, that the next occurrence is the first one (`NextIsFirstHolds`) |
| | `ServicesStayTyped` | `ServicesTypeOK` | `ServicesInv`: the invariants of the four services and `RecurringBounds`: no row looks further ahead of the last moment modelled than the days searched and a change of the clocks (`Horizon`) |
| `StoresProofs` | `RulesActSparingly` | `RuleActsSparingly` | `AutomationInv`: a claim of the stored version is no later than its last firing |
| | `SecretsStayAccounted` | `SecretsAreAccounted` | `SecretsInv`: what caller and row say of each other, so that no lister discards under a writer |
| | `ConnectionsStaySound` | `ConnectionsAreSound` | `AdaptersInv`: what each place of an operation implies for row, child, links and pump, and which child a cancelled detach left without its pump |
| | `LedgerKeepsFaith` | `LedgerKeepsItsWord` | `ApprovalInv`: grants, reservations, permits, receipts and revocations tell of one another, and who answers for a record at each place of an undo |
| | `ValuesStayHonest` | `ValuesAreHonest` | `StateInv`: versions are counted, names tally with memory, candidate, disk, late writes and the snapshots of before the restart; whatever may still be written agrees with memory at all other points; readings on their way are fresh |
| | `DecisionsStayInformed` | `ConsentIsInformed` | `ConsentInv`: what page, pinned observation and read in progress tell of one another, and that reads of one session do not overtake each other |
| | `StoresStayTyped` | `StoresTypeOK` | `StoresInv`: the six invariants and the bounds of each store, among them `QueueTallies`: the bulk queue of `CompositeAdapter` lists exactly the points with a reading pending, each once, and a reading is dropped before it is queued when as many are pending as fit, which is why its `put_nowait` never finds it full (the queue of `ManagedAdapterSet` is another, see section 6) |

None of the checked properties is inductive as it stands. `AtMostOneWrite` says nothing about
what an attempt between claim and send may assume; `StoreIsCoherent` nothing about the candidate
that is about to be installed. The strengthening is always of one kind: for each place a task
may be suspended at, what it has read that is still true, and who else can change it. Each
proof then has one lemma per action, most of which touch one part of the invariant; the
rest is framed.

Two arguments go over data. That two plans on one device are chained however many plans lie
between them (`ChainReaches`) would be an induction over the bundle, which the provers cannot
instantiate; it is given as a least counterexample instead (`LeastNatural`, from the
well-foundedness of the naturals): the first plan on the device after plan `i` that the later
one waits for has its own last predecessor on the device, which can only be `i`. In the same way
`UpsertedKeeps` carries `RegistryOK` and `MergesTold` over the entities of a snapshot, and
`FoldExists` shows that the recursive function which applies them exists.

`OccurrencesStayExact` rests on calendar arithmetic: a candidate stays on its day and is the
reading of its instant, a weekday of the rule comes within seven days, and outside the second
pass of a fall-back hour comparing local readings compares instants. It assumes of a time zone
(`ZoneAssumption`) that a gap stays within its day and both offsets are within a day of UTC, as `tzinfo.utcoffset` demands; with a whole day skipped, as in Samoa in
2011, the statement is false.

`BundleSagaProofs` has the hypothesis that clients only cancel (`Tools \subseteq {"cancel"}`),
because with the other tools the three statements are false (section 3).

Assumptions on constants are named (`KeyAssumption`, `MembersAssumption`, `ApprovalAssumption`,
`StateAssumption`, ...) and say what validation enforces (a plan's commands have distinct keys,
predecessors are earlier members) or that a placeholder is not a member. TLC evaluates them in
every run of their module.

### Only model-checked

- Liveness (`ExecutionSettles`, `LeasesEnd`, `RowSettles`, `BundleSettles`, `EveryCallEnds`, `DueIsHandled`,
  `EventsAreDelivered`, `QueuedWorkIsDone`): fairness and `ENABLED` are outside the prover.

## 6. Observations

Met while modelling, without a run of their own. Each is excluded explicitly in the property
it touches (a history variable, or a condition) and never by leaving the behaviour out.

- **Bundles.** Recovery and saga save whole records without a compare-and-set, so a settled member
  may be rewritten, while `persistence/repositories.py:1973` says "A conflicting second settlement is not
  allowed to rewrite the fulfillment ledger." `MembersAreConfirmed` bounds the damage.
  A member whose plan is UNKNOWN because its release was unconfirmed counts as EXECUTED, and its
  successors run: the gate asks for outcomes only (`application/scheduler.py:356-379`).
- **Execution.** When storage fails in the exception path as well, the plan stays EXECUTING, on a fenced host
  as long as that host lives (`application/executor.py:1121-1128`).
- **Consent.** A recurrence and a rule of the same name share one reservation id
  (`mcp/domotics_server.py:1669`, `:1804`). A failing retry of `schedule_plan` cancels the schedule of another
  call with its reservation id. A rule is registered ENABLED before its reservation is committed
  (`:1821`). Neither recurrences nor rules look at revocations when they fire.
  The undo of `schedule_recurring_plan` releases first and cancels second
  (`:1698-1702`): a cancel that raises leaves an active recurrence whose grant was given back. That of
  `schedule_plan` cancels first (`:1291-1295`): one that raises leaves the schedule active and the grant held.
  `commit_reservation` succeeds when nothing is reserved under its id. A delivery prepared under a
  reservation consumes the grant that the record created under it relies on too; nothing in the
  repository calls `ApprovalStore.prepare_delivery` yet.
  With a wall clock set back unnoticed, a grant issued after a review may count as reviewed.
- **State.** The proxy of the state's persistence does not drain (`application/runtime_factory.py:1328-1330`),
  so a write that times out is rolled back in memory and lands afterwards. Disk then holds a value
  memory never had, until the point is written again. If another point is written first, that
  write saves the old versions of all points, and after a restart the first reading equal to the
  late value is confirmed under the old version: one version names two values. A row of
  a late write may also be without a version; it gets a new one at the restart. After a source was lost, an older queued event can make a snapshot CURRENT while the link is
  down. The inventory's revision and fingerprint are set outside the store's mutation lock, so a
  readback whose candidate is older puts the old ones back until the next refresh
  (`runtime/state_store.py:201-211`); `InventoryIsSound` speaks of refreshes nobody overtook (`clean`). A registry keeps the old metadata of a source that updates a capability
  to which another source contributes too.
- **Registry.** Device rows are saved one at a time. After a refresh that failed between two of them
  an entity may stand in the rows of two devices; `load_persisted` (`runtime/registry.py:36-66`) routes
  it to the last one, while the other keeps it among its `source_refs`. A merge that names an
  entity also takes the other entities of its source device along.
- **Adapters.** `ManagedAdapterSet` marks a key pending before `put_nowait` (`runtime/managed_adapter_set.py:272`):
  a full queue leaves it pending with no entry, and later readings of it are never delivered. A detach cancelled at its lock or while
  the pump it cancelled ends (`:163-167`) leaves the child published and online without its pump, and a
  disabled row above it. A
  stream opened while `replace` awaits the old child's disconnect starts a pump for the old object.
  A failed or cancelled replacement marks a working child unavailable, or leaves it without pump.
  A disconnect that raises after publication restores the old row over the new runtime.
- **Secrets.** A failing `import_legacy` deletes credentials of profiles already saved. An unresolved
  reauthentication whose profile is deleted makes `list()` raise until the next start.
- **Takeover.** Two plans that await `acquire_control` together both get ACQUIRED. The supervisor's
  interval (a quarter of the lease) exceeds its margin (a fifth).
- **Recurrence.** In the second pass of a fall-back hour the docstring of `next_occurrence` is false.
  Cancelling does not stop an occurrence that the sweep has listed.
- **Runtime.** `executor.close()` and `lifecycle.close()` are outside the `try` of `_close_impl`: a second signal skips
  every release. Databases are opened before ownership is taken and closed after it is released,
  so a restore may replace files that are open. A restore that is killed between two members
  leaves a mixed directory, with its rollback copy, which the next runtime does not notice.
- **Lease.** `expires_at` is computed from a clock read after the grant, so the local expiry lags the
  server's; the read of the key in `validate` is what protects. A retried transaction that took
  effect makes `acquire` fail and give its lease back.
- **Skills.** Overlapping `resume()` calls have no mark of progress: the later answer overwrites the
  consumed result, so a completed run may be reported failed. A `resume()` cancelled after its request
  went out leaves the run AWAITING_APPROVAL (`skills/workflow.py:773`, `:962`): it may be resumed again, and a
  refusal then stores CANCELLED although the runtime may carry the bundle out.
- **Storage.** A caller cancelled at `await to_thread(_acquire_slot)` (`persistence/serialized.py:121`) leaves a thread
  that takes a slot nobody gives back; once as many are lost as there are, every call is overloaded.
  An operation that is queued after `close()` put its sentinel never runs.

## 7. Plan

Every safety invariant and action property of the passing runs is stated by a theorem; liveness is
left to TLC. Components still to be
modelled, in order of weight: the remaining state of the MCP servers, token lifecycle,
commissioning, the repair engine.
