# egress-manager: formal model

TLA+ specifications of egress-manager, the Go program that lets one operator
manage sing-box outbounds, HAProxy frontends, native interfaces, NAT and policy
routing of a host. A privileged daemon (`egressd`) changes the host; an
unprivileged web server (`egress-web`) and a command line (`egressctl`) talk to
it. What makes the program hard is the daemon's promise: every change of the
host is a journaled transaction that either happens or is undone, whatever
fails and wherever the daemon is killed.

Paths below are relative to the repository, `src/` in `PROJECT.json`; package
names are directories of `internal/`.

## 1. Inventory

| Component | State it keeps | Operations | Talks to |
|---|---|---|---|
| Operation journal (`domain/transaction.go`, `database/operation.go`) | table `operation_journal`: id, component, state, protected apply snapshot and rollback document, error detail | create, compare-and-swap transition along a fixed table, list unfinished, list committed newest first | every executor; the gate; recovery |
| File-and-service executors: `singbox`, `xrayrelay`, `haproxy` | one owned configuration file each; one service (two systemd units; HAProxy is a bare process with a PID file) | Execute, Recover, RollbackCommitted | journal, systemctl, the validators |
| Route engine (`routeengine`, `routing`) | owned nftables table, `ip rule`s and `ip route`s, the sing-box TUN configuration, applied-routing state file | Execute, Recover, RollbackCommitted, ReconcileApplied, ResumeApplied | journal, nft, ip, sing-box's file and unit |
| Emergency bypass (`routeengine/bypass.go`) | persistent marker file; removes the owned tables, rules and routes | Bypass, recoverBypass, rollback of a bypass | journal, route engine |
| Interface outbounds (`interfaceoutbound`) | WireGuard/AmneziaWG links, OpenVPN units, encrypted configuration files, a state file of the applied set | Execute over many entries, Recover, RollbackCommitted, VerifyRuntime | journal, ip, wg, systemctl |
| NAT (`nat`) | owned nftables table or owned iptables chains, applied-state file | Execute, Recover, RollbackCommitted for two backends | journal, nft, iptables-restore |
| Xray fragment (`xray`) | one owned fragment in a foreign Xray configuration directory; unreachable in this version (section 11) | Execute, Recover, RollbackCommitted | journal, xray test, systemctl |
| Recovery coordinator and readiness (`reliability/coordinator.go`, `tracker.go`) | outcome of the last recovery run | run the steps in dependency order, stop at the first error | every Recover |
| Request handlers (`app/daemon.go`) | none of their own; hold the lock while they work | plan, apply, rollback, recovery, bypass, status | lock, gate, executors |
| Host mutation lock (`reliability/lock*.go`) | an flock and owner metadata in the same file | TryAcquire, Release, Inspect | handlers, status, `egressctl` |
| Dependency monitor (`reliability/monitor.go`, `status.go`) | per dependency: health, consecutive failures and successes | RunOnce on a timer | probes; status |
| IPC (`ipc`) | shared secret; cache of seen nonces | sign, verify, dispatch, evict | web server, command line, handlers |
| Desired-state store (`database/*.go`) | outbounds and their encrypted credentials, routes, relays, forwards, HAProxy backends and frontends, Xray bindings, each with a revision | create, import, clone, update and delete if the revision matches and nothing refers to the row, list by pages | web server, planners |
| Route planning (`routing/plan.go`, `reconcile.go`) | the applied-routing document it reads back | resolve sources, select outbounds by health, allocate a slot (table, priority, tunnel prefixes) per route, validate and replay the applied document; render | inventory, store, route engine |
| Sessions and login throttle (`auth`, `database/store.go`) | session hashes with expiry, login attempts | login, resume, logout, prune | web server |
| Planners and importers, HTTP API, inventory, probes, secrets, configuration, logging, command runner, front end | none that a protocol depends on | rendering, parsing, read-only collection | all of the above |

How they interact. The web server edits desired state in the database it shares
with the daemon, asks the daemon for a *plan* (a review of the change with the
hashes of the current and the candidate documents), and later sends an *apply*
request that carries those hashes and a transaction id it chose. The handler
takes the host lock, checks readiness and that the journal has no unfinished
operation (the *gate*), rebuilds the plan, compares it with the reviewed one and
runs the executor. The executor writes the journal before and after each
mutation. At start, and on request, the recovery coordinator resolves what is
unfinished, component by component, and decides whether the daemon is ready.

What is hard:

* a crash between any two of: journal write, rename of a file, service command,
  next journal write, and a second crash during the recovery of the first;
* an error answer of a statement SQLite did commit, or of a directory sync after
  a rename that did happen;
* requests delivered late, twice, or after somebody else's apply or rollback;
* operations of several handlers, startup recovery, manual recovery and manual
  rollback competing for one lock;
* operations over several kernel objects, where a restore must not open a window
  in which traffic leaves through the wrong path (route engine, bypass), and
  where one of several entries fails (interfaces);
* state that outlives the daemon but not the host (processes, nftables, links);
* plans assembled from several queries, applied later, while administrators edit
  the same rows from another process and connection tests write health back;
* health that is sampled by goroutines that may never come back, without a lock;
* an inventory that shows what the project has installed itself beside what other
  software owns, from which slots are assigned again at every plan.

What makes each component correct is stated in its section below. `PROJECT.json`
lists every component, modelled or not, and the hazards line by line.

## 2. Plan

The modules, the most important behaviour first. All of them are built; what is
left is named under each.

1. **`OperationJournal`, `AtomicConfiguration`, `HostTransaction`** (section 3): the
   journal, the gate, the file-and-service executors, rollback and recovery, and the
   abstract promise they implement. Proofs in `HostTransactionProofs`: every safety
   property and the refinement.
2. **`RouteEngine`** with the emergency bypass (section 4). Proofs in
   `RouteEngineProofs`. Left: the abstract specification it implements (the atomic
   change of one routing policy, with the bypass as an overlay).
3. **`InterfaceOutbound`** (section 5). Proofs in `InterfaceOutboundProofs`.
4. **`NatTransaction`** (section 6). Proofs in `NatTransactionProofs`.
5. **`MutationLock`** over **`ExclusiveLock`** (section 7): the lock file call by call,
   and the status that inspects it. Proofs in `MutationLockProofs`.
6. **`DesiredState`** over **`DesiredStore`** and **`DesiredPlan`** (section 8): editors,
   plans and applies over one database. Proofs in `DesiredStateProofs`.
7. **`DependencyMonitor`** (section 9): debounced health, liveness. Proofs in
   `DependencyMonitorProofs`.
8. **`RouteAllocation`** (section 10): the planner as a function of desired, host and
   applied state, iterated. Proofs in `RouteAllocationProofs`. Left: port ranges of NAT
   in the same manner.

How they compose. `HostTransaction`, `RouteEngine`, `InterfaceOutbound` and
`NatTransaction` take the host lock in one step, which `MutationLock` justifies: its
system calls implement `ExclusiveLock`. They all extend `OperationJournal`. They
take a review and its hashes as given; `DesiredState` is where reviews come from and
where an apply is one step. `RouteAllocation` is what a route plan contains, with an
apply again as one step; `RouteEngine` is the steps of that apply over documents that
are sets of routes. `DependencyMonitor` only observes.

All modules are written without `RECURSIVE`, with their parameters as assumed
constants and one action per step, so that they can be proved about.

What is proved. Each component has inductive invariants that hold for all values of
its constants, and from them every invariant and every action property a passing run
checks. Each was checked by TLC as far as its run goes before it was proved. Only
model-checked are:

* liveness (`LockIsReleased`, `RecoveryConverges`, `HealthConverges`), which with
  `ENABLED` is out of the prover's reach;
* the counterexamples of the three runs that expect a violation.

The invariants have one shape. A part about the journal and the host alone survives
the death of the daemon; a part indexed by the step a task has reached says what this
task may rely on, and is empty when no task runs. A crash then needs the first part only.

## 3. The core: lock, gate, journal, executors, recovery

### Modules and code

`OperationJournal` is pure. A journal is a sequence of entries in insertion
order. `Created` is `CreateOperation` with its primary key (`IdIsFree`),
`Transitioned` is the `UPDATE ... WHERE id = ? AND state = ?` behind the
transition table, `UnfinishedRows` and `IsLatestCommitted` are the two queries.
`damage` says what has happened to the stored documents of a row: nothing; damage its
recovery does not come across (`candidate`); a snapshot that cannot be opened
(`unreadable`); or a snapshot of HAProxy that decodes as a plaintext document of the
legacy format (`legacy`).

`HostTransaction` is the daemon. Its variables:

| Variable | In the code |
|---|---|
| `phase`, `tracker` | whether `RunDaemon` is in startup recovery or serving; `reliability.Tracker` |
| `lock` | holder of the flock of `reliability.FileLock` |
| `task[a]` | what a goroutine (`Main` or an IPC handler) executes: the step it is at, its request, its journal row, the state it believes the row is in, and for recovery the position in the coordinator and the rows still to resolve |
| `journal` | `operation_journal` |
| `file[c]`, `proc[c]` | the owned configuration file; the configuration the running service has loaded |
| `desired[c]` | what the database rows of the component render to |
| `requests` | the reviewed apply requests in clients' hands; never consumed, so that each may be delivered late and many times |
| `unrestored` | history only: components whose restore failed inside a recovery run |

One executor is modelled for the three components, with `Adapter[c]` where they
differ: sing-box and the relay compare reviewed hashes, HAProxy rebuilds its plan
in the handler; the relay inspects again under its own snapshot, may remove its
configuration, and stops its unit then; HAProxy has a PID file, reloads or starts
a bare process, and has to stop the process it started when nothing is to be
restored. Each journal write, file replacement and service command is one action
(`MarkApplying`, `Install`, `Activate`, `MarkVerifying`, ...), because each is a
point the daemon can be killed at. `Transition` is the one journal write all of
them share: it succeeds, conflicts, or reports an error whether or not SQLite
committed. `PROJECT.json` "map" gives the lines of every definition.

The environment (`Crash`, `Reboot`, `ServiceDies`, `SystemdRestarts`, `Tamper`)
is what the kernel, systemd and the disk do. A command that fails leaves any of
the states in `CommandService`; a failing install may have happened. `Tamper` damages a
row once, in any of the ways above, while the daemon is down.

What recovery makes of damage is as in the code. `Recover` opens the snapshot and never
the candidate (`haproxy/executor.go:150`, `singbox/executor.go:140`,
`xrayrelay/executor.go:160`), so `NextOperation` passes over an `unreadable` row, with an
error, and resolves one with a damaged candidate. A snapshot of HAProxy without nonce and
ciphertext is taken for a plaintext record of an older version
(`haproxy/executor.go:187-200`; even `{}` is one, of no previous file): `legacy` damage
replaces the snapshot by any content, and the restore uses it. Manual rollback opens
both documents of the envelope format and refuses every damaged row (`MayRollBack`).

`AtomicConfiguration` is what all that promises: a stack of configurations per
component; an apply pushes a proposed one, a rollback pops, and only a restore
that gives up, or a snapshot damaged into the legacy format, makes the top unknown. `HistoryOf` is the refinement mapping: one
configuration under each undoable journal row, and on top the one in force, which
while an operation is in flight is the one a restore would return to.

### Runs

| Run | Instance | Shows |
|---|---|---|
| `host_transactions` | HAProxy and the relay, two contents, two ids, two handlers, 1 fault, 1 crash | the safety properties below, over 870,000 distinct states |
| `host_liveness` | sing-box, two contents, two ids, one handler, 1 fault, 2 crashes | the refinement and the two liveness properties, over 320,000 distinct states |
| `failed_recovery` | one component, 1 fault, 1 crash | a restore that fails in recovery is journaled FAILED, a finished state; the next recovery run has nothing to do, succeeds and opens the gate (`docs/adr/0002-degraded-recovery.md:26` says otherwise) |

The last is an expected violation: it checks one sentence of the repository's
documents and TLC shows the code's counterexample.

Four more disagreements show in this model and are not runs of their own. After a
reboot recovery succeeds although an applied HAProxy configuration does not run:
the haproxy step looks at unfinished operations only, and the process is a bare
daemon, killed with the control group of `egressd`
(`specs/011-reliability-recovery/spec.md:58` promises to reconcile it). And an HAProxy
apply request carries no reviewed hash, so it replaces what somebody applied after
the review (`specs/006-haproxy-engine/spec.md:44` promises to reject stale plans);
`NoStaleApply` is therefore stated for the other components.

The other two concern damaged documents. "A corrupt or unauthenticated journal must never
be ignored, executed, or silently replaced" (`specs/011-reliability-recovery/spec.md:44`).
Recovery of all three components resolves an unfinished operation whose candidate is
damaged as if it were whole, and then succeeds: `JournalCheck` finds nothing unfinished.
And recovery of HAProxy restores the owned file from a snapshot that was damaged into the
legacy format. In the model the first is `NextOperation` on a row with `damage =
"candidate"`, the second `RestoreFile` on one with `"legacy"`; `DamagedOperationIsFrozen`
and the properties below are stated so that they hold beside both. Neither contradicts
the design of a rollback: a restore does not need the candidate, and
`docs/CONFIGURATION.md:62` and `docs/adr/0005-manual-snapshot-rollback.md:27` keep
plaintext records for recovery on purpose. But nothing tells such a record from a
damaged one.

Safety properties: `AtMostOneUnfinished` (operations are serialized),
`SettledHostMatchesJournal` (no operation in flight means the file is the newest
committed candidate and the service runs it or nothing), `NoStaleApply` (what is
replaced and installed is what was reviewed under that id), `RequestRunsOnce`,
`DamagedJournalKeepsGateClosed` (while an operation with any damaged document is
unfinished the daemon is not ready), `DamagedOperationIsFrozen` (no step of any actor
touches an operation whose snapshot cannot be opened, nor a finished one with a damaged
document), `JournaledBeforeMutation`. `SettledHostMatchesJournal` is suspended, until the
next commit, by a restore that failed and by one that followed a `legacy` snapshot.
Each is broken by a mutant of the code that is listed
in `PROJECT.json`.

Bounds. Two ids give two operations, enough for apply-apply, apply-rollback-apply
with a refused duplicate, and a late request against a changed base; two contents
tell old from new; two handlers and `Main` compete for the lock; two components
exercise the coordinator's order and the gate across components. One fault and
one crash combine freely (a failing write during recovery, a crash during a
restore); `host_liveness` has the second crash, inside the recovery of the first.
Ids, contents and handlers are symmetric and only the safety run uses it.
Environment faults and crashes are bounded by `MaxFaults` and `MaxCrashes`,
nothing else is.

### Fairness

`WF(Work(a))`: a goroutine that holds a task goes on, because every command runs
under a timeout and every failure is a return. `WF(Start)`: systemd restarts
`egressd` (`packaging/systemd/egressd.service`, `Restart=on-failure`).
`SF(ReceiveRecovery)`: an operator who keeps running `egressctl recover`; the
lock may be busy in between, hence strong. Nothing else is fair: no client has to
apply, no service has to be restarted by systemd, and faults need not happen.

`LockIsReleased` needs only the first. `RecoveryConverges` says that an unfinished
operation does not block the host for ever unless its snapshot cannot be opened.

### Proofs

`HostTransactionProofs` proves, for all values of the constants, that

    IInv == TypeOK /\ HolderOK /\ DownOK /\ JournalOK /\ DamagedJournalKeepsGateClosed

is inductive (`InvariantHolds`), and from it `TypeCorrectness`,
`OperationsAreSerialized`, `RequestsRunAtMostOnce`, `OnlyReviewedChangesAreApplied`,
`DamageIsNotIgnored`, `DamagedOperationsAreFrozen` and `MutationsAreJournaled`.

None of these invariants is inductive alone. That at most one operation is
unfinished depends on the step of the only task that can create one: `HolderOK`
says that a task exists only for the lock's holder, `JournalOK` that the row a
task works on is the unfinished one and that, between the gate and `BeginApply`,
there is none; `DownOK` that no task survives the daemon. That damage keeps the
gate closed needs that `Tamper` acts while the daemon is down and that recovery
ends "succeeded" only with no unfinished row. The assumptions are those of
`ConstantsAssumption`: the distinguished values are distinct from the others and
the bounds are natural numbers. There is one lemma per action, and temporal steps
are closed with PTL.

The second half of the module adds two facts and proves `HostInvariantHolds` of

    HInv == IInv /\ RecordOK(journal, file, proc, requests) /\ HolderProgressOK

`RecordOK`: the snapshot of every commit, and of the operation in flight, is what the
journal promised before it (its newest older commit, or nothing), so whatever restores a
snapshot returns to a promise; and a component without an operation in flight is
as promised. `HolderProgressOK`: what the step of the lock's holder tells about the
file and the service, from "untouched" through "candidate installed" and "verified" to
"snapshot back". `SettledHosts` (`SettledHostMatchesJournal`) is read off
`RecordOK`.

`ConfigurationIsAtomic` (`Spec => AppliesAreAtomic`) is the refinement: `HistoryOf` of
two successive states is equal or differs by one abstract step. A journal write decides
which: COMMITTED adds the candidate (`Apply`), ROLLED_BACK takes that of a row which
had been committed away again (`Undo`), a restore that gives up replaces the top
(`Lose`), as does damage that turns the snapshot into a `legacy` one, and everything else
stutters, a rollback that is only requested included. That
files may change while the history does not is where `RecordOK` is needed: what counts
as in force during an apply is its snapshot, which is what was on top before it began.

Only model-checked: the two liveness properties, and of course the violation.

### What the core leaves out

* The retention delete `DeleteFinishedOperationsBefore` has no caller in the daemon.
* The per-executor mutexes are subsumed by the host lock, which every caller holds.
* The reconciliation steps of the coordinator (interfaces, routing, NAT, Xray)
  only fail or succeed here; they are in sections 4 to 6.
* Routing shares sing-box's configuration file; the interplay belongs to `RouteEngine`.
* After a reboot `SystemdRestarts` lets either unit start at any time; only the
  relay's is enabled at boot, so this over-approximates sing-box.
* Documents are opaque values; whether they render correctly is the planners'
  business. Encryption is reduced to what is left of a damaged document (`damage`).
* Damage that yields another document of the legacy format counts as `legacy` only while a
  restore may still use it, in APPLYING, VERIFYING and ROLLING_BACK; elsewhere nothing reads
  its content and it acts as a damaged candidate does. Rows that an older version wrote in
  plaintext are not in the initial journal, which is empty.
* The journal orders committed operations by `updated_at`; the model by insertion,
  which agrees while the clock does not step back (listed as a hazard).
* Manual rollback takes the newest committed operation of any kind; one that is
  refused (a superseded bypass, a stale snapshot) blocks the older ones behind it.
  Each module rolls back its own newest commit; the order across executors is not
  composed.

## 4. Routing and the emergency bypass

### Module and code

`RouteEngine` works under the host lock, whose mutual exclusion the core shows,
so it has one task. It extends `OperationJournal` with the same `Transition`
idiom, and models one action per journal write, file replacement and command:

| Variable | In the code |
|---|---|
| `singbox`, `policy` | `SingBoxConfigPath` (the TUN devices it declares) and `RoutingStatePath` (the applied document), each the set of routes or `Absent` |
| `marker` | `bypass.json`: the journal row of the bypass that wrote it |
| `nft` | the table `inet egm_egress`: which routes it protects |
| `tun` | the TUN devices of the running sing-box, or `Stopped` |
| `rules[f]`, `tables[f]` | per family, routes whose policy rule is installed, and whose table has its default route |
| `task` | the goroutine: what it runs for, its step, row and believed state; for recovery the rows still to resolve, whether an error was collected and whether it may leave the bypass |
| `lost`, `overtook` | history only: sing-box restarted by itself; rows begun while an earlier one was unfinished |

A document is the set of routes it enables. `Execute` is `Begin`, `Validate`,
`MarkApplying`, `ApplyNFT`, `InstallSingBox`, `RestartSingBox`, `RemovePrevious`
(with `verifyTUNs`), `AddIP` per family, `MarkVerifying`, `WritePolicy` (with
`verify`), `Commit`. `Bypass` shares the journal steps and adds `ActivateMarker`,
`BypassPolicy`, `BypassNFT`, `VerifyBypass`, which recovery also runs. Every undo
(`failWithRollback`, `Recover`, `RollbackCommitted`, `rollbackBypass`) is the path
from `RollBack` or `MarkRollingBack` through the `Restore...` steps; they differ
in what an error does (`RestoreError`, `BypassError`). `StartRecovery` to
`FinishRecovery` is the recovery run: Recover, `journal_check`, `route_reconcile`
(nothing under a marker at startup, `ResumeApplied` on request), `journal_final`.

Kernel facts the model takes from outside `src/`: a TUN device dies with its
process and the routes over it go with it, while policy rules stay; `ip rule add`
refuses a rule that is there and an `ip -batch` stops at its first failing line;
an nft file is applied as a whole or not at all.

### Runs

| Run | Bounds | Shows |
|---|---|---|
| `route_engine` | two routes, all three non-empty documents, 3 operations of clients, 1 manual recovery, 1 fault, 1 crash or reboot | the five properties below, over 1.9 million distinct states |
| `bypass_reactivated` | as above without manual recovery | a bypass over an unfinished apply is undone by startup recovery under its own marker (`docs/adr/0004-persistent-emergency-bypass.md:23`) |

* `SettledRouting`: when the daemon is ready and nothing is in flight, files,
  kernel and journal agree: exactly the newest committed document is in force and
  no rule of another one is left. A document without routes may lose its empty table,
  because what restores a host without routes adds none.
* `ActiveBypassIsOff`: when nothing is in flight, the marker of a committed
  bypass stands for the truth, as long as no operation was begun over an unfinished one
  (`overtook`). What overtaking does is the subject of `bypass_reactivated`.
* `KillSwitchHolds`: no step opens a direct path for a route that stays. This is
  the property that orders the steps of apply and restore: the leak-control table
  comes first and is never absent between two documents. Like `SettledRouting` it is
  suspended once a restore has given up; the reason is under Proofs.
* `RecoveredRoutingIsInForce`: a recovery that makes the daemon ready, with no bypass
  active, has the applied document in force, also after a reboot. A manual recovery of
  a daemon that is ready already does not show in the readiness and is exempt
  (`SettledRouting` says what holds after it), and so is a run during which sing-box
  restarted by itself (`lost`).

`SettledRouting` is suspended where the code gives up or the findings bite: an
entry with `rollback_failed`, a damaged snapshot, and an operation that began
over half-applied routing (only a bypass, or a reconciliation after a restore
that gave up, can). Three client operations are the fewest in which an apply
replaces a document and is followed by a bypass and its rollback. Routes are
symmetric. The run allows deadlock because clients' operations are bounded.

### Proofs

`RouteEngineProofs` proves for every finite set of routes, every set of documents over
it and every bound on operations, recoveries, faults and crashes that these six
invariants hold. No property of the run is inductive: the steps of an apply, a bypass
and an undo leave the host in many states between two agreeing ones, and which of
them are possible depends on the step, on the row, and on what the row's snapshot
records. Each invariant has a part about journal and host, which survives the death of
the daemon, and a part about the step of the task, and uses those before it.

| Invariant | Says | Theorem | Gives |
|---|---|---|---|
| `FlowInv` | types; a task at a step has a row of the right kind, in the state the task believes in unless a failed statement had moved it; a row that gave up never moves again | `FlowHolds` | `TypeCorrect` |
| `FinishInv` | a recovery run about to end without error has seen the applied document in force, or a marker, or nothing applied | `FinishHolds` | `RecoveryEndsInForce` of `RecoveredRoutingIsInForce` |
| `BypassInv` | while no operation has overtaken an unfinished one: at most one row is at work and lies after every commit; an apply works without a marker; a marker names a bypass, and once that is committed nothing of the applied document is in force | `BypassHolds` | `ActiveBypassStaysOff` of `ActiveBypassIsOff` |
| `HostInv` | while the host is `Clean`: which documents the two files, the table and the rules of each family can hold, by the row in flight and by the step; without the table no applied route is carried completely | `HostHolds` | `KillSwitchNeverOpens` of `KillSwitchHolds` |
| `CommitInv` | while `Clean`: the applied document is what the newest commit says, and the snapshot of the row at work what the older ones say | `CommitHolds` | the documents of `SettledRouting` |
| `ReadyInv` | while `Clean`: ready without marker means the document is in force, except after sing-box restarted by itself; what the step before a commit or after a restore has verified | `ReadyHolds` | `SettledRoutingHolds` of `SettledRouting` |

`Clean` is the premise of both properties: no restore has given up, and no operation
began over half-applied routing. `HostInv` is where the order of the steps counts. What
`KillSwitchHolds` needs of it is not only the document in the table, but that when the
table is absent the route leaks already, so that the steps of a restore to a host
without it open nothing.

`BypassOutlasts` proves what remains of the sentence that run `bypass_reactivated`
refutes. `BypassOutlastsStartup` says of a startup under a marker that it adds no table
and no rule, provided no operation has overtaken an unfinished one. So overtaking is
the only way to the counterexample; a bypass begun over a finished journal outlasts
every crash, reboot and fault.

Why `KillSwitchHolds` is suspended by a restore that gave up. A bypass fails and so does
its undo: FAILED, and its marker stays. A second bypass records `PreviousBypassActive`, is
interrupted, and startup recovery completes it under a marker of its own
(`internal/routeengine/bypass.go:182`). The operator rolls it back, and the daemon dies after
`DeactivateBypass` and before ROLLED_BACK (`internal/routeengine/rollback.go:99`). Now
`recoverBypass` (`bypass.go:208`) finds a previous bypass to restore and applies it, with no
marker on disk to say so: rules and table are removed, `verifyBypass` fails, the row is
FAILED, and the routes leak without an active bypass. TLC finds this with one route,
three operations, one fault and two crashes once `~Troubled` is dropped; the run's single
crash is too few. `docs/CONSTITUTION.md:14` promises that failed egress blocks; the model
states the promise where it holds.

Only model-checked: the counterexample of `bypass_reactivated`.

### What it leaves out

* The candidate of a bypass row is plain JSON (`internal/routeengine/bypass.go:127`), which
  only the recovery of ROLLING_BACK parses (`bypass.go:203`). Damage of a bypass row is
  damage of its snapshot; of its candidate it is left out, since in APPLYING and VERIFYING
  nothing would come across it.
* Routes through native interfaces, per-family block and pass policies, DNS rules
  and selected addresses: the model has the policy with the most steps, follow
  the outbound in both families with the kill switch on.
* In the runs, a document without enabled routes. The theorems include it.
* The Apply of sing-box outbounds on its own, which rewrites the same file under
  the core's protocol; here it appears as `SingBoxRestarts`.
* The checks of host inventory and protected prefixes, which only refuse.
* The read-only verification of expressions is the comparison of route sets.

## 5. Interface outbounds

### Module and code

`InterfaceOutbound` applies a set of entries as one operation. It also works
under the host lock and uses the `Transition` idiom of the route engine.

| Variable | In the code |
|---|---|
| `desired` | the enabled rows of adapter `interface` with their credentials, which the web server edits at any time |
| `file` | `state.json`; absent exactly when it has no entry |
| `configs[i]` | `<id>.wg.conf` or `<id>.ovpn` in the runtime directory |
| `links[i]` | the WireGuard link or the OpenVPN unit, as the version it was configured with; `Partial` after `ip link add` and before `wg setconf` |
| `task` | the goroutine, with the entries its loop still has to handle (`todo`) and the rows recovery still has to resolve (`rows`) |
| `lost`, `wipedAt`, `planned` | history only: a link vanished; when the runtime directory was emptied; what recovery last planned |

`apply` and `restore` are the same loops with different sets: `StopEntry` and
`RemoveConfig` over what changes (apply) or over the candidate (restore), then
`StartEntry`, `CreateLink`, `ConfigureLink` over the target in the order of the
IDs, then `WriteFile`. `Kept` is the branch of an unchanged entry. `Collides` is
the planner's refusal of a link the state file does not own. `Reconcile` is
`interface_reconcile` of the recovery run, which, unlike that of the routes,
executes what the database holds, pending edits included.

Three lifetimes meet here: files in the runtime directory (a tmpfs, and under the
packaged unit a `RuntimeDirectory` that systemd removes when the daemon stops),
links in the kernel, rows in the database. `DirectorySurvives` says whether the
directory outlives the daemon; `Reboot` empties it in any case.

### Runs

| Run | Bounds | Shows |
|---|---|---|
| `interface_outbound` | one WireGuard and one OpenVPN entry, two versions, 2 edits, 2 operations of clients, 1 manual recovery, 1 fault, 1 crash or reboot, directory survives | the properties below, over 3.6 million distinct states |
| `interface_restart` | packaged unit, no fault, 1 crash or reboot | a plain restart of the daemon takes its own link for a foreign one (`docs/CONFIGURATION.md:66`) |

A restore that failed once is not retried but given up: it starts links that its
first attempt left running, is refused, and Recover finishes the row as FAILED
(`docs/adr/0005-manual-snapshot-rollback.md:23` says it stays in ROLLING_BACK). The
model has these behaviours; `SettledInterfaces` is suspended by them.

* `SettledInterfaces`: when the daemon is ready and nothing is in flight, state
  file, configurations and links agree entry by entry with nothing left over, and
  are the newest committed candidate (or nothing, if the directory was emptied).
  Suspended by a restore that gave up, and for the links by one that vanished.
* `RecoveryReconstructsDesired`: a recovery run that reports success has applied
  the rows it planned, and all of them run.
* `UnchangedTunnelsStayUp`: an apply never interrupts an entry it does not change.

Two outbounds, one of each kind, are the fewest in which an operation has an
entry that stays, one that goes and one that comes; two versions the fewest in
which one changes. The run allows deadlock because operations are bounded. In
the run the directory survives the daemon: under the packaged unit the finding
of `interface_restart` closes the gate after every restart with a running link.

### Proofs

`InterfaceOutboundProofs` proves, for any set of outbounds and versions, any bounds and
either value of `DirectorySurvives`: `InterfaceInvariantHolds`, and from it
`TypeCorrectness`, `InterfacesAreSettled`, `UnchangedTunnelsAreKept` and
`RecoveryReconstructs`. The inductive invariant is

    IInv == TypeOK /\ RecordOK(...) /\ TaskOK(...) /\ ReadyOK(...)

* `RecordOK` asks little of an operation in flight. A restore stops every entry of the
  candidate before it starts those of the snapshot, so entries of either may be in any
  state; only those in neither must be as they were, because no restore will visit
  them. Without an operation in flight files and links are the expected document, which
  is the newest candidate or, since the directory was emptied, none.
* `TaskOK` says how far each loop has come: what `todo` still holds is as before,
  what it no longer holds is done.
* `ReadyOK` says that while the daemon is ready every applied entry has its link.
  It depends on `tracker`, the run of the task and `lost`.

The proof covers what the run does not, a directory that goes away under running
links. There a link may be left that no file names (the finding of
`interface_restart`), and `SettledInterfaces` says so for its links.

### What it leaves out

* A foreign link that takes the name of an owned one between planning and start;
  names are derived from IDs.
* A change of an outbound's type under the same ID: the kind is a constant.
* Temporary validation directories, handshakes and the read-only health test.
* An edit between the read of a row and of its credential: the reviewed hashes
  cover both.

## 6. NAT

### Module and code

`NatTransaction` works under the host lock and uses the `Transition` idiom of
the other modules. An *object* is an engine and an address family; what the
forwards of a review render to is a member of `Forwards`.

| Variable | In the code |
|---|---|
| `nft[f]` | the tables `ip egm_nat4` and `ip6 egm_nat6` |
| `ipt[f]` | the chains `EGM_PREROUTING`, `EGM_POSTROUTING` and `EGM_FORWARD` of `iptables` or `ip6tables`, each with the number of anchors that jump to it (`IPTablesState`) |
| `installed` | which of the two programs the host has; nftables may be installed later |
| `task` | the goroutine: its plan until the row exists, its row and believed state, the state its restore file was computed against (`seen`), the tables of a file not committed yet (`todo`) |
| `disturbed`, `wiped`, `misprobed` | history only: rules changed by others since the task last looked, or ever; a probe failed while the engine was selected |

`SelectedEngine` is `selectNATEngine`. `CandidateFile` and `RestoreFile` are what
`renderIPTables` and `BuildIPTablesRollback` write: per chain whether it is filled
or removed and whether its anchor is inserted, deleted or left. `AcceptsTable` and
`Committed` are what `iptables-restore --noflush` makes of such a file, taken from
outside `src/`: it commits the nat table and then the filter table, each whole or
not at all, and refuses to delete a rule that is not there or a chain that is
jumped to. `Install` is one such commit, or the single transaction of `nft`, and is
shared by `InstallCandidate` and `WriteSnapshot`, so that a fault or a crash may
fall between the tables of either. `RollbackRequested` requires that the kernel
still holds exactly the candidate; `Verify` only looks for the table or the three
anchors, as the code does.

### Runs

| Run | Bounds | Shows |
|---|---|---|
| `nat_transactions` | two families, two sets of forwards, either set of engines at first, 2 operations, 1 manual recovery, 2 faults, 2 crashes or reboots | the properties below, over 1.4 million distinct states |

* `SettledNat`: when the daemon is ready and nothing is in flight, every engine and
  family holds exactly what the newest committed operation on it installed, and
  nothing where none is committed: no anchor, chain or half-committed table is left.
  Suspended by a restore that gave up and by changes of other software.
* `OutcomeIsExact`: a row becomes COMMITTED or ROLLED_BACK only with its candidate
  or its snapshot in force, also after flushes of other software that came before
  the operation's last look at the rules. This is what the verification, weak as it
  is, and the comparison with the inspected state are for.
* `ExclusiveEngines`: no sequence of applies, rollbacks, recoveries, reboots and
  late installations of nftables leaves a family in both engines, as long as no
  probe or inspection has failed while an engine was selected (`misprobed`).
  One that failed hides the engine that owns a family (`nft --version` timing out in
  the inventory, or the iptables inspection at `internal/app/daemon.go:1240`), and the same
  forwards go into the second engine beside the first, although
  `specs/005-nat-port-forward-engine/spec.md:59` preserves an existing deployment and
  rejects a dual-engine state. TLC finds this with one family and one fault once
  `misprobed` is dropped.

Two operations are an apply over an apply and an apply after a rollback; two
families let the newest commit belong to another object than the one looked at. A
fault is a failing command, a journal write with an unknown outcome, a failing
probe, a flush or a damaged row; two of them make a restore fail that follows a
failed install. The second crash falls into the recovery of the first. Forwards
and families are symmetric. The run allows deadlock because operations are
bounded.

### Proofs

`NatTransactionProofs` proves, for any families, sets of forwards and bounds, and
whichever engines are installed: `NatInvariantHolds`, and from it `TypeCorrectness`,
`EnginesAreExclusive`, `NatIsSettled` and `OutcomesAreExact`. The inductive invariant
`NInv` is `TypeOK` with

* `RecordOK`: snapshots chain as in the core, per object; an object without an
  operation in flight holds what is promised unless other software changed it; the other
  engine holds nothing for a family with a promise; nftables, once used, is installed.
  Every iptables state is tidy: a chain that is absent has neither rules nor anchors.
* `TaskOK`: at each step, which of the tables of the restore file are committed. A
  file is computed against a state that was looked at earlier (`seen`, or the snapshot).
  For every table that is still in `todo` the kernel is as it was looked at, unless
  other software changed the object since, and in any case has no more anchors than were
  seen. The latter is what keeps a chain from being anchored twice.

### What it leaves out

* Which packets a rule matches: port ranges, overlap, management ports.
* The review of a plan. Like HAProxy's, an apply request carries the forwards and no
  reviewed hash, and the plan is rebuilt in the handler.
* Journal rows in the legacy plaintext format, which only recovery accepts.
* A foreign rule that jumps to an owned chain, which every inspection refuses.

## 7. The host mutation lock and the recovery status

### Modules and code

`ExclusiveLock` is what the other modules assume: nobody or one task holds the lock,
it is taken when it is free and given up by its holder or the death of the daemon.
`MutationLock` is `reliability/lock.go` and `lock_linux.go`, one action per system
call, with the handlers that use it (`withMutationLock`, `mutate`, startup recovery)
and the recovery status, which takes the same flock to see whether it is free.

| Variable | In the code |
|---|---|
| `flock`, `document` | the open file description that has the flock; the content of the lock file (absent, truncated, owned, released) |
| `pc[t]`, `kind[t]`, `erred[t]` | the goroutine of a request, of startup recovery or of an inspection: its next call, whether it serves an apply or a recovery, whether a step has failed |
| `tracker`, `unfinished` | `reliability.Tracker`; whether the journal has an unfinished operation |
| `owner[i]`, `report[i]` | what an inspection has read so far |
| `seen`, `torn` | history only: what was true since an inspection began; an owner document could not be written |

`TryLock`, `TruncateOwner`, `WriteOwner`, `Abandon` are `TryAcquire`; `TruncateReleased`,
`WriteReleased`, `Unlock` are `Release`, which tries each whatever became of the one
before; `ReadOwner`, `Probe`, `UnlockProbe` are `Inspect`; `ReadJournal` and `ReadTracker`
the rest of the status. What a task does to the host is reduced to whether it leaves
an unfinished operation.

### Run

| Run | Bounds | Shows |
|---|---|---|
| `mutation_lock` | two requests, startup recovery, one inspection, 2 failed calls, 2 deaths | the properties below, over 880,000 distinct states |

* `ImplementsLock`: the calls implement `ExclusiveLock`, whatever fails and however an
  inspection holds the flock for a moment.
* `StatusWasTrue`: a status assembled from a document, a flock, a query and the
  tracker describes a moment of its inspection: ready, the host was ready; inactive,
  nobody held the lock; held by an operation that has not released it, that operation
  did hold it.

Two requests are the fewest that can exchange the lock during one inspection. With two
inspections each may take the other's probe for a mutation, so `active` is not claimed
to mean that one runs. For the same reason a request that meets an inspection's flock
is refused as busy although no mutation is in progress (`lock.go:20`); repeating it
succeeds. An inspection may also fail because it read the document while it was being
rewritten. A release whose document is refused (a clock that stepped back) makes the
handler report failure over an operation that committed. The run allows deadlock
because deaths and failures are bounded.

### Proofs

`MutationLockProofs` proves, from `LockAssumption` alone (the goroutines have one role,
the bounds are numbers), for any number of requests, inspections, faults and deaths:
`TypeCorrectness`, `LockIsImplemented` (`Spec => ImplementsLock`) and
`StatusDescribesAMoment` (`Spec => StatusWasTrue`). All three follow from the inductive
invariant `IInv`, which TLC checked on the bounds of the run before it was proved:

* `FlockOK`: the goroutine whose program counter is between its flock call and its
  unlock is the one that has the flock. Two holders would be one goroutine, so
  `Holder` is a function of the state, and only a finished owner document (`Acquire`) and
  an unlock or a death (`Release`) change it.
* `DownOK`, `StartupAlone`: nothing runs in a dead daemon or beside startup recovery.
  Startup therefore never finds its lock taken, and the document that an earlier daemon
  left is replaced before anybody can read it.
* `RecordOK`: a recovery that is about to record success has left the journal finished.
  This is what makes the status right although it reads the journal before the tracker:
  the tracker turns to success while the journal is finished.
* `DocumentOK`: unless a write failed, a document that names an unreleased owner names
  the task that holds the lock. What an inspection reads is thus evidence of a holder.
* `SeenOK`: what an inspection has read so far has been true since it began.

## 8. Desired state, reviews and applies

### Modules and code

Three modules. `DesiredStore` is the database: the tables with their UNIQUE and
REFERENCES constraints and one operator per statement or transaction of
`internal/database`, each a function from a database and arguments to a database and an
answer. `DesiredPlan` is what the planners keep of the rows: which are enabled, which
they refuse, what they resolve references to. `DesiredState` is the panel: administrators
who list, edit, import, clone, test, review and apply, each SQL statement a step.

| Variable | In the code |
|---|---|
| `db` | the SQLite database both processes open |
| `view[a]`, `review[a]` | in the browser: a row with its revision; a reviewed plan with its hashes (compared as values) |
| `request[a]`, `mutex` | a request being served, with what its queries have read so far; the daemon's `outboundMutex` and its siblings |
| `installed[k]` | what has been applied, by deployment |
| `scan` | a client that follows `next_cursor` |
| `group` | which of the table groups this behaviour is about; they share no row and no mutex |

`Edit...` are the create, update and delete handlers of a table, `CloneRow` and `Import`
those that write several rows. `StartTest` and `FinishTest` are the connection tests, which
write health back to the row they read seconds earlier. `ReadTable` and `ReadCredential` are
the queries of `loadSingBoxPlan`, `loadRoutePlan`, `loadRelayPlan`, `loadXrayPlan`; `FinishPlan`
and `FinishApply` what the handlers do with the result; `StartSubmit` and `Submit` the
applies of HAProxy and NAT, whose rows the web server loads and sends along.

### Run

| Run | Bounds | Shows |
|---|---|---|
| `desired_state` | two administrators, two identifiers and names, every table group in turn, 2 writes after the seed (3 in groups of one table), pages of one row | the properties below, over 1.1 million distinct states |

* `NoLostEdit`: a row changes or goes away only if the author of the change, be it a
  form or a slow connection test, had read exactly the document that is overwritten.
  A row that was deleted and created again starts at revision 1 and is exempt (`born`).
* `ReferencesResolve`: credentials, references and link rows agree with the definitions
  that name them, whatever is edited, imported or cloned in between.
* `InstalledResolves`: what is installed refers to nothing that is not, although plans
  are assembled from rows of different moments and sing-box is applied both on its own
  and with the routes.
* `AppliedAsReviewed`: an apply of sing-box, routes, relays or Xray leads only from the
  installed state of its review to the candidate of its review. HAProxy and NAT applies
  carry no reviewed hash and are not part of it.
* `ScanComplete`: pages meet every row that was there all along, once.

Two administrators, two rows and two writes are enough for an edit between two queries
of a plan and another between a review and its apply. Seeds are written by the modelled
statements. An administrator has one thing on the screen; health is usable or
unhealthy; the pages walked are those of port forwards, whose statement is the one of
every table. Administrators are symmetric. Writes are bounded, so the run allows
deadlock.

### Proofs

`DesiredStateProofs` proves all six properties, for any number of administrators, rows,
names and writes and any page size: `TypeCorrectness`, `ReferencesAreKept`,
`InstalledIsWhole`, `ScansAreComplete`, `NoEditIsLost`, `AppliesAreReviewed`. The
assumptions are that identifiers are finitely many positive numbers (a cursor of 0
stands before every row, as the empty string does in the code) and that the rows of the
seed have names. The inductive invariant `IInv` has three parts that no step relates:

* `DbOK`: the type of every row and the references. It is proved of the statements of
  `DesiredStore` as functions (`AnswerOK`), before any action is looked at. Each of them
  also keeps `Written`: it replaces or removes one row, of one revision, keeps its birth
  and raises its revision, and numbers the births of new rows upward. So every edit is
  one step, `EditDone`, whatever form it comes from.
* `PanelOK`: what a row that was read some writes ago still tells (`SeenOK`). Of the same
  birth and revision, it is the same document; of the same birth, it is not newer.
  `NoLostEdit` is this fact at the moment of the write, since no row has revision 0.
* `ScanOK`: while there is a next page, the rows met are those up to the cursor; the last
  page leaves none behind. It rests on lemmas about counting: a page has no
  gaps, and one that is short of a row is everything.

`InstalledResolves` is inductive alone: each planner refuses what its own input does not
resolve, so it holds of a plan made from any rows at all.

### Seen and not claimed

Seen in the model and not claimed otherwise: an update is answered as a failure though it
committed if the row is deleted before it is read back; the draft of an HAProxy apply is
read in two queries; NAT and HAProxy applies carry no review, so two of them may land
in the reverse order of their reads.

## 9. The dependency monitor

### Module and code

`DependencyMonitor` is `reliability/monitor.go` with the probes of
`app/dependency_health.go`. A round starts one goroutine per component, waits for an
answer or a timeout of each and publishes all results in one step.

| Variable | In the code |
|---|---|
| `world[c][e]` | what the evidence a probe reads would say now: holds, fails, hangs, or absent (not configured, bypassed, not managed) |
| `reading[c]`, `stray[c]` | how far this round's goroutine has read; one that an earlier round left behind |
| `result[c]` | the channel of the round |
| `published[c]`, `failures[c]`, `successes[c]` | `DependencyStatus` and the counters, saturated at the thresholds |
| `during`, `failing`, `witnessed` | history only: evidence there was in the round; whether what is published was justified by it |

`Evidence` lists what each probe reads, in its order; `Observation` is the first that
decides. `Successes`, `Failures` and `Status` are the debouncing. `Change` alters the
host under a probe, because the monitor takes no lock.

### Run, fairness

| Run | Bounds | Shows |
|---|---|---|
| `dependency_monitor` | the routing and system-tool probes, 2 disturbances (a change, a late answer, the daemon's end) | the properties below, over 259,000 distinct states |

* `StatusIsWitnessed`: each published status had its evidence within the round,
  unhealthy within the last two, and no round leads from unhealthy to healthy
  (`docs/recovery/README.md:17`).
* `HealthConverges`: a component that stays working, broken, hanging or turned off is in
  the end published as that, however it flapped before.

The two probes cover both shapes there are: stop at the first evidence that decides,
and try all. Weak fairness on rounds, on the reads of goroutines that do not hang and on
the expiry of those that do: the ticker, the scheduler and the probe's context.
Nothing is assumed of goroutines left behind. Evidence of one round may mix moments, and
such goroutines pile up when a command ignores its context; the model keeps the latest.

### Proofs

`DependencyMonitorProofs` proves `MonitorInvariantHolds`, `TypeCorrectness` and
`StatusIsBacked` (`Spec => []StatusIsWitnessed`) for any subset of the six components and
any number of disturbances. In the inductive invariant `MInv`, `Backed(c)` says of a round
that is probing that each component either has a result that the evidence of the round
justifies, or has shown in it both what it would show now and all its goroutine has read,
in the order the probe reads. `Counted(c)` carries one round into the next: a failure
counted is evidence of the round before, and what is published unhealthy has no success
to its credit. `HealthConverges` stays with TLC.

## 10. Route allocation and replay

### Module and code

`RouteAllocation` is `routing/plan.go` and `routing/reconcile.go`: a plan is a function of
the enabled routes, of the inventory, which shows what is applied beside what is foreign,
and of the applied state file; applying it makes it input of the next.

| Variable | In the code |
|---|---|
| `desired[r]`, `outbound[o]` | the enabled routes; outbounds with their health and whether their endpoint resolves |
| `up`, `foreign` | the inventory: interfaces; tables, priorities and prefixes of other software, by the slot they meet |
| `applied`, `runtime` | `RoutingStatePath`; whether what it says is installed |
| `fresh` | history only: nothing but reboots and replays since the last apply |

`resolveSource`, `selectorsOverlap`, `endpointAddresses`, `Selected`, `allocatePolicySlot`,
`releaseOwnedResources` and `BuildPlan` keep their names; `Valid` is
`RouteIntent.Validate`, `Replayable` is `BuildReconciliationPlan`. The probing loop is
stated as the nearest free slot from the one the hash of the ID points to.

### Run

| Run | Bounds | Shows |
|---|---|---|
| `route_allocation` | three routes with eight definitions over two sing-box and two native outbounds, three slots, any desired set at first, 2 changes | the properties below, over 617,000 distinct states |

* `AppliedRoutesAreAlone`: applied routes share neither a slot nor a packet, and while
  nothing changes use nothing of other software.
* `ReplanIsStable`: planning again what was just applied gives the same candidate, before
  and after a reboot: the project's own rules, tables and addresses do not count as
  foreign, and every other candidate would make a review stale at once.
* `AppliedCanBeReplayed`: what the planner writes passes the validation it is read back
  with, and is replayed on the host it was planned for
  (`docs/adr/0003-applied-route-reconciliation.md:20`).

Three slots for three routes of which two hash alike and the third behind them make every
slot contested; the definitions overlap, nest, span two interfaces or touch management,
with every failure policy and either adapter. Two changes are an edit and a change of the
host, in either order with applies and reboots.

Seen in the model: a foreign prefix that equals the tunnel prefix of an applied route, or
an address of a native link inside the tunnel range, is released with the tunnel and not
noticed while the tunnel is up (`plan.go:591`); the route moves to another slot after a
reboot. `ReplanIsStable` and `AppliedRoutesAreAlone` except that case. A TUN or WireGuard
link reports the state UNKNOWN, never `up`, so a tunnel does not count as an ingress. What
`DesiredState` says of reviews and `RouteEngine` of steps is not repeated here.

### Proofs

`RouteAllocationProofs` proves `TypeCorrectness`, `RoutesAreAlone`, `AppliedIsReplayable` and
`PlansAreStable` for any routes, outbounds, slots, interfaces and number of changes. The
slots of a plan are a recursive function over the IDs of the routes; that each ID gets the
slot its equation says is proved by taking a least counterexample, and that no two routes
share one follows, as each probe avoids the slots of those before. `ReplanIsStable` is the
deep one: what is released before planning is what the applied document lists, so that
what counts as taken is what other software holds, before an apply, after it and
after a reboot. `ProbeFindsOneSlot` shows that the probe, stated as the nearest free slot,
is well defined: as long as any slot is free it finds exactly one.

## 11. Not modelled

* **Xray fragment executor.** `internal/xray/project_boundary.go` empties the candidates of
  discovery at start, so no installation is ever managed and every fragment plan,
  apply and recovery returns before it touches the host. Its rows and its planner are
  in `DesiredState`.
* **IPC.** One authenticated request and answer per connection; no state but the cache of
  seen nonces. What matters of it is in the models: requests are repeated and answers
  lost. One deadline of five seconds covers a request and its answer, so a longer
  operation commits and is answered as a failure; `RequestRunsOnce` is what makes the
  repetition harmless.
* **Sessions and login throttle.** Every operation is one statement over one table, Login
  runs under a mutex, and the two pruning operations have no caller.
* **Rendering and parsing** of sing-box, Xray, HAProxy, nftables, iptables, WireGuard and
  OpenVPN documents and of share links: documents are opaque values that are compared.
* **Inventory, probes, secrets, configuration, logging, command runner, front end**: no
  state of their own; their outcomes are inputs or nondeterministic results.
