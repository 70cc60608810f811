# Hunter Pi: a TLA+ development

Hunter Pi runs an agent on a *Managed Change*: a frozen Plan Revision, a *Run* of it, one or more *Attempts*,
independent checks, human gates and reviews, and an outcome. Everything that must survive a crash is an immutable
file on the local disk, written by processes that share nothing else. This directory models the parts of the
repository that make those promises, checks them with TLC and proves some of them with TLAPS. Paths below are
relative to the repository; line numbers of every definition are in `PROJECT.json` under `map`.

    tlc -config KernelRecovery.cfg MCWorkflowKernel      # a run
    tlapm WorkflowKernelProofs.tla                       # the proofs

Contents: 1 the system's parts, 2 the modules, 3 the runs, 4 the proofs, 5 what is not modelled.

## 1. Inventory

| Part | State it keeps | Operations | What is hard about it | Module |
|---|---|---|---|---|
| **Workflow kernel** `packages/workflow-kernel/src/in-memory-workflow-kernel.ts` | one event log per Run; everything else is replayed from it | 12 commands: create, start, retry, recover, observe, record finality / verification / human / review receipts and Checkpoints, cancel, archive | the rules are written twice (`#decide`, `validateReplaySemantics`) and a third time in `assertRunProjectionIntegrity`; facts about superseded Attempts arrive late; gate results on the last permitted Attempt | WorkflowKernel |
| **Durable kernel and event store** `workflow-kernel/src/durable-workflow-kernel.ts`, `evidence/src/event-store.ts` | hash-chained segment files | read, decide, append, project | decision taken outside the lock; failed writes that took effect | EventStore, EventLog |
| **Storage policy, reserve** `evidence/src/storage-policy.ts` | the emergency reserve file | ensure, release, critical write | contended without a lock; fails after the write it serves succeeded | EventStore, EvidenceStore |
| **Mutation lock** `evidence/src/atomic-write.ts` | lock file, reconciliation claim, receipts, liveness endpoint | acquire, release, reconcile a dead owner, recover a dead reconciler | every file-system call interleaves; owners and reconcilers die anywhere | MutationLock, Mutex |
| **Recovery and checkpointing** `workflow-kernel/src/recovery.ts`, `checkpointing.ts` | none of their own | recover, maybeRecord | three commands chosen from one stale reading; interrupted between them; repeated | Recovery |
| **Evidence store** `evidence/src/evidence-store.ts` | one immutable record per Evidence identity | capture, read, list | a failed write that took effect; fallback to a digest | EvidenceStore |
| **Archive, portable device** `evidence/src/archive.ts`, `portable-device.ts` | packages, exports, import and delete intents and receipts | finalize, export, import, delete, apply on a device | interrupted between any two file-system calls | RunArchive, DeviceImport |
| **Writer leases** `execution/src/file-lease-manager.ts` | lease transactions | acquire, bind, renew, release, inspect | expiry against release, revocation, replayed requests, a clock set back | WriterLease |
| **Managed process host** `execution/src/managed-process-host.ts` | sessions in memory, reservation and receipts on disk | start, cancel, awaitFinal, read, heartbeat | host dies with live trees; start reported as failed although it ran | ProcessHost |
| **Process-tree drivers** `execution/src/posix-*`, `windows-*` | helper and driver, a process tree | launch, cancel, deadline, settle | two processes joined by pipes; `/proc` cannot be read atomically | TreeScan, LinuxDriver, WindowsDriver, DriverContract |
| **Attempt finality** `managed-change/src/attempt-finality-*.ts` | process, lease and Attempt receipts | reconcile, record | partial finality, repeated reconciliation | AttemptFinality |
| **Workspaces** `workspace/src/local-git-workspace-manager.ts` | worktrees on branches of their own | prepare, inspect, dispose | compensation; an Agent at work in the tree | GitWorkspaces |
| **Verification** `verification/src/` | none | run a command, observe it, judge adequacy | exit, output and timer in any order; a verdict over many inputs | CommandVerifier, PilotTask, Adequacy |
| **Managed change flow** `managed-change/src/real-change.ts` | a Run, a lease, a send reservation | the order of all of the above | crash between any two; the repository moves | ManagedChange |
| **Engine host, Pi process** `pi-host/src/task6-engine-host.ts`, `qualified-pi-process.ts` | operation table; process lease of a directory | start, send, interrupt, checkpoint, reconcile, close; run Pi | repeated operation, lost answer; two Pis in one directory | EngineHost, PilotTask |
| **Packages, plugins** `pi-host/src/pi-package-resolver.ts`, `plugin-activation.ts`, `plugin-manager/` | snapshots, bindings, registry journal | inspect, install, disable, remove, activate | directory changes while it is read; killed half-way through a removal | PackageInstall, PluginRegistry |
| **Updater, portable release** `updater/src/` | current release, intents, journal, migration | qualify, apply, roll back, reconcile | crash between journal and pointer | Updater |
| **Pilot** `pilot/src/` | capture journal, evidence archive | record a fact, run a task, finalize, evaluate, archive | spending outside the journal; facts never corrected; racing writers | PilotCapture, PilotDraft, PilotTask, PilotEvaluation, PilotArchive |
| **CLI, configuration, scripts** | none | parsing and wiring | — | where they drive a part above |

Interaction. A flow (CLI, managed change) calls `DurableWorkflowKernel.dispatch`; it reads the segment files, replays
them into an `InMemoryWorkflowKernel`, lets that decide, and appends the event through `FileWorkflowEventStore`, which
takes the mutation lock of the state root and writes through the storage controller. `RecoveryCoordinator` and
`CheckpointCoordinator` are callers of the kernel. A flow acquires writer leases, has the process host start Pi under
them through a driver of the platform, and turns the receipts of both into the Attempt's finality, on which recovery is
built. Leases, Evidence, archives and receipts use the same lock and the same atomic publication. Nothing is shared
between processes except files, so all concurrency is between file-system calls, between the awaits of one process, and
between a process and the children it watches.

What makes each part correct is stated as properties where it is modelled (section 3) and as hazards in `PROJECT.json`.

## 2. Modules

```
WorkflowKernel ──────► Recovery            Mutex ◄── MutationLock (implements it)
     │                    │                  ▲
WorkflowKernelProofs  RecoveryProofs         └── EventStore ──► EventLog (implements it)

WriterLease ──► ProcessHost ──► AttemptFinality      LinuxDriver ──┐
                                     │               WindowsDriver ┴► ProcessDrivers ──► DriverContract
                           AttemptFinalityProofs                      (both implement it)
RunArchive ──► DeviceImport
TreeScan  EvidenceStore  ManagedChange  GitWorkspaces  CommandVerifier  Adequacy  EngineHost
PackageInstall  PluginRegistry  Updater  PilotCapture  PilotDraft  PilotTask  PilotEvaluation  PilotArchive
```

`XProofs` holds the theorems about `X`; besides those above there are MutationLockProofs and EventStoreProofs. Three
gather small components, a section each: ProcessProofs (CommandVerifier, ProcessDrivers, TreeScan), PilotProofs
(EngineHost, PilotTask, ManagedChange, PilotArchive, EvidenceStore, PilotCapture, PilotDraft, PilotEvaluation) and
ComponentProofs (RunArchive with DeviceImport, GitWorkspaces, PackageInstall, PluginRegistry, Updater).

`MC*` modules give constants their values, add symmetry sets and, in MCDurableStore and MCComponents, put parts that
share no state side by side. The mutated definitions (`X_Something`, each marked *Mutant*) are what the
properties were tried against; nothing in the specifications uses them.

### WorkflowKernel
One Run. Variables are the facts `replayWorkflowEvents` collects from the log; every derived status (`executionStatus`,
`verificationStatus`, lifecycle) is an operator that recomputes it, as the code does at each replay. One action per
command of `dispatch`; a rejected command throws before anything is stored, so it is a stuttering step. `Accepting` is
the check `dispatch` makes for all commands but CREATE_RUN and ARCHIVE_RUN. `ReplayAccepts…` are translated
separately from `validateReplaySemantics`, so that the two copies of the rules can be compared. Attempts and Checkpoints
are named by their position; fingerprint equality with the plan is one Boolean (`bound`); the six resource budgets are
one; time is an integer.

### Mutex, MutationLock
`Mutex` is what `withDurableMutationLock` promises: one operation at a time, and a dead owner keeps nobody out.
`MutationLock` has one step per file-system call or liveness probe of the protocol: publishing the lock with `link(2)`,
looking for a guard, snapshotting and probing the owner, electing a reconciler by linking the claim, re-reading,
identity check and removal as two calls, recovery of a dead reconciler's claim. The liveness endpoint answers
`NOT_FOUND` exactly for dead processes. A file's identity is the process whose record it holds, which never returns;
inode reuse is therefore outside the model. Both the lock and the event store are steps of one process at a time, with
the same operators for it under different names (`Step`, `ClientStep`), so that MCDurableStore can hold both.

### EventLog, EventStore
`EventLog` is what callers rely on: each dispatch takes effect atomically or not at all, an acceptance is durable, a
rejection left nothing behind; an unknown outcome may be either. `EventStore` is dispatch over the files: read and
decide outside the lock, take the lock (through `Mutex`), compare cursors, ensure the reserve, write, release the reserve
on ENOSPC and write again, restore the reserve, look for the event after an error, unlock, read again and answer.
Which commands a log admits is reduced to: the Run is created once, and of the `Exclusive` commands only one.

### Recovery
`RecoveryCoordinator.recover` and `CheckpointCoordinator.maybeRecord` over the *same* actions as WorkflowKernel (the
module EXTENDS it). A coordinator reads the Run (`Begin`), asks the reconcilers and captures Evidence (`Proceed`,
`Replay`, `Refuse`), then sends RECORD_OBSERVATION, RECORD_ATTEMPT_FINALITY and RECOVER_ATTEMPT as separate steps,
and reads the Run again for its answer. Commands are atomic: that is what `ImplementsEventLog` establishes for
EventStore; losing the cursor race is one of the things `Abort` stands for. `live` is the outside world: an Attempt's
process tree and leases. The reconcilers (workspace, engine, operations, finality) are external; together they pass only
if the Checkpoint's Attempt is not live, and the Finality Receipt they return for a Checkpoint is always the same one.

### WriterLease, ProcessHost, AttemptFinality
Three layers of one composition. `WriterLease` has one step per operation of the file lease manager, because each runs
inside the mutation lock and publishes one transaction; the lease history is its latest record, a transaction its
operation, request and receipt. What is not atomic is a crash before the rename, which leaves a pending file that makes
every operation fail until a manager is created again, and the clock, which can be set back behind committed state.
`Renew` belongs to the manager's own specification only: nothing that starts a process renews.
`ProcessHost` EXTENDS it: `start()` and `#finalize` await by await, by two hosts whose sessions live in memory. The
durable reservation is the binding of the leases, made before the driver is called; a driver that reports a failed start
may have left a tree (`DriverRejects`). Its driver is abstract and reports what `DriverContract` lets it. `cancel` and
deadlines only change why a tree ends, and are in the drivers. `AttemptFinality` adds the Checkpoint that names what an
Attempt holds and `reconcileAttemptFinality` over the durable receipts: this is the reconciler that Recovery assumes.

### DriverContract, LinuxDriver, WindowsDriver, ProcessDrivers, TreeScan
`DriverContract` is all the process host relies on: one settlement, TERMINAL only over an empty tree, at most one
acknowledged cause, which the settlement reports. Each platform module has the driver and its helper as two processes,
with a sequence of controls one way and of events the other; the pipes may break at any time and take what is in them
along, the helper may die, timers may fire, and the target may exit and leave descendants. On Linux the driver has the
deadline and the helper polls; on Windows the helper has both and the tree is a Job Object that dies with its handle.
A scan is one truthful step there. `ProcessDrivers` puts both beside the contract and has the mappings. `TreeScan` is
the scan itself, read by read against processes that fork and exit: a list of `/proc` children and the stats of those on it are separate reads. It cannot be made exact; the property says
how far from it the code is.

### RunArchive, DeviceImport, EvidenceStore
The archive store on both devices. An operation runs under the store's lock, so what interleaves is a crash and the next
operation; a publication is a link and an unlink, and `Exact` is the reader's demand for a single link. A package's
content is canonical, altered or live; its checks are predicates on that. `DeviceImport` EXTENDS it with the importer,
whose own records tolerate two links. `RetrySpec` is one operation retried for ever. `EvidenceStore` is `capture` with
its write, the fallback to a digest, the second read after the fallback's cause, and the Run's stop.

### ManagedChange
`runRealManagedChange`: several changes compete for one working tree. A change writes under a lease which a recovery
gives up and takes again, and it compares exact fingerprints where it resumes. The Run is reduced to what the flow reads
of it (`PREPARED`, sent, recorded); the pilot's journal to its send reservation. An operator clears the tree between
changes only. Errors release the lease, crashes do not, and either way the same change may be run again.

### GitWorkspaces
One worktree and its branch, prepares and disposals by await, and the Agent that works inside. git is external: it
refuses to remove a tree with changed files or to delete an unmerged branch, and does not protect ignored files. A
disposal is of a preparation that is done; whether the worktree it meets is still that one is looked at once, before its
first await, so that it may remove a later preparation's (`Strayed`, and the finding below). The removals of the worktree,
of the branch and of the record are steps of their own, in a disposal and in the compensation of a failed prepare. The
last one of a disposal deletes whatever record the identity has by then, also that of a newer preparation, which can no
longer be disposed of. `alone` remembers whose commits nothing but their branch reaches, whatever becomes of the tree.

### PackageInstall, PluginRegistry
`PackageInstall` reads a package directory file by file and several times (fingerprint, manifest, snapshot's listing,
copy), while the user or an install worker writes, also back to an earlier content. `PluginRegistry` has the commands
that write registry, snapshot and binding in turn, killed between any two, and the launch of a session, which takes no
lock and reads all three. The registry's own rules about one record are external. Three things make a launch fall back to
Safe Mode although the journal is as it was, and are upsets of the model: the engine, platform or distribution changed
since a plugin was qualified (`outdated`: `verifyCurrentCompatibility`, until it is registered anew); the temporary file of a
binding could not be removed (`LINKED`); an append to the journal was reported as failed but is visible, so that the install
took back the files of a plugin that is registered (`disowned`).

### Updater
The manager with every durable write of manager and release adapter a step. Each operation takes the lock and reconciles
first. Mishaps are crashes and errors of the adapter (`Failure`); checks may fail at no cost. What the adapter can undo
depends on the state directory: `clearTree` removes a directory without `recursive`, which always fails, so a flat state
directory is cleared and copied back, and one that has directories in it (`nested`, chosen at the start) is never taken
back. `removeWritableTree` has the same flaw: a discard always leaves a remnant of the version, with the candidate's file
or without it.

`reconcile` therefore cannot settle everything, and `Irreconcilable` is the list of what it throws at, now and on every later
launch. `UpdateIsRecoverable` says how an update gets there. Crashes alone never lead there with a flat directory.
Once a call of the adapter has failed there are two shapes, and no third: the intent of a rollback, which names its target
as candidate and as predecessor, with the release it came from restored (`windows-portable.ts:951`); and a migration whose
rollback failed and whose candidate was discarded all the same, so that `#readCandidate` throws from then on
(`manager.ts:885`, `windows-portable.ts:953`). The documents promise more (`docs/09-release-and-update-strategy.md:97`): an
interrupted migration is to be settled on the next launch. A qualification whose cleanup fails has both an APPLIED and a
FAILED receipt, which is the one exception to one receipt per operation.

`Commit` writes COMMITTED without a look at the state directory, as the adapter does; if that is torn at the time nothing
names the backup any more (`LOST`, and the finding below).

### EngineHost, PilotTask, CommandVerifier
`EngineHost` is the operation table: JavaScript runs a call up to its next await without interleaving, which is one
action. `PilotTask` is one Pi process in one directory as three callers use it (`Duties`): a managed change, the pilot's
quick task, its raw comparator. It holds two leases that are files, reads the repository in two calls (status, then HEAD
and contents), and has an independent command run between two readings. An inspection or an observation that throws ends the task
(`InspectionThrows`). Every edit is a new content; a path that
returns to earlier content between two readings is out of the model, and out of the code's reach. `CommandVerifier`
is one command with two pipes, heirs that keep them open, the output limit and the timer, whose SIGTERM the command may
obey at once, late or never. The tree the command runs in is not in that module: it is PilotTask that relates a command
to a tree.

### Adequacy, PilotEvaluation, PilotDraft
Verdicts over documents. `Adequacy` and `PilotEvaluation` start from a document that earns the best verdict, change up to
two items of it to anything the schema allows, and have it judged: faults in one place are reached, and those in two
that could cancel out. Their properties state the verdict a second time, declaratively. The frozen plan of
`PilotEvaluation` is one the plan's schema accepts: a quick task, three forced interruptions on three different managed
tasks, three paired tasks, of which one is managed and was not interrupted (for the fixback). The saving of the raw
comparators is such that one fact more or less decides. `PilotDraft` is about documents
that grow: a session accepts facts one at a time and never corrects them, while the evidence has a schema over all.
Where the code adds up a list (requests, facts, steps; also the bytes of `EvidenceStore` and the usage of
`PilotCapture`), the model counts the units of its items, which is the same number; where it sorts samples and takes the
one at a rank, the model takes the sample of that rank. Neither needs a fold, so both can be reasoned about.

### PilotCapture, PilotArchive
`PilotCapture` is the session's journal and the Provider spending outside it: an intent with a reservation is durable
before the send, and runners die anywhere. `PilotArchive` is the store the evidence is sealed in, file by file, with
racing writers, readers that give out handles, and a package that may be lost.

## 3. Runs

| Run | Checks | Bounds, and why they are enough |
|---|---|---|
| `kernel_recovery` | `TypeOK`; `ProjectionIntegrity`: every reachable Run passes the integrity check its archive needs; `ReplayAccepts`: whatever `#decide` accepts `validateReplaySemantics` accepts; `ContinuationIsGrounded`; `LoopPolicyHolds`; `FinalityFreezes` | 3 Attempts, 2 Checkpoints, 2 observations, 2 holdings, 2 failure fingerprints with a repeated-failure limit of 2, a budget of 2, 9 events: enough for a third Attempt after two different failures, a repeat that the limit refuses, and a Checkpoint before and after an event; `LoopPolicyIsKept` is about chains of any length |
| `kernel_gates` | `ReadyIsEarned`, `ExhaustedRunEnds`, `OutcomeIsFinal`, `LateFactsAreInert` | 1 check, 1 gate, 1 review, 2 Attempts, all decisions and outcomes, 9 events: one superseded and one last Attempt with every receipt |
| `kernel_late_input` (violation) | `NoRetryCrossedInput` | as above |
| `durable_store` | of the lock `ImplementsMutex`, `LockFollowsOwner` (the holder keeps its lock, and nobody leaves one behind), `DeadOwnerIsRecovered`; of the event store `StreamIsReplayable`, `ImplementsEventLog` | lock: 3 processes, 2 crashes: a dead owner, a dead reconciler and a survivor; store: 3 clients, one creation and two exclusive commands, 1 death: two clients decide on one prefix while a third dies or finds the disk full |
| `lock_two_crashes` (violation) | `MutualExclusion` | 4 processes, 2 crashes |
| `attempt_runtime` | `TreeIsGuarded` (one writer per workspace, the leases outlive the tree, one tree per start), `AttemptFinalityIsSound`, `SessionsAreFinalised` | 2 hosts, 1 crash, a start under two leases, a rival lease for one of the workspaces, times 0 and 1 with a lifetime of 1: a lease expires while its tree runs, is asked for by another owner, and the clock is set back |
| `components` | 19 properties, one or two of each part (below) | below |
| `import_resume` (violation) | `InterruptedImportResumes` | one import, one interruption |
| `recovery` | `SafeHandover`, `RecoveryIsExact` (from the latest Checkpoint, and as the request asked), `RecoveryResumes` | 2 concurrent calls of one identity, 2 Attempts, 2 Checkpoints, 1 interruption: a recovery is interrupted after each of its commands, repeated, and overtaken by the other call |
| `recovery_answer` (violation) | `AnswersOwnAttempt` | 2 identities and 3 Attempts, so that a complete other recovery fits in between |
| `workspace_cleanup` (violation) | `CleanupKeepsNewGeneration` | 2 prepares, 2 disposals |
| `update_migration` (violation) | `TornStateIsMendable` | as in `components`, with 3 mishaps |

CHECK_DEADLOCK is off everywhere because all of these systems may stop: a Run is archived, every process has left,
the bound on events is reached.

`components` puts parts that share no state into one run: `focus` is chosen at the start, the part in focus moves and
the others stay as they begin. The state space is the sum of the parts', not their product.

| Focus | Property | What it says, and the bounds |
|---|---|---|
| scan | `WrongVerdictDodgesEveryList` | two scans call a live tree empty only if a process exited between each of the six lists and its stats; 3 processes at a time |
| linux, windows | `DriversKeepContract` | both drivers implement `DriverContract`; a caller's cancel beside the timer or a second cause |
| device | `ArchiveFactsHold`, `DeviceImportIsExact` | durable facts hold and a repeated operation clones its policy once; 2 operations on one profile with different policies, a third request with altered content, 2 stops |
| evidence | `OneEnvelopePerEvidence` | one envelope per identity, growth below the Run's stop; 3 identities of which one is critical, 2 contents, 2 faults |
| change | `ChangeIsSound` | GO is about one verified tree, no Attempt sends twice; 2 changes, one of them a pilot task, 3 states of the tree, 1 failure |
| update | `UpdateIsSound` | crashes alone leave nothing that reconcile cannot settle, failed calls two exact shapes; the journal tells the truth; 2 releases, 3 requests (qualify, apply, rollback), each repeatable, a flat and a nested state directory, 2 mishaps: a call of the adapter fails and so does its undoing, or the process dies in it |
| workspace | `WorkIsKept` | a failed prepare takes back its own worktree only, a disposal takes no ignored file it saw, and the branch of a commit that nothing else reaches is there, even if the commit came after the inspection; 2 prepares, so that a later one can meet the end of a disposal, 2 disposals. That a third generation may meet the compensation of the second after a disposal strayed is left to `WorkStaysKept`, which has any number |
| plugin | `RegisteredIsBacked` | a registered plugin has its binding and whole snapshot, unless an install that reported failure registered it; Safe Mode has a cause that the property lists; 2 plugins, 2 journal entries, 2 upsets (`MaxUpsets`): a kill and a failure passed over, or a changed runtime |
| capture | `SpendingIsAccounted` | at most one send is not in the journal; 2 runners, 5 operations, two of them for one fact |
| task | `PassIsProof`, `OnePiPerDirectory` | a PASS is about the tree the command ran on; 2 tasks of all kinds, 2 mishaps (an edit of the tree, or a fault) |
| engine | `SendsOnce` | an operation reaches the Provider once and all its receipts agree; 2 callers, 4 calls, one operation with two requests |
| install | `OneTreeIsActivated` | what a session activates is one tree; local, git and npm, 2 edits, 1 fault |
| adequacy, evaluation | `AdequacyIsExact`, `EvaluationIsExact` | the verdict is exactly what its declarative statement says; 2 changes of a good document, in the evaluation one about 5 tasks (1 quick, 4 managed), 3 interruptions, 3 comparators and 9 requests |
| sealing | `OneTrustedArchive` | all trusted handles are of one archive; 3 writers of two facts, 1 death, 1 lost package |
| command | `VerdictIsTheCommand` | PASS only for a command that ended by itself with zero and in time, and no byte is missing silently; 2 bytes per pipe, a limit of 2 |
| draft | `CaptureIsSealable` | from the first fact on, no accepted fact makes a later one, or the evidence, impossible; 3 tasks, 1 interruption, 1 comparator, 2 names of each kind: every count of the schema as small as still leaves a choice; `CaptureStaysSealable` has them as they are |

`OnePiPerDirectory` makes an exception that is in the code: a start that `host.start` reports as failed gives up its
leases (`managed-process-host.ts:277`), although its tree may run, so that a second Pi can start there. A Provider scope
that is gone ends a capture in STOP, and the property says so.

**Fairness.** Four runs need it. `durable_store`, which puts the lock and the store side by side as `components` does,
assumes for the lock weak fairness of each process's own next step: a process
that has not died keeps executing its loop. Giving up after 200 attempts is possible on every round, and fair only for a
process with a reconciliation claim in hand (`AttemptsRunOut`), which does nothing but try to link until then.
`recovery` assumes weak fairness of a coordinator's steps, of the Checkpoint command already under way, and strong fairness of
*somebody asking again* for the latest Attempt from its latest Checkpoint with a fresh identity — there is no timer in
the code that retries a recovery, an operator or flow does. The owner is under no fairness: processes need not
end, and the property only speaks of Attempts whose processes have ended. `attempt_runtime` assumes weak fairness of the
awaited calls of a live host, per host and request: a session's `awaitFinal` settles (a driver may always settle
UNRECONCILED), releases and publishes. Nothing is assumed of crashes, restarts, the clock or calls nobody makes.
`import_resume` assumes that the importer keeps being called and keeps taking its steps, which is the most a caller
can do; the counterexample is therefore not one of a caller who stopped.

### What the violations show
* `kernel_late_input`: an INPUT_REQUESTED observation may be recorded for an Attempt that has a successor already;
  from then on `assertRunProjectionIntegrity` rejects the Run ("crossed required user input"), so that it can be
  neither summarised nor archived, although each command was accepted.
* `lock_two_crashes`: identity check and removal of the claim path are two calls. If an owner and then its reconciler
  die, the slower of two recoverers removes the claim that the faster has just published, and two operations
  end up inside the lock. Two crashes and four processes are needed; with three processes the lock holds.
* `recovery_answer`: `recover` reports the last Attempt of a projection that is read after the append. If a second
  recovery completes in between, the first caller is given the second caller's Attempt. A test pins the answer to the
  caller's own identity. The managed flow compares the two and stops, so the effect is a spurious block.
* `import_resume`: a process that ends between the link and the unlink of an archive intent or receipt leaves a file
  with two links, which every later operation of the archive store refuses. The documentation promises that an import
  resumes at every boundary of an atomic write; it resumes at all others.

* `workspace_cleanup`: `dispose` compares the fingerprint of the request once, before its first await. Of two disposals of
  one preparation that overlap, the first completes, the identity is prepared again, and the second removes the new
  worktree. A test promises that a delayed cleanup cannot delete a newer generation; it covers the delay before
  the comparison only. `WorkIsKept` therefore speaks of histories in which no disposal has strayed so.
* `update_migration`: an apply whose activation fails after the pointer was published, and whose restore fails too, takes
  the migration back although the candidate is current. If the process dies between the two copies of that
  rollback, the next `reconcile` finds the candidate current and commits the migration: the torn state directory stays,
  and its backup is forgotten. It takes three mishaps; `UpdateIsSound` promises that torn state has a prepared
  migration *until something is committed over it*, and that crashes alone never lead there.

`EventStore` uses `Mutex`, and the stores and leases take their lock for granted, so their results hold as long as the
lock does: for the crash patterns `durable_store` checks and `LockIsSafe` proves.


## 4. Proofs

Everything is proved for arbitrary constants, numbers of processes included, under the assumptions each module names.
TLC evaluates them in every run of the module. They are of four kinds.
* What a schema or a constructor enforces: `PlanAssumption`, `LeaseAssumption` (a lifetime is positive),
  `ArchiveAssumption` (an import names an archive and has content of it), `DeviceAssumption` (a request has a policy, and
  its import is one), `UpdaterAssumption` (a request names a release and a hosted run; its identity is not one that
  `reconcile` makes up), `EvidenceAssumption` (critical identities are identities), `CaptureAssumption` (an operation is of one
  of the three kinds), `DraftAssumption` (a frozen plan is finite, its fact counts are positive, and there are names
  enough for a fact of each task, platform and update, as there always are of identities and digests) and
  `EvaluationAssumption` (the plan is finite, a task expects an outcome of its mode, the three interruptions are of three
  different managed tasks, three tasks are paired, one of them managed and not interrupted, some task is quick, and there is
  at least one sample of each measure).
* Which cause a caller stands for: `LinuxAssumption`, `WindowsAssumption` (the timer's is TIMEOUT), `HostAssumption` (a
  request's leases are leases and have owners), `EngineAssumption` (a caller derives an operation's identity from what it
  does, so one identity is of one kind).
* Names for "nothing" are nobody's: parts of `LockAssumption`, `StoreAssumption`, `RecoveryAssumption`,
  `ChangeAssumption`, `TaskAssumption`, `WriterAssumption`.
* Bounds are numbers: the rest. They are constants like the others, so the theorems hold for all of them, with the one
  exception noted at the lock.

*WorkflowKernelProofs*
* `TypeCorrect` — `TypeOK` is inductive by itself. The work is in the continuations: that an admitted request stays
  inside the remaining budget and time follows from the guards, not from the request's own type.
* `FinalityIsFinal` — the action property `FinalityFreezes`. From `TypeOK`, each command either adds no observation or
  Checkpoint or has the guard `~Finalised` on the Attempt it adds to.
* `OutcomesAreFinal`, `LateFactsChangeNothing` — `OutcomeIsFinal` and `LateFactsAreInert`. The lifecycle is a function of
  facts about the current Attempt: of those that `CurrentFactsKept` lists, a fact about a superseded Attempt changes
  none, and neither does ARCHIVE_RUN, the only command without `Accepting` once there is an outcome.
* `ReadyAlwaysEarned`, `ExhaustedRunsEnd` — `ReadyIsEarned` and `ExhaustedRunEnds` need `ReceiptsInv`: receipts are unique
  per Attempt and subject, and bound. The rest is how READY and its siblings are derived, by cases over what the
  required receipts say.
* `ContinuationsAreGrounded`, `LoopPolicyIsKept` — `ContinuationIsGrounded` and `LoopPolicyHolds`. The first is the
  guard of a continuation made permanent: the log only grows (`FactsGrow`) and each predicate the guard cites is monotone
  in the facts, the verification status included, because one failing receipt keeps it failed (`FailedStatus`). The
  second orders the whole chain by induction from the latest link.
* `AcceptedCommandsReplay` — `ReplayAccepts`: the two copies of the rules agree, command by command. The validator has no
  notion of an outcome, so the step to its guards needs `ArchivedHasOutcome`.
* `ProjectionsAreIntact` — `ProjectionIntegrity`, as four invariants of their own: of the Attempt chain
  (`AttemptsSound`), of Checkpoints and of Finality Receipts, and `CursorSound`, that the cursor is the number of facts,
  which is about cardinalities.

*RecoveryProofs*
* `HandoverIsSafe` — `SafeHandover` of Recovery. It is not inductive: RECOVER_ATTEMPT is sent on the strength of a
  reconciliation two commands earlier. `HandoverInv` adds that the Attempt a coordinator read as the latest never lies in
  the future (`ReadsThePast`) and that from its reconciliation to its last command that Attempt is final
  (`FinalWhileSending`); the kernel's guard that the predecessor is still the latest Attempt then gives the step.
* `RecoveriesAreExact` — `RecoveryIsExact`. `ExactInv` relates what a coordinator remembers (`Remembers`: the Checkpoint
  it asked for is the one its predecessor's Finality Receipt names, or will name before it starts anything) to what the
  log says whoever wrote it (`RunIsExact`): a Finality Receipt names the latest Checkpoint of its Attempt, every link of
  the chain names that Checkpoint too, and a name was used once.

*MutationLockProofs*
* `LockIsSafe`, `LockExcludes` — `LockFollowsOwner` and `MutualExclusion` for any number of processes, as long as at
  most one of them dies. `LockInv` says of each process what its next call may rely on (`Sound`): between link and unlink
  of the lock or of the claim the path has its record, and whoever is about to remove an owner under a claim has found it
  among the dead. With one death a claim always belongs to a living process (`DeathFirst`: there is no claim before the
  death, and the one who died is not the claimant), so no claim is ever recovered, and the two calls of a removal see
  one file. `durable_store` checks the same for three processes with two deaths, and `lock_two_crashes` shows that
  four processes with two deaths break it: the assumption `MaxCrashes <= 1` cannot be dropped.
* `LockImplementsMutex` — the refinement `ImplementsMutex`, step by step under the same assumption: the link of the lock
  is Mutex's acquire, its unlink the release, the removal of a dead owner's file the recovery, all else a stutter.

*EventStoreProofs*
* `StreamReplays` — `StreamIsReplayable`. A decision is taken without the lock and written under it. `StoreInv` keeps
  what a client decided tied to the cursor it read (`Decided`: its event may follow the first `base[c]` segments,
  whatever came later), and to the end of the stream once the comparison under the lock has passed; `LockKept` is that
  those inside are alone, which the abstract `Mutex` gives. The stream is spoken of by its segments (`Chained`,
  `Admitted`); three lemmas carry this to the sequence the reader builds.
* `StoreImplementsLog` — the refinement `ImplementsEventLog`. The abstract append is the publication of the segment; the
  answer a client gives later must agree with it, so `DispatchInv` adds what a client knows of its own event at
  each point (`Remembers`): before its write it has published nothing and seen no error, after it either its event is recorded, or
  the cursor is where the client read it.

*AttemptFinalityProofs*
* `TreesAreGuarded` — `TreeIsGuarded`. A start is several awaits and the host may die at each; `HostInv` says that one
  call at most starts a request, and only under its durable binding (`BoundOnce`), and that from the last inspection
  before the spawn until the tree has ended the leases are active and bound to it (`GuardedWhileAtWork`).
* `FinalityIsProof` — `AttemptFinalityIsSound`: a FINAL receipt is of an ended tree whose leases are gone (`FinalSound`), a
  release receipt is that of the lease's release (`ReleaseSound`), and neither is ever undone; so the Evidence that the
  reconciler derives from receipts alone is true, and stays so (`EvidenceSound`).

*ProcessProofs*
* `VerdictsAreTheCommand` — `VerdictIsTheCommand` for every output limit (how the command ended and what it printed; in
  which tree it ran is not its subject). `BytesAreAccounted`: of each pipe, what was
  kept and what is still in it is all that was written, unless the pipe is marked as cut; `DoneIsOver`: once the
  verifier is done nobody can write any more and the pipes are empty.
* `DriversKeepTheContract` — both drivers implement `DriverContract`, for any callers. The driver knows its helper only by
  the lines it reads, late and in order, and the pipe may break between any two. `TrueLines` (`JobLines`) is the set of
  lines that are true of the tree now, and every step keeps true what was (`Onward`), so that a line stays true until it
  is read. Acknowledging a call and settling the terminal state are the contract's two visible steps.
* `EmptyVerdictsAreDodged` — `WrongVerdictDodgesEveryList`. `ScanInv` follows the scan: every living process hangs from
  the helper (`Rooted`, said of all sets of them, for there is no recursion here); a scan that has found nothing walks no further
  than the helper (`WalkIsShort`); and every list it read to the end has cost an exit, while the one being read has cost
  one or still holds a process that is there (`ListsAreDodged`).

*PilotProofs*
* `EngineSendsOnce` — `SendsOnce`. The invariant follows a send from its claim to its record (`SendsAreWhere`): before
  the boundary the operation is unknown and has not crossed, beyond it has crossed once and runs or is recorded, and a
  record, once there, is never replaced, so all receipts that were given out agree with it (`AnswersAreRecords`).
* `AcceptedTasksAreProof`, `DirectoriesAreNotShared` — `PassIsProof` and `OnePiPerDirectory`. `PiIsHeld` is which lease a
  task holds at which point; `ProofIsGathered` orders the readings: contents only move forward, so a tree read equal
  before and after the command was that tree all the time in between.
* `ChangesAreSound` — `ChangeIsSound`: the lease says whose the working tree is (`TreeIsOwn`), also while a recovery has
  given it up and compares on return; `SendsAreRemembered` has every send before the durable Run says so.
* `ArchiveIsOne` — `OneTrustedArchive`, for any number of writers, deaths and deletions. An identity receipt is written
  only where there is none, and a package or commit receipt only by a writer that has read the identity as its own
  (`WritersAreBound`), so the other two files follow the identity and every handle is backed by it.
* `EnvelopesStayOne` — `OneEnvelopePerEvidence`. Until its link a capture's identity has no envelope, and what it was
  admitted with still fits below the stop when it is put (`CaptureFits`); the stored bytes are a cardinality, which
  grows by the size of what is put.
* `SpendingStaysAccounted` — `SpendingIsAccounted`, for any operations and runners. The journal and the intents are one
  book: every intent but the pending one is completed by the event at its own place (`IntentsInOrder`), each send has its
  intent and who is about to send is alone with the pending one (`SendsHaveIntents`). From these a task is sent for once
  (`SpendsOnce`), usage fits the budget (`UsageFits`), and a sealed session has nothing pending (`SealedIsSettled`).
* `CaptureStaysSealable` — `CaptureIsSealable`, for every finite plan and any order of facts. `DraftInv` says of each
  kind of fact that those recorded have places of their own (`OwnPlaces`) and agree with the plan and each other
  (`ManagedFit`, `ComparatorsFit`, `NamesFit`, `RequestsFit`). A missing fact then still has an acceptable value, because
  recorded names are fewer than there are; and complete facts fill every place, which is what the schema asks.
* `EvaluationStaysExact` — `EvaluationIsExact`, whatever was changed in the evidence. What the schema and `identityProblems`
  accept is a matching: one result and one proof per task (`Matched`, from equal cardinalities by `OneEach`), every
  planned interruption reported once (`AllReported`). Counts over lists then equal counts over tasks, the percentile is
  over its target exactly when more samples than the rank leaves are (`RankIsOver`), and a sum does not depend on the
  order of the list (`TotalsAgree`).

*ComponentProofs*
* `ArchiveFactsAreTrue`, `DeviceImportsAreExact` — `ArchiveFactsHold` and `DeviceImportIsExact` from one invariant: the
  operation under way may rely on what `Prepared` says of its kind, each fact has those it speaks of (`ImportsAreBound`,
  `DevicesAreBound`), and only an export is ever removed (`DeletedStaysDeleted`).
* `WorkStaysKept` — `WorkIsKept`. Until a disposal strays, a worktree being made is its maker's and a branch a disposal has
  left is the one it was asked about (`TreesAreOwned`), so every removal is sound (`RemovalsAreSound`). The last part
  holds whether or not one strays: the commits in `alone` are those of the branch that is there, not merged
  (`BranchesKeepWork`), and each step that could take the branch has git's refusal in it. Take that guard away
  (`BranchDeletes_Forced`) and the property fails.
* `ActivatedTreesAreOne` — `OneTreeIsActivated`: a snapshot is what its name says unless it was damaged later, because
  the copy is compared with the name it was collected for (`InstallIsInOrder`).
* `RegisteredPluginsAreBacked` — `RegisteredIsBacked`: the lifecycle lock makes the command at work the only writer
  (`CommandIsInOrder`), and a session that found no newer journal entry still reads what it read, or falls back for one of
  the causes in `Excused` (`LaunchReadsThis`).
* `UpdatesAreSound` — `UpdateIsSound` for any number of mishaps. What reconcile finds is what some step left, so the
  invariant says at each step which of intent, migration and qualification it has written (`IntentIsOfStep`,
  `QualificationIsOfCurrent`), which releases it may still have to return to (`ReleasesAreThere`), that an apply that
  may have to take its migration back still has one (`StateIsMendable`), that before the adapter has failed nothing is ever
  undone by an operation itself (`NothingIsStuck`), and that a receipt is only appended by an operation without one
  (`ReceiptsAreTrue`). A rollback takes its target from the last of some receipts;
  that there is one is the well-foundedness of the naturals.

Only model-checked: the liveness properties (`DeadOwnerIsRecovered`, `RecoveryResumes`, `SessionsAreFinalised`), since
fairness is beyond the prover, and `AdequacyIsExact`. That one is about two depth-first searches, which `Adequacy` keeps as
the recursive operators they are: that a search finds what there is takes induction over the graph, and the prover
takes neither recursive operators nor induction theorems. Every other invariant and action property of the passing runs
has a theorem. The violations are runs: no theorem says that a property fails.

## 5. Not modelled, and the plan

Left out on purpose:
* redaction, formatting, hashing and schema parsing beyond what they reject; configuration, doctor, launcher, probe and
  the parsing and printing of the command line: they keep no state between steps;
* readers that scan a directory during a publish (`event-store.ts`), `listRunIds` and the kernel's ambiguity check;
* inode reuse behind the identity checks of the lock, which the operating system may or may not do;
* concurrent captures of one Evidence identity: the owning Run makes its captures one after the other;
* a file that returns to earlier content between two readings of a repository (PilotTask): no reader could tell;
* the process host's `read` and `heartbeat`, which move no durable state; the Provider's own events behind a handle;
* the operating system, git, the gh CLI and npm, which are external and answer nondeterministically;
* `task6-runner`, its fixture and `task6-evidence`, which drive the same kernel over fixed inputs or build documents; the
  hosted qualification, which only reads; development probes and packaging scripts.

Next, in this order:
1. Mutation lock with two deaths and three processes: an invariant for what `durable_store` checks.
2. `EventStore`: the reader of a directory during a publish, and the ambiguity check of `recover`.
