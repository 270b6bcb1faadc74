# CodeConductor: a TLA+ verification project

CodeConductor queues coding jobs, runs each job as a sequence of *attempts* of
an untrusted worker in a disposable git worktree, verifies the proposals and
keeps all evidence in plain files. It has no database: atomicity comes from
`rename` and `mkdir`, mutual exclusion from a lock directory, and everything
must survive the death of the process between any two file operations. That is
what this project models.

## 1. Inventory

| Part (under `src/src/`) | State | Operations | Hard behaviour | What makes it correct |
| --- | --- | --- | --- | --- |
| Transition journal (`storage/transitions.ts`) | one directory per revision, one projection file | `commitTransition`, `readLatestTransition` | concurrent writers, death between publishing and projecting, slow projections | compare-and-swap; no lost, duplicated or regressing revision |
| Queue store (`queue/queue-store.ts`) | queue items, dispatcher lock, lease generation, evidence, reconciliation mutex | enqueue, read, list, update, reconcile, lease operations | several processes, dead owners, stale inspections | one owner; only the dead are robbed |
| Artifact store (`storage/artifact-store.ts`) | jobs, attempt manifests, cleanup records | reserve, transition, register, append | as the journal | legal transitions; cleanup derived from evidence |
| Dispatcher (`queue/dispatcher.ts`) | in memory: lease, state lock, active executions | enqueue, submit, start, stop, cancel, retry, loop, recovery | await points between reads and writes, cancel against completion, crash at every step | no duplicated work, no lost item, budgets kept, cancellations settle |
| Conductor (`orchestrator/conductor.ts`) | in memory: abort handles, executions | reserve, claim, launch, execute, recover, remove workspace, reconcile helpers | worker processes that outlive the dispatcher, partial cleanup | evidence before every claim of completion or safety |
| Process runner and guardian (`runtime/`) | guardian and worker processes, control files | start, abort, time out, report termination | owner death, lost events, callbacks that fail, a killed guardian | "proven" only when the tree is gone; no worker without a durable guardian identity; every run ends |
| Reconciler (`reconcile/`) | proposals, approvals, results | inspect, apply | stale proposals, crash between mutation and result | exactly-once application of what was approved |
| Retention (`retention/gc.ts`) | plans, action records, tombstones | dry run, apply, inspect | stale plans, plans applied twice or at once, crash during deletion | deletes only what is terminal, expired and not waiting for a review, worktree first, and accounts for every file |
| Sources (`sources/`) | watches, run manifests | poll, compile, enqueue | crash between enqueue and manifest | idempotent intake |
| Model service (`model-service/`) | service record, start fence, child process | observe, load, unload | two starters, dead owner, exit watcher beside transitions, late proofs | one starter; no process abandoned |
| Review packets (`review/`) | packet directory | seal, validate, read | evidence that changes while it is read | sealed evidence never changes |
| Workers, sandbox, workspaces, verification | none of their own | build command lines, run them | failures of external programs | appear as outcomes of the attempt |
| MCP server, console, CLI, spec intake | none of their own | forward requests | start and shutdown order | (part of Dispatch) |

Interaction: the MCP server, the console and the source service call the
dispatcher; the dispatcher holds the lease, writes queue items and calls the
conductor; the conductor writes attempts and cleanup records through the
artifact store and runs processes through the runner; queue items and attempts
both go through the transition journal. Callbacks (guardian ready, process
ended, execution promise) come back without the dispatcher's state lock.

## 2. Modules

| Module | Models | Built on |
| --- | --- | --- |
| `Contracts` | statuses, legal-transition tables, `deriveCleanupStatus`, `projectQueueCompletion` | |
| `AtomicRecord` | what the journal promises: a compare-and-swap record | |
| `TransitionJournal` | `commitTransition`, `readLatestTransition` and the comparison that `commitQueueUpdate`, `transitionAttempt` and `transitionAttemptCleanup` make around them; one action per file operation | refines `AtomicRecord` |
| `TransitionJournalProofs` | the theorems about it | |
| `DispatcherLease` | election, renewal, release and repair of the dispatcher lease; one action per file operation | |
| `DispatcherLeaseProofs` | the theorems about it | |
| `Dispatch` | the dispatcher process, queue items, attempts, worker processes, crash and recovery | `Contracts`; every durable update is one atomic step, as `TransitionJournal` justifies |
| `DispatchProofs` | the theorems about it | |
| `Reconciler` | `RuntimeReconciler`: the classifier, approval, application, replay, beside the dispatcher | composes with `Dispatch`, whose recovery steps it shares |
| `ReconcilerProofs` | the theorems about it | extends `DispatchProofs` |
| `ProcessRunner` | one call of `runProcess` with its guardian on POSIX and on Windows and the worker's process tree | |
| `ProcessRunnerProofs` | the theorems about it | |
| `Retention` | `RetentionManager` and `removeAttemptWorkspace`, several processes | uses the atomic cleanup record that `TransitionJournal` justifies |
| `RetentionProofs` | the theorems about it | |
| `ModelService` | several `ModelServiceManager`s with one endpoint, one record file and one start fence | the guardian's result is that of `ProcessRunner` |
| `ModelServiceProofs` | the theorems about it | |
| `MC...` | the instances for TLC | |

### How state corresponds to the code

*TransitionJournal.* `journal` is the set of complete revision directories,
`projection` the JSON file beside it. A writer reads (`StartRead`,
`FinishRead`: projection first, then the journal), and an update reads again
(`StartUpdate`), compares (`Stage` or `RejectUpdate`), renames its staged
directory (`Publish` or `PublishConflict`) and refreshes the projection
(`WriteProjection`). The three stores differ only in names, so one module
stands for the three. `Crash` is a death, an I/O error or a failpoint anywhere.

*DispatcherLease.* `dir` is `dispatcher.lock` with its identity (birth and
modification time) and the owner in `lease.json`; `evidence` and `buried` are
the paths under `lease-evidence` that exist, which is what makes the second of
two stale renames fail. A process is one incarnation: a restart is a new
member of `Procs`. Expiry times are left out because no decision depends on
them. Two assumptions come from the repository's words, not its code: a process
identifier is not reused while a file names it, and the owner who approves the
quarantine of an incomplete lease has verified that nobody is initializing it
(the text of the proposal in `inspectLease` asks for exactly that).

*Dispatch.* `item` and `attempt` are the durable records with the fields that
decide anything; a dispatch operation UUID is a small number; an attempt is
named by its job and ordinal. `attempt[a].proc` and `.ws` summarise the cleanup
record: its process trees and its worktree. `tree` is the operating system's
truth about the processes, which recovery only sees through guardians. `lock`
is `withStateLock` with the place its holder has reached, `exec` the
`executeItem` calls, `live` the abort handles, `pass` what `dispatchAvailable`
listed, `rec` the progress of `recoverInterruptedItems`. Every `await` that
lets another callback run between two updates is a boundary between actions.
Storage and adapter errors are modelled where the code lets them escape
(`PassThrows`, `ClaimFails`, `LaunchFails`, `AwaitFails`, `RejectExecution`,
`FinishItem`), also where the code that handles an error fails itself
(`FailItemFails`) and inside `cancel()` after its first update (`CancelFails`).
`Contained` are the jobs whose commands run under kernel containment, that is, on
Windows. Elsewhere `RecordTermination` may record proof while processes live on, as
`ProcessRunner` shows, and `Succeeded` (`assertProcessCleanupProven` after a command
that ran to its end) never holds, so such a job may fail, be cancelled and be
retried, but is not completed.

*Reconciler.* A caller walks through `applyRuntimeAction` one await at a time;
`approved` holds the actions (their intents never change, so writing one is
only a step of the caller), `results` the `result.json` files, `holder` the
lease. `Offers` is `inspectQueueAttemptRelationships` as a set of proposals.
An evidence token is a hash over whole records with their revisions: a proposal
carries instead the records of its token that were updated since they were
read (`moved`), which every step that writes a record brings up to date
(`AgeProposals`). An update that changes nothing the model keeps does not age
a token; in the code such an action is refused, in the model it may be applied,
so the model allows more. The copy of the evidence inside a completion is
reduced to the status it implies. The dispatcher and the reconciler share
`RecoveryStep`, as they share `recoverInterruptedAttempt`.

*ProcessRunner.* `owner` is how far `runProcess` has got, `chain` what its
`callbackChain` is at, `seen` what it has learned from guardian events, `start`
and `stop` the two control messages (a line and the end of standard input on
POSIX, two files on Windows), `events` the guardian's output not read yet.
`guardian` is `process-guardian.mjs`, on Windows together with
`windows-job-host.ps1` around it. `tree` is the operating system's truth: the
worker, a descendant in its group or job and, on POSIX, one that made a session
of its own. The POSIX signal to the guardian's process group finds no such group
(the guardian is not detached) and has no effect. A start message that is
written after the channel was closed is lost. Writing the Windows stop file is
taken to succeed: `requestWindowsStop` keeps the promise of its first write, so
that a failed one is never repeated (`process-runner.ts:173`).

*Retention.* An attempt is its manifest, its cleanup record reduced to the
latest evidence on the process tree and on the worktree, and its prunable files.
A plan is a file that any owner may apply whenever it likes. Every await between
a check and the change that relies on it ends an action: `Validate` looks at one
candidate, `RemoveFile` removes one file, `removeAttemptWorkspace` is checked,
registered, looked up, run and recorded in five steps. Conflicts between two
writers of a cleanup record are the refusals of the journal (`Contended`). A
plan's expiry only refuses and is left out, like unreadable evidence.

*ModelService.* `disk` is `model-service.json`, which is replaced without
comparing revisions; `mem` is `this.record`, `handle` is `this.ownedProcess`,
`fence` the directory `start-fence` with its two claim files. The transitions of
a manager are serialized, so `pc` has one place; `observeUnexpectedExit` runs
beside them (`watch`), and its write may be overtaken by theirs (`late`). A
transition's own write is one step with its change in memory: a death in between
is a death before it. A record keeps what decides anything (revision, profile,
ownership, kind and status of its operation); the states it displays are left out. A process is
named by its manager and a number, because the handle compares guardian nonces.
One assumption is about time: a live manager needs less than the two seconds
after which a fence without an owner counts as abandoned to write its claim.

## 3. Runs

| Run | Instance | What it shows |
| --- | --- | --- |
| `transition_journal` | writers that race on one record, legal and illegal changes, bounded revisions | the record is atomic: no lost update, acknowledged updates durable, no read refused by a projection ahead of its journal, refinement of `AtomicRecord` |
| `dispatcher_lease` | 4 processes, 4 identities, 2 generations, symmetric | one owner, never robbed, one repairer, only dead processes' directories preserved, fencing generations. Four processes are needed for the repairer: a dead owner, a dead repairer and two rivals |
| `dispatch_liveness` | one contained job, 2 attempts, 1 automatic retry, with fairness (`MCDispatchLiveness`) | executions are bound and visible, recovery settles everything, only legal transitions, with a crash at every step; cancellations settle unless a storage error takes the item from everyone who would settle it, ready items are dispatched, recovery ends |
| `dispatch_lineage` | a contained parent with 2 attempts and a child without containment, one slot | a child only builds on completed, eligible proposals, also when the parent is retried meanwhile; the concurrency limit |
| `reconciler_matrix` | one job without containment; every combination of a readable item with up to two attempts (a status for each case that recovery tells apart), whoever wrote them; two callers of one approved action | nothing is offered exactly when nothing is inconsistent; repairs neither repeat nor undo each other; an action updates the queue at most once, whoever dies where |
| `reconciler_dispatch` | one caller beside the dispatcher, a contained job with 2 attempts | repairs lead neither to duplicate work nor to completion without evidence, and rewrite no terminal evidence, also while the dispatcher goes on executing without its lease |
| `process_runner` | POSIX and Windows, with and without a cleanup invocation, at most one killed guardian, with fairness | on Windows proven termination means an empty tree; on both no worker before its guardian's identity is durable; the evidence on a tree is not lost; nothing starts after the run has settled; a timeout, an abort or the owner's death ends the tree; every run settles |
| `retention` | 2 attempts (one with a retained worktree) of 2 files, 2 plans, 2 owners, one MCP caller with one call, one death, symmetric | only what is expired and not waiting for a review is pruned, worktree first; every deleted file is accounted for; a completed action has removed what it names; no plan is replayed |
| `model_service` | 3 managers (two with the same profile, one with another and no launch section), 2 launches each, one death, three workloads | one starter at a time while nobody has died; no supervised process without a handle |
| `stale_callback`, `lease_release`, `orphan_requeue` | one job | findings, see section 5 |

*Bounds.* `dispatch_lineage` ends a behaviour with the child's only attempt
(`Unfinished`), after which no lineage is recorded any more; in it the worktree of the
parent's first attempt is kept and the removal of the second succeeds, because a removal
can only forbid a retry (`dispatch_liveness` has no such bound). The variable `lost` of
`MCDispatchLiveness` is a history variable: it remembers for which jobs
`FailItemFails`, or `CancelFails` before the launch, has happened, and constrains
nothing. `MaxRevision`, `MaxGeneration`, `Ids`, `MaxAttempts`,
`MaxAutoRetries`, `Removable` (the jobs whose worktrees the owner removes),
`Callers` and `Actions` bound the state. `reconciler_dispatch` also has the
constraint `Calm`: once a second attempt exists nobody cancels or stops, the
process that reserved it survives, no older report is approved and no recorded
action is repeated; and the view `Pending`, which forgets the proposal of an
action whose result is recorded (nothing reads it again). The constraint
`OneByOne` of `reconciler_matrix` lets a caller that only reads a report, or
repeats an action with a recorded result, do so while the other is idle: neither
changes any record. Two attempts of a job are enough for
every property that speaks of a stale and a current attempt; ordinals beyond
the second repeat the same relation, and exhaustion of the budget is reached
(`PassThrows`). A file, an attempt, a plan and a process of each kind and one
more of each let two of them meet in every order, which is what the retention
and model-service properties are about; the second launch of a manager is what a
stale watcher needs, and the workloads of `MCModelService` are the combinations
in which managers meet. `MaxKills` and `MaxDeaths` bound the faults. Deadlock is
checked except where a system may stop for good: all processes of the lease may
be dead, a run of `ProcessRunner` ends, and no plan and no request has to come.
The callers of the reconciler are interchangeable, so `reconciler_matrix`
uses their symmetry.

*Fairness* (`Dispatch!Fairness`). The process runs its callbacks and loops
(weak fairness of its own steps); the state lock is a FIFO chain of promises,
so a waiter is served although others take the lock in between (strong fairness
of steps that need the lock); `attemptTimeoutMs` ends every attempt and every
process tree is killed at its timeout (strong fairness of ending, weak fairness
of trees). Requests, crashes and restarts are never assumed. In `ProcessRunner`
the owner's event loop runs while it lives, its timer fires and the guardian runs
(weak fairness); the worker may run for ever and nobody has to abort.

Each property of a passing run has a seeded fault (`X_Fault` before `X`) that
breaks it, so that no property holds for want of behaviour. The type invariants
of `Reconciler`, `ProcessRunner`, `Retention` and `ModelService` say which values
the variables take; no run is spent on them, and the last three are proved as part
of the inductive invariants of section 4.

## 4. Theorems

`TransitionJournalProofs` proves, for every set of writers, every set of
values, every transition table and every revision bound, all invariants of the
run, `RevisionsContiguous`, `LatestNeverRegresses`, and that the journal
implements `AtomicRecord`.
The inductive invariant `IInv` strengthens them by: revisions are unique and
downward closed (`Unique`, `DownClosed`), a nonempty journal has a latest
snapshot (`HasLatest`, which replaces a finiteness argument), what was read was
published (`ReadsPublished`), and a staged record answers the record its
writer holds (`FreshAnswersHeld`). The last one is what makes the rename a
compare-and-swap: the revision is free exactly when the record held is still
the latest.

`DispatcherLeaseProofs` proves, for every set of processes, every set of
identities and every generation bound, everything the lease run checks:
`TypeOK`, `MutualExclusion`, `LeaseIsNeverStolen`, `OneRepairer`,
`OnlyTheDeadArePreserved` and `GenerationsFence`. None of them is inductive.
The invariant `LInv` adds who may still touch what: a live maker of the lock
directory is building it or holds its lease (`DirInv`); whoever repairs owns
the mutex in place, and whoever is about to evict a mutex read a dead owner
whose mutex is either still there or already filed (`MutexInv`); a directory
that still has the identity an inspection judged has a dead maker, and one that
was judged again under the mutex has not moved (`TokenInv`). `MutexInv` is
where filing a dead mutex under its own instance matters, `TokenInv` where the
second comparison of the evidence token does. The theorems rest on three things
the code relies on too: a directory's birth time and a mutex UUID are never
reused while somebody remembers them, a dead process does not come back under
the same identity, and the person who approves the quarantine of a directory
without `lease.json` has verified that no dispatcher is still initializing it.
The run's instance satisfies `LInv` as well, which TLC was used to confirm
before the proof.

`DispatchProofs` proves, for every set of jobs with any dependencies between
them, every attempt, retry and concurrency limit and every choice of
contained, retained and removable jobs (`DispatchAssumption`), all invariants of
the two dispatch runs, their action properties `RecoverySettles` and
`StepsAreLegal`, and `NoDuplicateWork` and `CompletedHasEvidence` of the dispatcher
without a reconciler beside it. The inductive invariant `DInv` says what the dispatcher process
may rely on between two awaits:

* what the holder of the state lock has found out is still true (`LockInv`), and
  the items of its pass are still queued (`PassInv`);
* per job (`JobOK`): when an item names an attempt (`ItemOK`); which attempt its
  execution works for, and that an outcome in memory is that of an ended attempt
  (`ExecOK`); that only the named attempt has an abort handle or a process tree, and
  every other one has ended or never got beyond its reservation (`NamedOK`); the
  evidence behind a completed item (`EvidenceOK`);
* a completed attempt was contained (`RecordInv`), and the record of a contained attempt
  admits the processes that are there (`TreeInv`), which is what recovery, seeing only
  records and guardians, depends on;
* what a stage of recovery has not settled is in its list, and an attempt that it
  calls safe to retry has ended and, when contained, has no processes (`RecInv`).

What is said of process trees is said of contained jobs, in `NamedOK` and in
`WorkIsNotDuplicated` as well: without kernel containment it is false (section 5).
`CompletedHasEvidence` needs no such premise, because only contained jobs complete;
everything else holds for both kinds of jobs, in any mixture.

`NamedOK` is the core of `NoDuplicateWork`: a retry clears the name, so it must be
shown that nothing of the old attempt is left at that moment, in memory, on disk and
in the operating system. The proof first shows what every step keeps of the attempts
(`AttemptsOK`: an ended record is final, only an attempt with an abort handle gets a
process tree, a contained one's record admits the tree), then one lemma per group of actions, with
frame lemmas for the jobs that a step does not touch. TLC confirmed `DInv` and
`AttemptsOK` on the instance with one job, with and without containment, before
they were proved.

`ProcessRunnerProofs` proves the safety properties of the run `process_runner` for
both platforms (`ProvenMeansGone` is about Windows) and any number of killed
guardians. Its invariant `RInv` ties what
the owner has learned to what the guardian has done: a start message exists only
after the guardian's identity is durable, and a worker only after a start message
(`StartInv`); termination is claimed to be proven, in an event on its way or by the
owner, only of an exited Windows job host, which has emptied its job (`TreeInv`); a
guardian that nobody killed has reported on its tree (`ReportInv`); a settled run's
guardian has exited or was never asked for a worker (`OwnerInv`).

`ModelServiceProofs` proves `OneStarter` and `NoAbandonedProcess` for any number of
managers, launches, deaths and any workload. Its invariant `SInv` says that while
nobody has died the fence belongs to the one manager between `mkdir` and `rmdir` and
nobody finds a reason to evict it (`FenceInv`); and that a manager launches only when
its handle is gone or dead, and that the handle is the process its transition
captured, or was cleared by the watcher (`HandleInv`).

`RetentionProofs` proves everything the run `retention` checks for any number of
attempts, files, plans, owners and deaths. The invariant `GInv` consists of facts
that only grow (an attempt stays prunable, a worktree stays gone, files only
disappear, revisions rise, a tombstone is written once), so that what one process has
checked is still true when another has acted in between (`AttemptInv`, `PlanInv`,
`ActorInv`); and of the accounting: the file sets of plans for one attempt are nested,
each file is deleted by one process in one application of one plan (`DeletedInv`), a
completed action has removed what its plan names, and a plan under which something was
deleted has a candidate that no longer passes `revalidate` (`ActionInv`).

`ReconcilerProofs` proves `AppliedOnce`, `EveryInconsistencyHasAnAction` and
`OutcomesAreImmutable` for any number of callers and actions, beside the dispatcher,
and on any records: `AnySpec` starts from every store of the right types (`StoreInv`),
whoever left it behind, and `EmptyStore` shows that `ReconcilerSpec` is one of its
cases. None of the dispatcher's invariants is used, since two writers interfere with
them. The invariant `CInv` says that an action whose token still holds is still needed, that an
action which was applied has a token that no longer holds (`ActionOK`), and that what
a caller has read is what is there unless it was overtaken, and what it is about to
write differs from what is there (`CallOK`). So `AppliedOnce` does not rest on the
lease: the update is a compare-and-swap, and since it changes the item, it ages the
token of its own action. `CInv` was confirmed by TLC on the instances of both
reconciler runs.

The theorems rest on the named assumptions of the modules and nothing else. They say
that bounds are natural numbers, that the chosen jobs, attempts, managers and plans
are members of their sets, and that a model value such as `None` is none of the values
it is compared with. Dependencies need not even be acyclic: a job in a cycle is never
dispatched.

Only model-checked: liveness under fairness, which is out of the prover's reach
(`CancellationSettles`, `ReadyItemsAreDispatched` and `RecoveryEnds` of `Dispatch`,
`StopEndsTree` and `RunSettles` of `ProcessRunner`), and `RepairsConverge` of
`Reconciler`, which is a property of repairs that run without a dispatcher: beside one,
the attempt's cleanup may change between the check of a token and the update, and the
repair is then offered once more. Its proof needs the reconciler lease, on which `CInv`
does not depend.

## 5. Findings

Three statements of the documents that the code does not keep, each with a run
that shows how:

* `StaleCallbackChangesNothing`: the completion of an attempt can be applied to
  an item that was cancelled and retried meanwhile, which undoes the retry.
* `LeaseCoversExecutions`: a submission while the loop drains starts an
  execution that the drain does not wait for; the lease is released under it.
* `OrphanIsRequeued`: a crash between the two updates of an orphan's recovery
  makes the next recovery end the job as cancelled.

One more has no run of its own. When something kills a POSIX guardian between the
start of the worker and its report, the run counts as never started, hence as proven
(`process-runner.ts:366-369`), although the worker lives; its attempt ends as failed
with safe cleanup, and `retry()` may start a second worker beside the first.
`docs/hardening-register.md:64-66` says that "absence that cannot be proved quarantines
the attempt and blocks retry", lines 77-79 that POSIX process groups "remain `unknown`
and cannot authorize retry", and `docs/runtime-contract.md:238-240` and
`docs/architecture.md:162-168` say the same. Both `ProcessRunner` and `Dispatch` reach
it. `ProvenMeansGone` and `NoDuplicateWork` are therefore stated for the lane with
kernel containment, the only one for which the documents claim unattended use; on
POSIX neither is claimed here, and neither holds.

Behaviour that no document denies, which the models reach and a reader of the
properties should know:

* A storage error inside `cancel()` after the item is cancelling
  (`dispatcher.ts:192-199`), when the attempt was not launched yet, leaves the item
  cancelling: `executeItem` returns early and a repeated `cancel()` returns the item as
  it is (204). An error of the update in the catch clause of `executeItem`
  (`dispatcher.ts:383-390`) leaves it running or cancelling. Only the recovery of the
  next start settles such items, which is what `lost` excepts in
  `CancellationSettles`.
* On POSIX no termination is proven once a worker has run, so that a run with a
  cleanup invocation always fails there.
* An abort between the check at the entry of `runProcess` and the registration
  of its listener is not heard; the timeout still ends the run.
* The endpoint is not probed again after the start fence is taken, so a second
  process may be launched behind the first one's back. It finds the port taken.
* A judgement of a dead manager's fence may be late and evict the fence of the
  manager that replaced it, hence the premise of `OneStarter`. A manager that
  dies between `recovery.claim` and the rename leaves a fence that nobody
  recovers: later starts end in a startup timeout.
* `fail()` writes the manager's own record over a newer one of another manager.
  The handle, not the record, is the authority to stop a process, which is why
  `NoAbandonedProcess` holds all the same.
* `completeCurrentOperation` (`manager.ts:788`) completes whatever operation the
  adopted record requests, also the stop that another manager has requested of a
  process that still lives. A completed stop is thus no evidence that the process
  is gone, and no property says so.
* `stop()` asks whether the model is in use and stops it later; a job may start
  in between.
* Two concurrent removals of one worktree may leave failed evidence although the
  worktree is gone, and two applications of one plan a failed action although
  one of them completed. A later removal, or a new dry run, settles the first.

## 6. What is not modelled, and the plan

Not modelled: building command lines and prompts, hashing, git, HTTP and the
console's pages, schema parsing, the contents of logs, the loop of the OpenAI
Responses runner inside its worker process, review packets (one reader that
hashes files of a terminal attempt). They have no protocol state that two actors
share; where their failure matters it is an outcome of the step that uses them.
Also left out: leases of other hosts and unparsable lease files (the code only
waits, or proposes the owner's quarantine), and the loss of a page cache at
power failure.

Order of what comes next:

1. `RepairsConverge` as a theorem about reconciler callers on any records, with the
   exclusion that their lease gives and the currency of what its holder has read.
2. `Sources`: the poller, the watch store and the idempotent intake, with a crash
   between the enqueue and the manifest.
3. `AttemptExecution`: `executeAttempt` with its setup, worker and acceptance
   operations, external resources and budget breaches, shown to implement the
   attempt part of `Dispatch`.
4. The killed POSIX guardian of section 5 as a run of its own: `ProvenMeansGone` for
   both platforms, violated.
