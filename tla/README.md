# A TLA+ verification of snapd's engine

snapd installs, refreshes and removes snaps. Everything it does to a system is a
*change*, a graph of *tasks* that is run, undone, interrupted by crashes and
resumed. This project models that engine and the loop that drives it, the reboots
it asks for, the try and commit of kernels and bases those reboots are for, the
transactions of confdb, and the protocol by which devices assemble into a cluster. TLC checks the models on small
instances, and TLAPS proves the properties that matter most for every instance.

Run a model with `tlc -config <X>.cfg <MC module>`, check the proofs with
`tlapm TaskRunnerProofs.tla` (and `WakeupProofs`, `RestartManagerProofs`,
`AssembleProofs`, `GossipProofs`, `ConfdbProofs`, `EnsureLoopProofs`, `BootProofs`).
`PROJECT.json` maps every definition to the lines it models, and lists the runs,
their properties, a mutant that breaks each property, the hazards and the theorems.

## 1. Inventory

### Components, their state and their operations

| Component | Source | State | Operations | Here |
|---|---|---|---|---|
| Changes and tasks | `overlord/state/{change,task}.go` | status, waited status, lanes, wait and halt tasks, clean flag, ready channel | `SetStatus`, `SetToWait`, `Abort`, `AbortLanes`, `AbortUnreadyLanes`, derived `Status` | `Change`, `TaskRunner` |
| Task runner | `overlord/state/taskrunner.go` | tombs, stopped, someBlocked | `Ensure`, `run`, `tryUndo`, `clean`, `abortLanes`, `Stop` | `TaskRunner`, `Saga` |
| State and checkpoints | `overlord/state/state.go` | all of the above, and the file on disk | `Unlock` (checkpoint), `ReadState`, `Prune` | `TaskRunner` (abort half of `Prune`) |
| Restart manager | `overlord/restart/restart.go` | restart parameters of a change, boot id of a request, callback | `FinishTaskWithRestart`, `TaskWaitForRestart`, `processRestartForChange`, `StartUp`, `Stop` | `RestartManager` |
| Daemon restarts | `daemon/daemon.go` | attempts at a reboot | `RebootDidNotHappen`, `RebootAsExpected` | `RestartManager` |
| Overlord loop, state engine | `overlord/{overlord,stateengine}.go` | ensure timer, managers | `Loop`, `ensureBefore`, `Stop` | `EnsureLoop`; the order of stops in `RestartManager` |
| Cluster assembly | `cluster/assemblestate/*.go` | trust, addresses, routes, queries, session | auth, routes, queries, devices, their handlers, commit, resume | `Assemble` |
| Boot | `boot/`, `bootloader/assets/data/grub.cfg`, `overlord/devicestate`, `overlord/snapstate` | kernel links, kernel status, modeenv, sealed key | `SetNextBoot`, `MarkBootSuccessful`, selection in the initramfs, `FinishRestart`, undo, `InUse` | `BootTry` |
| confdb | `overlord/confdbstate` | queue of accesses, ongoing transactions, databag | `waitForAccess`, read, write, commit, clear, rollback | `ConfdbAccess`, `SerialStore` |
| Configuration | `overlord/configstate` | config transaction | get, set, commit | planned |
| Snap state, snapshots, interfaces | `overlord/{snapstate,snapshotstate,ifacestate}` | revision sequence, conflicts, connections | task handlers | planned in part |
| Notices, prompting | `overlord/state/notices.go`, `interfaces/prompting` | notices, rules, prompts | add, wait, expire, reply | planned |
| Hooks, services, device, fde, store, asserts, patches, daemon API, command line | | | mostly I/O, parsing and cryptography | not modelled |

### How the components interact

The overlord's loop calls `Ensure` of each manager; the task runner is the last.
A pass of `TaskRunner.Ensure` holds the state lock, walks all tasks, and starts a
goroutine for each handler that is due. Handlers take the state lock for their own
critical sections; when they return, the goroutine takes the lock, records the
result, and asks the loop for another `Ensure` if there may be more to do. Each
`Unlock` writes the state to disk. Each `SetStatus` may close the ready channel of
the change and calls the status callbacks: the restart manager's callback turns
restart parameters into a reboot when the change has run out of tasks to run. After
a start `StartUp` of the restart manager gives waiting tasks the status they waited
for. The API and `Prune` abort changes. Devices of a cluster only meet through HTTP
requests; on one device a server and three goroutines share one lock.

snapd and the next boot meet only on disk: snapd writes the modeenv, reseals the
key, and sets links and a status; the bootloader moves the status on, the initramfs
reads what is left of it, and snapd reads it again when it is up. Requests to a confdb wait on a channel each, without the
state lock; whoever ends a transaction, gives up or leaves sends the tokens to those
who come next.

### What is hard

* *Interleavings*: aborts that land while a handler runs; handlers that set their
  own status; a handler that ends between the check and the start of another one;
  replies of peers that arrive while the lock was released.
* *Crashes*: between the steps of a pass, of an abort, between an effect and its
  checkpoint, between a wait and its reboot, between a reply and a commit.
* *Ordering*: statuses are set one at a time and each one is observed.
* *Lost wakeups*: one flag (`someBlocked`), one token in a channel
  (`PendingOutgoingQueries`), one timer, one token for each access to a confdb.
* *Power cuts*: between the modeenv, the reseal, three links and a status that
  cannot be written at once.
* *Bounded retries*: reboots that do not happen; retries with a delay.

`PROJECT.json` has the list, each hazard at its line and with the properties that
would catch it going wrong.

### What makes each component correct

* Runner: dependencies are respected forwards (`PrerequisitesDone`) and backwards
  (`UndoOrder`); the checkpoint tells the truth (`EffectsMatchStatus`); seen from
  outside a change is a saga (`ImplementsSaga`); lanes are
  atomic (`LaneAtomicity`); readiness is exact and final (`ReadyExact`,
  `ReadyIsFinal`, `NeverUnreadyAgain`, `CleanupWhenReady`); nothing gets stuck
  (`NoLostWakeup`, `WaitIsDetected`, `Settles`).
* Restarts: a wait always has its reboot (`RebootNotForgotten`,
  `WaitAsksForReboot`, `WaitingChangeIsRebooted`); classic systems are left alone
  (`ClassicNeverReboots`); attempts are bounded (`RestartTypeOK`).
* Assembly: routes join devices that trust each other (`MutualTrust`,
  `RoutesToPeers`); nothing is taken for known that is not (`PeersKnowRoutes`,
  `QueriesAnswerable`); the graph becomes complete (`Converges`), and completeness
  means what it says (`CompleteIsConnected`, `TooManyMeansMoreDevices`).

* Loop: no request is slept over (`NeverSleepsPastARequest`), each is followed by a
  pass (`Served`).
* Boot: the device always boots (`NeverStuck`, `Recovers`), and falls back only to
  what has come up (`CurrentIsGood`); initramfs and snapd know what runs
  (`MountsRunningKernel`, `FinishedIsRunning`).
* confdb: seen from outside, it is a store with many readers or one writer
  (`ImplementsStore`, `Isolation`, `NoInternalError`); a queue that moves on
  (`SomebodyUnblocks`, `OneToken`, `EverybodyGetsATurn`).

## 2. Plan

1. `Change`, `TaskRunner` and their proofs. *Done.*
2. `RestartManager`, composed with the runner, shown to implement it. *Done.*
3. `Assemble` and the proofs of all its safety properties. *Done.*
4. `EnsureLoop`: the ensure timer, its lock and the loop, with proofs. *Done.*
5. `BootTry`: try and commit of kernel and base over power cuts, with proofs.
   *Done.*
6. `ConfdbAccess`: accesses, transactions and their changes, shown and proved to
   implement the abstract `SerialStore`. *Done.*
7. The abstract `Saga` (the effects of tasks appear in an order that respects the
   dependencies and disappear in the reverse order) implemented by `TaskRunner`;
   `NoLostWakeup`, `WaitIsDetected`, `WaitAsksForReboot` and `LaneAtomicity` as theorems.
   *Done.*
8. The revision sequence of snapstate; notices; prompting; `CheckTaskDependencies`
   (`change.go:836-904`) and the removal half of `Prune` as algorithms checked
   against reference definitions.

## 3. The modules and the code

### `Change`

The pure part of `overlord/state`: the task graph as constants, and the questions
the code asks of statuses: `MustWait` (`mustWait`), `EffectiveStatus`,
`ChangeStatus` with `isChangeWaiting` and `isTaskWaiting`, `LaneTasksToAbort`
(`abortLanes`), `UnreadyLanes`, `PendingForSystemRestart`. `Lanes[t]` is a sequence
and not a set because `abortLanes` stops looking at the lanes of a task at the first
one that is killed (`TrackedLanes`).

### `TaskRunner` (extends `Change`)

| Variable | Code |
|---|---|
| `status`, `waited`, `clean`, `later` | `Task.status`, `waitedStatus`, `clean`, `atTime` in the future |
| `ready`, `panicked` | `Change.ready` closed; the panic of `detectChangeReady` |
| `tombs`, `killed`, `stopped`, `someBlocked` | fields of `TaskRunner`; tombs that were killed |
| `ensureSoon`, `wake` | `EnsureBefore(0)`, and the timers of delayed retries |
| `lock`, `pass`, `ab` | who holds the state lock over several steps, and how far it got |
| `disk` | the last checkpoint |
| `dirty` | history: the tasks whose effect on the system is in place |

A pass (`EnsureBegin`, `Consider...`, `EnsureEnd`) and an abort (`UserAbort` or
`PruneAbort` or a failed handler, then `AbortTask`, `AbortLanes`, `AbortEnd` or
`AbortEndWithError`) are one critical section each but many status changes, so they
are many steps: `ReadyExact` is checked after each of them, and a crash can fall
between any two. Every other critical section is one action. `StartUp` reads back
what the last checkpoint wrote, and is the common part of `Crash` and `Exit`.

Choices that a reader should know:

* One change. Tasks of different changes meet only in the blocked predicates, which
  `BlockedBy` stands for, and in the order of the pass, which is arbitrary.
* A handler takes the state lock before it acts, so its effect appears only once the
  pass that started it has been checkpointed: `dirty` grows in `EnsureEnd`.
* A handler that sets its own status returns nil. `state.Wait` as a result is left
  out: nothing in the tree constructs it. All tasks have a do handler.
* `TaskWaitForRestart` is used only by kinds without an undo handler
  (`check-rerefresh`, `process-delayed-security-backend-effects`); its action has
  that as a guard.
* A killed tomb does not force the handler's result: what a handler makes of it is
  its own business.
* `ConsiderTryUndo` is the first half of an iteration: the task stays in the pass and
  is considered again with its new status.
* The tasks halted by aborted ones are visited in any order; the code walks the slice
  `haltTasks` (`task.go:523`), which is one of them.
* `TimePasses` is an action under a free lock; hence its strong fairness.
* The model ends at the panic of `detectChangeReady`.
* Not modelled: `changeClean`, progress, logs, custom data, `OptionalHandlers`,
  `StopKinds`, the removal of old changes.

### `Saga`

The abstract specification of the runner. Its two variables are the tasks whose effect
is in place and the tasks that have failed, which `TaskRunner` maps to `dirty` and to
the tasks that are in Error on disk (`Failed`). Tasks run where their prerequisites
have had their effect; a task is undone by its undo handler, if it has one and has not
failed, once nothing that can be undone builds on it. What a failed task leaves behind
is nobody's business, as in the code.

### `RestartManager` (extends `TaskRunner`)

`params` and `observed` belong to the change, `hook` is the registered callback,
`asked` the boot id of the request (abstracted to "this boot"), `tentative` the
daemon's count of attempts, `onClassic` tells the kind of system, `phase` tells whether snapd only waits for a reboot, and
`rdisk` is the checkpoint of these. `Notify` is `notifyStatusChange` with
`processRestartForChange`; it is a conjunct of every step of the runner, because the
code calls it from every `SetStatus`. `Starts` walks through the statuses that
`StartUp` sets one by one, as the callback sees each of them. `StopManager` and
`StopRunner` are separate steps: the managers are stopped in the order in which they
were added, the restart manager first and the runner last. `Waiting` is a subset of `SelfFinishing`, as
`FinishTaskWithRestart` sets the status itself. `gaveUp` is a history variable. Not
modelled: restarts of the daemon alone, the notification file on classic.

### `Assemble`

`as[d]` is the `AssembleState` of device `d` with its route selector and its query
tracker; operators that take and return such a record are their methods. `auth`,
`gossip` and `talk` are the three goroutines that send, `session` is the last
commit. A request is sent in one step, handled by the peer in a second and its
answer is used in a third, because the lock is released in between; either half may
be lost for devices in `Lossy`. Between an answer and the next request a goroutine
holds the lock, which is why "how a round can go on" (`AuthTurns`, `GossipTurns`,
`TalkTurns`) is part of the same action.

* Fingerprints stand for devices and devices follow the protocol: the errors for
  forged or inconsistent identities are never reached, and are left out.
* The request of a sender that crashes is handled before the crash or is lost; HTTP
  does not duplicate a POST. The commit callback (external) is durable.
* Taking the signal and the first critical section after it are one step.
* The loop over trusted peers iterates over a map that can grow meanwhile; `late` is
  the set of peers it may or may not see.
* Which routes are chosen when there are too many (`edgeSources`) is left open.
* A session's age limit of an hour is left out, as are rate limits and TLS.
* A query in flight may time out at any moment (`QueryTimesOut`), at most
  `MaxTimeouts` times.

### `EnsureLoop`

`timer`, `fired` and `next` are `ensureTimer`, the value in its channel and
`ensureNext`; `pc` is where `loop` is. All times are relative to now: `Tick` makes
them smaller, so that no clock grows. The loop receives from the channel without the lock,
hence `TimerFires` and `TimerReceived` are steps of their own and a stale value can
outlive a `Reset`: `go.mod` asks for Go 1.18, before timers drained their channels.
Between `time.Now` and `Reset` up to `MaxSkew` passes, which is how `ensureNext` can
lie in the past while the timer has not fired, the case `ensureBefore` handles with
`Stop`. `open` is a history variable: the requests after which no pass has begun.
Not modelled: `Loop` called twice, preseeding, `Settle`.

### `BootTry`

| Variable | Code |
|---|---|
| `disk.kernel`, `.try`, `.status` | `kernel.efi`, `try-kernel.efi`, `kernel_status`; or `snap_kernel`, `snap_try_kernel` |
| `disk.kernels`, `.base`, `.tryBase`, `.baseStatus` | the modeenv |
| `disk.sealed` | the kernels whose boot unseals the key |
| `plan` | what a running `commit` still has to write |
| `reverting`, `undoing` | the type whose refresh it undoes; the types whose `unlink-current-snap` has begun to be undone |
| `phase`, `running` | how far a boot got; the kernel the bootloader started, the kernel snap and the base that were mounted |
| `bootOk` | the boot id saved by `ensureBootOk` |
| `refresh` | old and new revision of the change that refreshes the kernel, and the base |
| `bad`, `good` | revisions that do not come up; that have come up (history) |
| `files`, `fresh` | revisions that are installed; those that a refresh which is not over has installed |

`MarkPlan`, `TryKernelPlan`, `RevertKernelPlan` and their like for bases are `commit`
with its tasks before and after the modeenv, as the sequence of contents the disk
goes through; `Commit` makes one of them real, and `PowerCut`, `Killed` and
`WriteFails` end the commit anywhere. `bl` chooses between bootloaders with links
(three writes) and with an environment (one). `Bootloader` is the run script of
grub; `updateNotScriptableBootloaderStatus` does the same for those that have none.

* One file, link or environment is written atomically, as the code takes for granted.
  A reseal is atomic.
* With grub, the one `TrustedAssetsBootloader` (`seal.go:387`, `grub.go:42`), the key is
  sealed to kernels; boot assets, command lines and models are the same
  for both and are left out, as is the gadget. With "env" every kernel unseals.
* When the initramfs fails, the emergency target reboots (`GivesUp`): with a status the
  bootloader falls back, without one every boot is the same, and that is "stuck".
* An undo has two tasks. `UndoKernel` and `UndoBase` set the old revision again (the
  undo of `unlink-current-snap`). `UndoMountSnap` removes the files that the refresh
  installed, unconditionally, as `UndoSetupSnap` does (`backend/setup.go:208-240`, 340);
  only `GarbageCollect`, for old revisions, asks `InUse`. A task that was interrupted
  runs again (`Interrupted`), one that failed does not, and the undo goes on to
  the next one (`UndoReturns`).
* `UndoMountSnap` may come before the reboot that the undo asks for, which the tasks of
  snapd wait for; this only adds behaviours.
* `UndoFaults` says which faults fall into an undo: "cut" lets power cuts and kills fall
  into that of a kernel, "write" lets writes fail in either. All other faults fall anywhere.
* A bad kernel or base reboots the machine by itself (a watchdog or a panic).
* `RefreshKernel` may be taken again for the revision it was taken for: the task has no memory of
  having written the boot configuration (the comment at `handlers.go:2040-2046`).
* A power cut at "off" changes nothing and is left out.

### `ConfdbAccess` and `SerialStore`

`txs` is `confdbTransactions` (`Pending`, `Scheduling`, `ReadTxIDs`, `WriteTxID`),
`tokens` the channels with a value, `pc` the goroutine of an access, `chg` and `tx`
the change it made and the transaction stored in it, `databag` what is committed,
with the transaction that wrote a path last as its value. `Request` runs from the
call to the moment it has made its change or waits; `Proceed` from the token on;
`Cancel` and `TimedOut` are two steps, because between the end of the context and
the lock a token can come. An access of a hook (`FromSnap`) waits for its change and
runs its deferred cleanup only then (`Return`). The tasks of a change run one after the other; a handler and
the record of its end are two steps, and a restart falls in between.

* One confdb; several do not share a queue. `Pending` and `Scheduling` are in the
  state's cache and gone after a restart, the transactions are saved.
* All errors of views, schemas and hooks are one alternative (`Ends`, `Fails`).
* Hooks of one kind are one task. The observe-view hooks and the tasks of
  registered system handlers, which only delay the commit, are left out.
* An abort lets the running task end first; while it runs it is the same as an
  abort just after.

`SerialStore` is the abstract specification: readers or one writer, and commits by
the writer that are atomic. It has three variables, which `ConfdbAccess` maps to
`databag`, `txs.reads` and `txs.write`.

The MC modules hold the graphs, clusters and model values that the configurations
name.

## 4. The runs

| Run | Instance | Shows |
|---|---|---|
| `live` | two serialised snaps, the first of which may finish by itself, the second without undo, and a task after both; any may fail or wait, one retries; an abort, two restarts, fair scheduling | `TypeOK`, `NoLostWakeup`, `EffectsMatchStatus`, `CleanupWhenReady`, `WaitIsDetected`, `ReadyIsFinal`, `Settles` |
| `lanes` | a task shared by two lanes, one more in each, one in no lane; two of them serialised; one abort, one restart | `PrerequisitesDone`, `UndoOrder`, `ReadyExact`, `LaneAtomicity`, `NeverUnreadyAgain`, `ImplementsSaga` |
| `panic` | two independent tasks that may not run together | violates `NeverUnreadyAgain` |
| `restart` | two snaps and a task after both, on Ubuntu Core or on classic with boundaries, each may ask for a reboot; two restarts, two attempts | `RestartTypeOK`, `RebootNotForgotten`, `ClassicNeverReboots`, `WaitAsksForReboot` |
| `lost_reboot` | one task | violates `WaitingChangeIsRebooted` |
| `ensure` | an interval of four, requests with four delays, a timer set up to one late | `LoopTypeOK`, `NeverSleepsPastARequest`, `Served` |
| `boot` | two kernels and two bases, of which the new ones may be bad, both kinds of bootloader, two faults; no failed writes in an undo, no cuts or kills in that of a kernel (`UndoFaults`) | `BootTypeOK`, `NeverStuck`, `CurrentIsGood`, `MountsRunningKernel`, `FinishedIsRunning`, `Recovers` |
| `boot_undo` | the same on grub, with one fault, which may cut the undo of a kernel | violates `NeverStuck` |
| `confdb` | two reads and two writes: one without hooks, one from a hook, two that time out, one that is aborted; one restart | `NoInternalError`, `SomebodyUnblocks`, `OneToken`, `Isolation`, `ImplementsStore`, `EverybodyGetsATurn` |
| `pairing` | two devices start from nothing and expect each other; one loses messages, one restart | `AssembleTypeOK`, `MutualTrust`, `RoutesToPeers`, `CompleteIsConnected` |
| `join` | a third device joins two that know each other, and reaches only one; it expects one other device; one timeout | `QueriesAnswerable`, `TooManyMeansMoreDevices` |
| `converge` | two devices, a second address of one, lost messages, fair scheduling | `PeersKnowRoutes`, `Converges` |

Deadlock is checked everywhere but in `pairing`, where devices that have completed
stop, and in `confdb`, where each access happens once.

### Bounds, and why they are enough

A dependency is between two tasks. In `live` two tasks that exclude each other are
prerequisites of a third, and the one without undo is where undoing has to pass over
a task; in `lanes` a task is a prerequisite and a dependent at once. Four tasks in `lanes` are the least for a
shared task, two lanes and a task outside. One abort (`MaxAborts`) suffices because
errors of handlers abort as well and are not bounded, so that two aborts of
different lanes happen in one run. Two restarts (`MaxRestarts`) allow a crash while
recovering from a crash; a restart happens at every state, between the steps of a pass
or of an abort too. Two attempts (`RebootMaxAttempts`, three in the code) have a first, a last and a
give-up. In `Assemble` two devices have all races between the goroutines of one
device and the requests of another; the third device in `join` is what makes a relay. `MaxPeers = 1` there
forces choices between peers. That third device expects a cluster of two, counts too many
routes and refuses them (`CommitRoutes`, `CommitDevices`), while the others expect no size.

In `boot` a try needs an old and a new revision; a third would only be refreshed to
after one of them is settled, from the same states. Two faults cover a fault in the
recovery from a fault. In `confdb` a queue of three behind a transaction has a write
before a read and a read before a write, which is all `maybeUnblockAccesses` tells
apart; one path suffices, since a commit of several is one write of the databag. In `ensure` the delays
are zero, short, just before the interval and the interval. The theorems of section 5 do not depend on any bound.

### Fairness, and why the code justifies it

`TaskRunner!Fairness`: the overlord's loop calls `Ensure` at least every five
minutes, and a pass or an abort that has begun runs to its end while it holds the
lock (weak fairness); handlers and cleanups return, a handler that may be retried
does not ask for it for ever, and the clock reaches every `atTime` (strong fairness, since
the lock is taken and released in between); a process that was stopped exits and is
started again by systemd (weak fairness of `Exit`, which has `Crash`'s effect but,
unlike a crash, is bound to happen). Nothing forces errors, aborts or reboots.

`Assemble!Fairness`: routes are published periodically and signals are answered
(weak fairness of the goroutines); a request that is repeated for ever is delivered
and answered some time (strong fairness of `RoutesDelivered` and `DevicesDelivered`
with success). Discovery is not forced: `converge` starts with devices that have
authenticated.

`EnsureLoop!LoopFairSpec`: a pass ends and the loop goes on (weak fairness of
`LoopStep`), time passes (weak fairness of `Tick`), and a timer that is due fires.
The last is strong fairness: a goroutine that finds `ensureNext` passed resets the timer
to zero and may do so again and again, but does not win that race every time.

`BootTry!BootFairSpec`: only that a boot, once begun, goes on until it succeeds or
fails. snapd need not do anything for a device to come up, and faults are bounded by
`MaxFaults`.

`ConfdbAccess!ConfdbFairSpec`: a goroutine that has its token or whose context ended
gets the state lock some time, and the task runner runs what is ready (`Settles` is
the same promise in `TaskRunner`), weak fairness for each access. Nobody is forced
to time out, to abort or to ask.

## 5. Proofs

All theorems are about every number of tasks or devices, every graph, every lane
assignment, every mix of handlers and every bound.

**`TaskRunnerProofs`** proves `TypeCorrect` and, from the inductive invariant

    IInv == TypeOK /\ MemoryInv /\ AbortInv /\ ReadyExact /\ CleanMemory
                   /\ DiskInv /\ CleanDisk /\ Saved

the theorems `PrerequisitesTheorem`, `UndoOrderTheorem`, `EffectsTheorem`,
`ReadyTheorem`, `CleanupTheorem` and `FinalTheorem`. Assumptions: the tasks of a
change are finitely many and at least one, `Index` is injective, the constants have
their types. That the wait relation has no cycles is not needed.

Why it is shaped like this. A crash exchanges memory for the checkpoint, so each
property is needed of both: `MemoryInv` and `DiskInv` are the same four statements
about `status` and about `disk.status`. In the middle of an abort memory breaks
`PrerequisitesDone`: a prerequisite is in Undo while its dependent is still Doing.
`Prereq` excepts the tasks that the abort has yet to visit (`Pending`), and
`AbortInv` says that those it has visited are dead and stay so. In the middle of a
pass a handler has been started whose effect is not there yet (`Fresh`). `Saved`
says that memory and disk agree whenever the lock is free. The property of effects
is strengthened to the statuses between Do and Done, through which a task has to get
to Done. The step lemmas (`OnePrereq`, `OneOrder`, `OneReady`, `OneEffects`, ...) say
which single status changes are harmless; each action is one of those.

`FinalTheorem` has `[]NeverUnreadyAgain` as a hypothesis, since the panic that the
run `panic` exhibits is the one thing that makes a ready change move. `PanicNeedsAbort`
says when that holds: whenever neither the user nor Prune aborts the change. An abort
that a failed handler has caused sets statuses one at a time as well, but its cause
is not ready until the end (`PanicInv`, `AbortInv`).

`RefinesSaga` says that `Spec` implements `Saga!SagaSpec`. Each action is a step of the
saga or leaves `dirty` and `Failed` alone (`Quiet`, `Undoes`). The end of a pass, where
the effects of all handlers it has started appear at once, needs `Prereq` and `Effects` of
memory; the return of an undo handler needs `Order` and `Effects`: what is out of the
way and could be undone has no effect, or has failed. `SagaInv` adds that memory and
disk agree on which tasks have failed even in the middle of a pass or an abort, since a
failure and its checkpoint are one step, and that only tasks with an undo handler are undone.

`FailureRollsBack` is what an abort achieves for every assignment of lanes: a task that
can be undone, all of whose lanes are lanes of a failed task, is neither Done nor will be.
`RollbackInv` says it of memory and of disk, and of the time in between what the
abort still owes (`Doomed`): the lanes of the failed task are still to be aborted, or
each task in them is dead or still to be visited.

`LanesRollBack` is `LaneAtomicity`, through `KeptAliveByALane`: when no abort is under way, an
undoable task that is Done, runs or is going to run has a lane without a dead task. Its
invariant `LaneInv` says that of memory and of disk, and of the time in between what an
abort owes (`AbortOwes`): a live task is still to be visited, or has a lane that was not
aborted and is alive or going to be aborted (`Keeps`); an aborted lane has lost a task; and
live tasks in no lanes but those of a dead one go with it (`MatesDie`). The
hypothesis is that lanes are shared as a whole (`SharedAsAWhole`): of two tasks that share a
lane, the undoable one is in no lane that the other is not in, or the other is in lanes
that always come together (`Joined`), or the shared lane has an undoable task of its own. So
snapd makes them: a lane for each snap (`snapstate.go:1608`), the merged lanes of essential and seed
snaps (`reboot.go:551`), the prerequisites of other snaps that join the lanes of the seed
(`reboot.go:496`), and injected tasks, which copy lanes (`handlers.go:4933`). Without it the
property is false. Take tasks *x* in lanes 1 and 2, *t* in 2 and 3, *y* in 1 and 3 waiting for
*x*, *z* in 3, all undoable, and let *x* fail after *t* is done. Holding *y* kills lane 3 as
well; in that round *x* counts for no lane, because its first lane is killed, so lane 2 looks
healthy and keeps *t*, although *x* in lane 2 has failed, against the comment at
`change.go:755-757`. TLC finds it in that instance; snapd makes no such change.

`PanicWithinAbort` is what that theorem needs of the panic: it strikes only with the lock held by
an abort, so whoever finds the state unlocked can rely on `ready`.

`EffectsFounded` follows from the saga alone: the effect of an undoable task that has not
failed rests on the effects of all tasks it waits for.

**`WakeupProofs`** proves `WakeupTheorem` (`NoLostWakeup`) from

    WakeInv == NoLostWakeup /\ PassServes /\ HandlersStarted

`PassServes` carries the promise through a pass: what it has considered stays served
(`Served`) unless the pass itself asks for another one. `HandlersStarted` tells what
state a task can be in while its handler runs, so that the return of the handler can be
held to ask for the `Ensure` that others wait for. For handlers that finish their own task
this is the crux: the task is Done, its dependents are due, and nothing is asked
for until the handler returns (`AwaitsReturn`).

It also proves `WaitTheorem` (`WaitIsDetected`) for graphs without cycles (`Acyclic`: the
tasks can be numbered so that each waits for smaller ones only; `CheckTaskDependencies`,
which the tests of snapstate call on the changes they make, checks it). `SupportInv` is the
invariant: a task in Do waits only for tasks that are live, except for those an abort has yet
to visit, in memory and on disk. So tasks that are stuck on one another lead down, along
the numbers, to one that waits for a reboot. The recursive function of `isTaskWaiting` is
handled without the library's induction: `SolutionsExist` shows that its equation has
a solution and `WaitingUnfolds` that `IsTaskWaiting` satisfies it, both by taking a least
counterexample in the well-founded order of the naturals.

`NobodyAbandoned` puts the two together: when no handler runs, no timer is set and no Ensure is asked
for, the change is over or reads as waiting, or has a task which the code leaves to the
periodic Ensure (`AbortedLate`, `RetriedAtOnce`). It is as much of `Settles` as a safety property can say.

**`RestartManagerProofs`** proves `RestartImplementsRunner` (`RestartSpec => Spec`:
all of the above holds with reboots on top), `RestartTypeCorrect`, `RebootTheorem`
(a step that makes a task wait has the parameters in place, `NoNewWait` says that no
other step does, and `Notify` gives up parameters only for a request),
`ClassicTheorem` (with `ClassicInv`, the property and its image on disk) and
`WaitAsksTheorem` (`WaitAsksForReboot`, an action property). The last needs that the
callback was last told the status the change has (`ObservedInv`), so that a change
that begins to wait is news to it, and that a change which waits in memory but not
on disk, in the middle of a pass or an abort, has asked already (`AskedInv`).
`RebootedUnlessStopped` is the counterpart of the run `lost_reboot`: as long as the callback is
in place (`[]hook`), that is, the restart manager is not stopped before the handlers,
`WaitingChangeIsRebooted` holds (`HookedInv`, of memory and of disk).

**`AssembleProofs`** proves `AssembleTypeCorrect` (with `Requests`: a request under
way has an addressee), and from `TrustInv` the theorems `RoutesAreBacked`
(`MutualTrust`) and `RoutesReachPeers` (`RoutesToPeers`). `TrustInv` says that a device trusts exactly
those its session trusts, and itself, so that no restart takes trust back; that
every route in a state, a session or a message is backed by trust at both ends; that
a device which has an address of `p` is trusted by `p`; and that a successful answer
to an auth message means trust. Trust only grows (`Grows`), which carries everything
an action does not touch (`SoundGrows`, `BackedGrows`, `GossipGrows`, `AuthGrows`).
Assumption on the sessions that devices start from: they come from this protocol
(`StartAssumption`), as the empty session does.

**`GossipProofs`** proves what devices may conclude from what they have heard, for
clusters of any size. Each step changes one device; the lemmas say field by field what
it does to that device and the sessions, and each invariant is shown for that shape.

* `QueriesAnswerable` follows from `HeardInv`: whoever told a device of a third one has
  identified that one (`Heard`), because only routes between identified devices are
  published (`Identity`, `Published`). Identities only grow, except in a restart. So
  `QueriesAreAnswerable` is about runs without restarts, and
  `QueriesSurviveRestarts` about runs in which no device counts more routes than it
  expects: then no identity is only in memory (`Saved`). The hypothesis is needed,
  because on that error `CommitDevices` returns before it commits, and a restart forgets
  identities that peers have been told of. `QueriesAreAlwaysAnswerable` replaces it by
  two conditions on the cluster: one address for each device (`OneAddress`), and no
  device expects fewer devices than there are (`EnoughExpected`).
* `HeldBackRoutesAreKnown` (`PeersKnowRoutes`) is about runs without restarts, from
  `KnownInv`: what is published is held by the sender, and after the answer by the
  receiver. A restart ends it (section 6).
* `OverflowMeansMoreDevices` (`TooManyMeansMoreDevices`) and `CompleteMeansAll`
  (`CompleteIsConnected`) are about counting. `LeadsInv` says that every route leads to the
  owner of its address, so that with one address each there is at most one route for a pair
  and *n* devices have at most *n(n-1)*; `DoneInv` that a device which is
  complete has all of them. `TooManyMeansMoreDevices` speaks of the devices that the
  counting device itself has identified, so it holds for every expected size; with a second
  address both counts are wrong.

Assumptions: a cluster is finite and who listens at an address answers there
(`ClusterAssumption`); sessions to start from hold what this protocol could have learned
(`LearnedAssumption`).

**`ConfdbProofs`** proves, for any reads, writes and restarts, `ConfdbTypeCorrect`,
`NeverInternalError`, `AlwaysUnblocks`, `SendNeverBlocks`, `TransactionsIsolated` and
`RefinesStore`, which says that `ConfdbSpec` implements `SerialStore!StoreSpec`. The inductive
invariant is

    ConfdbInv == QueueInv /\ PlacesOK /\ ChangesOK /\ DataOK /\ Isolation

`QueueInv` is about the queue and who waits in it: nobody is in it twice, nobody in
it has a token, everyone who was let go has one, a write that was let go or runs is
alone (`ExclusionOK`), and somebody drives a queue that is not empty (`DrivenOK`). It
is what makes it safe to let an access go on without the lock. `PlacesOK` says that
no goroutine has met an internal error, `ChangesOK` ties the progress of a change to
whether its transaction is still ongoing, and `DataOK` types the data.
For the refinement every action is a step of the store or leaves its three variables
alone; the commit is the one that needs the invariant, as the writer must still be
the writer when its handler runs, or runs again after a crash. Assumptions: the
constants have their types, `NoTx` is not an access.

**`EnsureLoopProofs`** proves `LoopTypeCorrect` and `LoopNeverOversleeps` from

    LoopInv == LoopTypeOK /\ TimerFollowsNext /\ NextCoversRequests /\ Armed

The timer is at most `MaxSkew` behind `ensureNext`; `ensureNext` is no later than any
request that a running pass may have missed; and once the loop has reset it the timer
is armed or has fired. The property is the combination of the three, none
of which holds by itself after a step.

**`BootProofs`** proves `BootTypeCorrect`, `OnlyGoodIsCurrent`, `MountsWhatRuns` and
`FinishesWhatRuns`, for every set of kernels and bases, every choice of bad ones and any
number of faults, those in the middle of an undo included. The inductive invariant is

    BootInv == /\ BootTypeOK /\ disk \in Fit /\ plan \in Seq(Fit)
               /\ plan # <<>> => phase = "up"
               /\ KernelChosen /\ BaseChosen /\ MountsRunningKernel
               /\ UpIsGood /\ OldIsGood

`Fit` is the set of contents that the disk may have now and in the middle of a commit:
what is current has come up; the new revision of a refresh, once current, is not tried
any more or is tried once more (`Settled`), and it is what runs (`Runs`); and until the
boot is marked what is being tried is what runs (`Told`). That *every* content a commit goes through is
in `Fit`, in every order the code writes them, is what makes a power cut or a failed
write harmless to these properties: a fault ends `plan` and leaves `disk` in `Fit`.
One lemma for each plan shows it. `KernelChosen` and `BaseChosen` carry the argument
through a boot: the links and statuses still tell what the bootloader and the initramfs
chose when `MarkBootSuccessful` reads them. Assumption: `BootAssumption`, that is, the
constants have their types and kernels, bases and `NoSnap` are distinct.

`AlwaysBoots` (`NeverStuck`) has the hypothesis `UndoFaults = {}`: no write fails in an undo,
and neither a power cut nor a kill falls into the undo of a kernel; section 6 shows what
happens otherwise. The hard part is that `UndoMountSnap` removes files without looking at
the disk, so the disk has to have been right for long enough. `StuckInv`
says that the disk, and every content it goes through in a commit, is one from which the
bootloader and the initramfs find what they need (`Boots`), and that they find it in what is left
when all that may be removed at that moment is removed (`Kept`): current revisions are
installed, in the modeenv and sealed to, and so is what is tried. Of the
contents that an undo of a kernel goes through only the last has to be. The last content of
any undo (`Ends`) boots without all the files that this undo is going to remove (`Stays`),
which is why an undo that was interrupted must be run again before the removal, and why
an undo whose write failed is excluded. What a refresh started from stays
installed until it is over (`OldIsInstalled`).

**Model-checked only**: `NeverUnreadyAgain` with aborts of the change, and the liveness properties
`Settles`, `Converges`, `Served`, `Recovers` and `EverybodyGetsATurn`. With an abort by the user or
by Prune `NeverUnreadyAgain` does not hold of every instance (section 6), and the run
`lanes` has one of which it does. Liveness under fairness and `ENABLED` are out of the
prover's reach. Every other invariant and action property of the runs is a theorem, some of
them under hypotheses that are named above.

## 6. Where code and comments disagree

Three runs end in a violation on purpose:

* `panic`: `Change.Abort` sets statuses one at a time in the order of the tasks. If a
  task in Do comes before one in Done and all others are ready, the change is ready
  after the first step, and the second panics (`change.go:498`). In `lanes` every
  task waits for the first one, which is why it cannot happen there.
* `lost_reboot`: a handler that calls `FinishTaskWithRestart` after the restart
  manager has been stopped leaves a change that waits for a reboot nobody requests,
  over the next start (`restart.go:254`).
* `boot_undo`: the undo of a kernel refresh writes a modeenv that trusts only the old
  kernel and reseals the key to it before it changes links and status
  (`bootstate20.go:393`). On grub, and when the new kernel has been marked as successful
  before its refresh is undone, a power cut after the reseal leaves a link that starts the
  new kernel, no status to fall back from, and a key sealed to the old one. The initramfs
  fails, the emergency target reboots, and the next boot is the same, against the
  comment at `bootstate20.go:227-230`. Before the mark the status saves it: the next boot
  falls back to the old kernel. Without grub the modeenv takes the part of the key: the
  initramfs fails on a kernel that it does not name (`bootstate20.go:463`).

Observations, without a run. The undo of a base is exposed in another way. If
`undoUnlinkCurrentSnap` cannot write the modeenv of a base that has already been marked
(`handlers.go:1345-1348`), its task ends in Error, which does not keep the tasks before
it from being undone, and `undoMountSnap` removes the base that the
modeenv still names (`handlers.go:972`): the next boot finds no base. With
`UndoFaults = {"write"}` TLC finds this as a violation of `NeverStuck`. Hence `boot` and
`AlwaysBoots` exclude failed writes in an undo; that disk errors in an undo are survived is
nowhere promised.

A route whose ends are not identified yet is
acknowledged but is not in the session: after a restart it is gone and the sender
never sends it again (`selector.go:349`), so that `PeersKnowRoutes` is checked
without restarts. A query that is queued before the peer's address is known is
dropped with its signal, and the address does not signal again
(`assemblestate.go:326`).

A change of confdb that is aborted before its first task has started is put on hold
as a whole, so `clear-confdb-tx-on-error` is never undone and its transaction stays
ongoing for ever; `SomebodyUnblocks` and `EverybodyGetsATurn` except it
(`ClearedAtTheEnd`). The comment of `maybeUnblockAccesses` (`confdbmgr.go:525-527`), that
pending accesses "are guaranteed to be incompatible" with those that run, does not
hold after a pending write has timed out: the reads behind it wait although they
could run, until the next transaction ends.

`ensureBootOk` saves the boot id before `MarkBootSuccessful` (`devicemgr.go:1347`,
1357), so that a mark that failed is not tried again in that boot; `WriteFails` shows
that the device still boots, from the old kernel.

The diagram at `task.go:206` lacks Undo to
Done, the step of kinds without an undo handler (`taskrunner.go:450`). An abort walk can make a
change read as Wait for an instant, and so request the reboot early
(`restart.go:630`, against 536-537). Once snapd has given up on a reboot, a change that is
aborted and comes back to wait, because some task of it still waits from before, does not ask again;
`WaitAsksForReboot` and `RebootNotForgotten` except it (`gaveUp`). A device that is found at a second address
after a restart, or that discovers its own second address, makes `Complete` report
more devices than expected while there are as many (`selector.go:455`,
`assemblestate.go:313`), so `TooManyMeansMoreDevices` is checked and proved with one address
per device; the code has a TODO about devices with several addresses.

Left to the periodic `Ensure` rather than to a request, and excused in
`NoLostWakeup`: a handler that asks to be retried at once, and a task aborted between `SetStatus`
or `SetToWait` and the return of its handler (`AbortedLate`). A handler that sets its task
to Done or Undone by itself leaves its dependents without a request until it returns
(`AwaitsReturn`).
A cleanup that ends does not request an `Ensure` either; `Settles`
relies on the five-minute tick for it. A device stops as soon as its own
graph is complete, and peers that still need something from it may never finish;
nothing in the code promises otherwise, and no property says so.

## 7. What is not modelled

The components without a module in section 1. Task handlers, hooks, services,
installation and disk encryption are sequences of I/O whose control is the task
runner's; the store, assertions, patches, the API and the command line are parsing,
cryptography and formatting. Views and schemas of confdb are a language over JSON
documents. Notices, prompting, configuration, conflicts between changes and the
revision sequence have state and interleavings worth modelling, and are in the plan.
