# TLA+ models and proofs of the Sengoo toolchain

Sengoo is a statically typed language with a Rust compiler (`compiler/`), a
runtime linked into every program (`runtime/`), and the tools `sgc` (build and
run), `sgpm` (packages), `sglsp` and `sgfmt` (`tools/`). Most of the repository
is a sequential function from text to text or object code. What is hard to test
is concentrated in a few places: the async runtime, where user code runs on
worker threads that call back into the scheduler, and the tools that share files
between processes. This directory covers the concurrent half of the first so far.

## The system and its parts

| part | source | state | operations | model |
|---|---|---|---|---|
| concurrent executor | `runtime/src/async_runtime/executor.rs` | global slot, queues, controls, statuses, counters, worker threads, condition variables | enable, spawn, cancel, join, shutdown, worker loop, poll, finish | `Executor` |
| what a task promises its user | the same, seen from outside | status, open, doomed, running | accept, doom, resume, pause, settle | `TaskLifecycle` |
| structured task scopes | `runtime/src/async_runtime/task_scope.rs` | scope registry: children, in-flight spawns, closing | new, spawn, join, cancel-join | `TaskScope` |
| C interface | `runtime/src/async_runtime/bridge.rs` | detached frames | dispatch to executor or scheduler, release of frames | in the two above, partly |
| cooperative scheduler | `runtime/src/async_runtime.rs` | task list, wakeup hints | spawn, tick, cancel, run until idle | planned |
| futures, select, timeout | `futures.rs`, `select.rs` | frames of several futures | poll, cancel, drop | planned |
| read-write lock | `concurrent.rs` | counters, guards, waiters, queue | try, acquire, release, set, close | `RwLock` |
| mutex | `concurrent.rs` | flag, waiter count, value | lock, unlock, set, close | `AsyncMutex` |
| what a lock promises | the same, seen from outside | readers, writer, value, open | acquire, release, store, close | `GuardedValue` |
| channel | `concurrent.rs` | queue, endpoints, futures, value handles | split, clone, send, receive, drop | `Channel` |
| blocking pool | `thread_pool.rs`, `concurrent.rs` | per-worker deques, jobs | submit, steal, execute, wait, cancel | `ThreadPool` |
| cross-thread wakeup | `thread_pool.rs` | signal flag | signal, wait | planned with the scheduler |
| reactor, async files | `reactor.rs`, `async_file.rs` | interests, readiness | register, wait, deregister | planned |
| network runtime | `runtime/src/net/` | handle tables, sockets | HTTP, TLS, WebSocket, TCP, UDP | planned in part |
| compiler | `compiler/src` | none that outlives a call | lex, parse, check, lower, generate | no |
| `sgc` daemon and caches | `tools/sgc/src/daemon.rs`, `cache.rs`, `workset.rs` | files, requests in flight | build, run, load, store | planned |
| `sgpm` registry and resolver | `tools/sgpm/src` | package tree, lock file, cache | publish, yank, resolve, unpack | planned |
| language server, formatter | `tools/sglsp`, `tools/sgfmt` | open documents | queries on text | no |
| reflection, Python bridge, C runtime, `.sg` library, packages, website | `runtime/src/reflect`, `runtime/src/python.rs`, `tools/stdlib`, `packages` | foreign handles | bindings | no |

`PROJECT.json` lists the same parts with their sources and the reason why a
part is left out.

## How the executor works

A program calls `async_runtime_enable_executor(workers, capacity)`. The executor
lives in a global slot (`EXECUTOR`, a mutex around an option). `spawn_task`
hands a future frame to it; the frame is pinned round-robin to a worker for all
its polls and appended to that worker's queue. A worker thread takes the first
entry of its queue whose deadline has passed or that has been asked to cancel,
and polls it outside the lock. A poll completes, stays pending (the frame goes
back to the same queue with a deadline), or panics. `cancel_task` raises a flag.
`task_join` waits for a status; on a worker thread whose own queue holds the
target it polls that queue meanwhile, so a worker's stack can hold several polls
(*helping*). Shutdown refuses further submissions, waits until no task is
active, stops the workers and joins their threads. Async main ends with a
draining shutdown.

A task scope collects children. Leaving its block joins them, leaving it early
cancels them first.

## Modules

`Executor.tla`. The variables are the fields of `ExecutorState`
(`accepting`, `mode`, `stopWorkers`, `active`, `nextWorker`, `queues`,
`controls`, `status`), of `ConcurrentTask` (`worker`, `cancelReq`) and of
`QueuedTask` (`due`), the global slot (`slot`, `slotHolder`), the threads
(`alive`, `idle`, `stack`), where each frame is (`stage`, `verdict`,
`releases`) and where each caller is (`apc`, `arg`). An *agent* is whoever runs
user code: a client thread, or a task while a worker polls it. Each critical
section of the state mutex is one action, and what the code does between two
critical sections is another: `spawn_task` is `CallSpawn`, `IsEnabled` and one
of `SpawnNoExecutor`, `SpawnRejected`, `SpawnAccepted`; `join` is `CallJoin`,
`JoinEnter`, then `JoinHelp`, `JoinSleep` and `JoinReturn`; `shutdown` is
`ShutdownBegin`, `ShutdownWait`, `ShutdownStop`, `ShutdownEnd`; `poll_task` is
`PollBegin`, one of `PollComplete`, `PollPanic`, `PollPending`, then `Requeue`,
`CancelHook` and `FinishTask`.

What is abstracted, and why it may be:

* A notification is merged with the critical section before it. The code drops
  the lock and notifies at once; a waiter that enters in between re-checks its
  condition under the lock, so it does not need the notification.
* A wait with a timeout (at most 1 ms) is a guard: the thread looks again. A
  wait without one is a state (`idle`, `joinWait`, `drainWait`, and `settling`
  in `TaskScope`) that only a notification ends. Spurious wakeups are left out; each wait re-checks.
* A task id is its frame. Ids come from a 62-bit counter and are never reused.
* The statuses of an executor that was shut down are kept in a second map of at
  most 4096 entries. The model keeps them without a bound.
* `nextWorker` is kept modulo `NumWorkers`. The code wraps at the word size,
  which differs only after 2^64 submissions.
* `finish_task` returns early when the status is not pending. By
  `StatusMatchesStage` that never happens, so the action has it as a guard.
* `enable` is a client's action. While a task runs the slot is full or locked.
* A `shutdown` in progress holds the slot's mutex, so `ShuttingDown` as the
  answer to a submission cannot be observed through the C interface.
* Rejection cleanup runs under the slot's mutex and is part of `SpawnRejected`.
* A submission that finds no executor goes to the caller's own scheduler
  (stage `cooperative`), which is outside this module.
* Mutex poisoning is not modelled: no user code runs under the state mutex.

`TaskLifecycle.tla` is the abstract specification: a task is accepted while the
executor is open and has room, takes turns of user code, gets no turn once
doomed, settles once, and ends `Canceled` only if doomed; a new executor opens
only when nothing of the old one is pending.

`TaskScope.tla` extends `Executor` with the scope registry. The program is a
tree (`Parent`), each agent opens at most one scope, and user code runs only
between runtime calls. `close_scope` is `ScopeClose`, which removes the scope or
waits for `scope_changed`, `ScopeWoken`, which looks again once notified by the
last submission in flight (`ScopeSpawned`), then `ScopeCancelChild`,
`ScopeJoinChild` and `ScopeJoined`; the calls to the executor it makes are the
executor's own actions. Two compiler rules are guards of user code:
a scope is closed on every way out of its block, and a future that can be
canceled holds no scope across an await
(`check_owned_cancellation` in `compiler/src/mir/async_ownership_helpers.rs`). A
detached task that nobody cancels may await with its scope open, if the constant
`AwaitInScope` says so. `Shared` lifts the type checker's rule that a scope stays
with its owner, because the C interface is written for concurrent use.

`MCExecutor.tla` and `MCTaskScope.tla` instantiate these for TLC.
The theorems about the executor are in `ExecutorSteps.tla` (the inductive invariant and the steps
that leave the number of active tasks alone), `ExecutorProofs.tla` (the remaining
steps and the invariants) and `ExecutorRefines.tla` (the refinement).

`RwLock.tla`, `AsyncMutex.tla` and `Channel.tla` model the synchronisation
primitives. Each entry point of `concurrent.rs` holds the mutex of the inner
state from its first read to its last write, so each is one action. A *slot* is
what a caller keeps of one operation: first the future, then the guard or value
it yields. A poll that finds nothing to do changes nothing and is a stuttering
step. Three things about futures matter:

* A future may be consumed, canceled or dropped at any time, before it is ready
  too; `Result`, `Abandon`, `SendConsume` and `RecvAbandon` are therefore not
  guarded by readiness.
* A lock future owns the lock from the poll that grants it, before its result is
  taken. Whether callers abandon such a future is the constant `AbandonsGrant`.
  The language's `timeout_bool` does not consume the future it polls, so they
  may.
* A guard may not outlive its lock (the safety comments on the drop entry
  points); futures may outlive the handle, and the lock is then closed.

In `RwLock` the variables are the fields of `AsyncRwLockInner` and
`RwLockAcquireState`. Guard and waiter ids wrap around at `MaxId`, which stands
for `i64::MAX`. In `AsyncMutex`, `arrivals` holds the futures whose
`registered_waiter` is set, in the order in which that happened; the code has
only the count. `unlock_i64`, `guard_set` and `guard_unlock` take the mutex's handle
and no token: they check that it is locked, not by whom, and the library's
`mutex_unlock_i64` can be called without a guard. The model assumes callers that
call them only while they own the mutex (`s \in holding` in `UnlockI64`, `GuardSet`
and `GuardUnlock`), and what `mutex` shows holds for those. In `Channel`,
`inSend`, `queue`, `got`, `moved` and `drops` say where each payload is;
`accepted` and `popped` are history. `GuardedValue.tla` is the abstract lock that
both locks implement: a mutex has only writers, and a guard counts from the
grant.

`ThreadPool.tla` models the pool for blocking work. `pop_or_steal` locks one
queue at a time, so each look into a queue is a step (`Scan`); the checks of the
shutdown flag, the beginning of the wait and its end are steps of their own
(`Idle`, `Settle`, `EnterWait`, `Wake`), because notifiers do not take
`wake_mutex` and can come in between. `submit_job` holds the `POOL` mutex and is
one step with its notification: one that came later could only wake another
worker for nothing, and the waits time out anyway. `next_queue` is kept modulo
the number of queues. `Shutdown` is the `Drop` of the pool, which only tests
trigger; a pool is not enabled a second time.

`MCRwLock`, `MCAsyncMutex`, `MCChannel` and `MCThreadPool` instantiate them;
`RwLockProofs.tla` holds the theorems about the read-write lock.

Definitions whose name starts with `Bad` are faulty variants of the definition
that follows them; no specification uses them. They document what each property
guards against: with the variant in place of the original, TLC finds the
property violated.

## Runs

| run | question | answer |
|---|---|---|
| `executor_nested` | one worker, three frames, capacity 2, every call allowed from inside a poll: is a task ever lost, duplicated, miscounted, released twice? | no |
| `executor_lifetime` | two clients, two workers, two tasks, enable to shutdown and again: lost wakeups, stranded tasks, broken promises? | no |
| `executor_live` | does cancellation settle a task, is the queue fair, does `shutdown(Cancel)` return; if futures complete, do draining shutdown and join? | yes, if tasks make no runtime calls |
| `scope` | a detached task, its child and grandchild on one worker, scopes closed while others spawn into them: does a child escape, is a closer's notification lost, is a failure reported as success? | no |
| | and does every close return? | yes, if a task closes no scope but its own and awaits nothing while it is open; otherwise all but those stuck behind a join of a poll further down the same stack (`ScopeClosesOrCircular`) |
| `rwlock` | three slots on one lock, ids wrapping around: do counters, guards, waiters and queue agree, is a waiting writer overtaken, does every waiter get through, is `GuardedValue` implemented? | they agree, no, yes, yes |
| `mutex` | if only owners unlock, is there one owner and no lost update; is the waiter count never below the number of registered futures (it may be above); does `close` end every wait, is a released mutex taken? | yes |
| `channel` | is a payload ever leaked, dropped twice, handed out out of order; do pending futures notice that the other side is gone? | no; yes |
| `pool` | is a job ever lost, run twice, or ready without a result; do jobs complete and does dropping the pool return although notifications are lost? | no; yes, by the timeout |
| `executor_drain_blocked` | the draining shutdown when a task calls `spawn_task` | never returns |
| `scope_cross` | nested scopes on two workers | never closes |
| `rwlock_leak` | is the guard of a granted, then canceled future released? | never |
| `channel_loss` | does a receive that is canceled leave the payload it popped to another? | no, the payload is dropped |

The last four runs are expected to fail. Each checks what the documentation says
against what the code does, and `PROJECT.json` quotes the line under
`findings`:

* `shutdown` keeps the slot locked while it drains. A task that is still running
  and calls into the runtime waits for that lock, so both wait for ever.
* A worker that joins a task of another worker does not help, so worker 0 may
  wait for a task of worker 1 which waits for a task in the queue of worker 0.
* Canceling or dropping a lock future that has been granted its guard, and whose
  result nobody took, releases nothing. The lock stays taken. The mutex futures
  have the same gap.
* A receive owns its payload from the poll that pops it. Canceling or dropping
  it before its result is taken drops the payload, although the receiver is alive
  and the sender was told that the value was sent. Nothing leaks and nothing is
  dropped twice (`ExactOwnership`), and what is handed to receives is in order
  (`HandedOutInOrder`), but a value is lost.

### Promises the code does not keep

The models show four more disagreements. They have no run of their own; each
shows at once with the change named.

* `cancel_task` returns true for a task that is being polled. The flag is read
  before the poll and after a pending one, so a poll that completes wins. Add
  `AckedCancelHolds` to the invariants of `MCExecutorLifetime.cfg`.
* Between `is_enabled` and `spawn_detached` another thread may empty the slot;
  the second lookup returns 0 and nobody releases the frame. Add
  `RefusedIsReleased` to the invariants of `MCExecutorLifetime.cfg`.
* A helping join polls whatever its queue holds. If that is an ancestor, resumed
  from an await with its scope open, which then joins a task further down the same
  stack, neither returns. `docs/runtime-async-semantics.md:51-53` says that helping
  "preserves progress for nested scopes on a one-worker executor". In
  `MCTaskScope.cfg` set `Shared = FALSE` and check `ScopeCloses` instead of
  `ScopeClosesOrCircular`: it fails, and holds again with `AwaitInScope = FALSE`.
  `ScopeClosesOrCircular`, which the run checks, says that this circle, or the
  one a task makes that closes a scope of another, is the only way.
* The mutex keeps no queue. After a release the first future polled gets it. Add
  `AcquiredInOrder` to the properties of `MCAsyncMutex.cfg`.

### Bounds

Two workers are the least for cross-worker interference, one worker the least
for helping; both occur. Three frames with capacity two reach saturation,
refusal and a poll nested in another. The scope run has room for all three tasks
of its chain, so that a scope is open inside a scope inside a task, and three
polls are on one stack; its client closes scopes from a second thread. Two tasks and two clients reach every
pair of racing calls; a frame is submitted once, which bounds the state space
without a counter. Enabling again after a shutdown is not bounded. Tasks and
clients are interchangeable in the executor's safety runs, which use symmetry;
runs that check liveness do not. For the locks, three slots give an owner, a waiter and a newcomer
(or two waiters of different kinds); `MaxId` is three, so that ids wrap
around while old ones are in use. `MaxWaiters` bounds the mutex's count, which
an early `result` leaves too high; it exceeds the number of slots,
so a stale count occurs together with real waiters. The channel has three
payloads for two places and two senders at most (`MaxSenders`): full queues,
refused sends and the difference between one and the last sender occur. The pool
has three jobs on two workers, so that each queue has an owner, a thief and, at
times, two entries. `CHECK_DEADLOCK FALSE` is set throughout: a program that has
finished makes no further step.

### Fairness

Each worker thread and each client inside a runtime call is weakly fair: the
operating system schedules runnable threads. Weak fairness is also what a thread
waiting for a mutex gets: it acquires a mutex that stays free. Deadlines pass.
Strong fairness is assumed of user code only, and stated by the specification
used: `FairSpec` lets every poll return, `FuturesComplete`, a premise of
`DrainReturns` and `JoinReturns`, lets a future that is
polled again and again complete, and `FairScopeSpec` lets user code reach the
end of its scope's block. A poll that is covered by a nested poll on its stack
cannot return, which is why the assumption has to be strong: it is enabled again
and again, not continuously.

For the locks, the channel and the pool, a pending future is weakly fair to be
polled: its poll records a wakeup hint for the same instant, and the scheduler
polls it again. `rwlock` and `mutex` also assume that ready futures are awaited and
guards dropped, which the compiler generates at the end of the guard's scope.
In `rwlock` granted futures are not abandoned, since a lock leaked that way is
never free again (`rwlock_leak`); in `mutex` they may be, and its properties hold
all the same. Nobody is assumed to poll in any order. Pool workers are scheduled, closures
return, and a timed wait ends.

## Proofs

Proved, for any sets of tasks and clients and any positive number of workers and
capacity:

* `TypeCorrect`, `PendingHeldOnce`, `ActiveIsExact`, `WakeupsArrive`,
  `ShutdownStrandsNothing`, `FramesReleasedOnce`: the six invariants of the runs;
* `Refinement`: `Executor` implements `TaskLifecycle`.

For any set of slots and values and any positive `MaxId`, whether or not granted
futures are abandoned:

* `CountersExact`: the read-write lock's counters are those of its guards;
* `WritersExclude`: a write guard is the only guard in the map;
* `ImplementsLock`: `RwLock` implements `GuardedValue`.

The theorems about the executor rest on the four named assumptions of `Executor` (tasks and clients are
disjoint and do not contain `None`; workers and capacity are positive; tasks
call only known operations).

None of the invariants is inductive alone. `IInv` is their conjunction with

* `CallsNameTasks`: a caller inside spawn, cancel or join names a task, two
  callers never submit the same frame, and only those are in stage `submitting`;
* `SlotLife`: if the slot is full the workers run and accept, if it is empty
  and unlocked there is no active task and no worker, and in between exactly one
  agent is inside shutdown;
* `VerdictEarned`: a frame about to be finished carries a terminal verdict, and
  `Canceled` only after a request.

`SlotLife` is what makes `NoTaskStranded` inductive: workers leave only after
`stopWorkers`, which is set only with `active = 0`, and `HasRoom` fails from the
beginning of shutdown to the next `Enable`. `HeldExactlyOnce` needs lemmas on
sequences: appending, popping the last element and the rotation of
`next_ready_task` hold exactly the expected elements, each once (`AppendHolds`,
`PopHolds`, `RotatedHolds`), and `OwnsOneMore` and `OwnsOneLess` lift this to the
queues and stacks of all workers. `ActiveCounts` needs the cardinality of a set with
one element more or less, and `NoneActive`, that zero active tasks means no task
is pending. `NextInv` has one lemma per action or group of actions with the same
footprint; `InitInv` and `NextInv` give `Inductive`, and the rest follows.

`Refinement` maps `life` to the statuses, `open` to `accepting`, `doomed` to the
tasks with the cancel flag, `running` to the frames in user code.
`StepImplements` shows that every step is one abstract step or a stutter;
`LiveIsControls` connects the abstract bound on live tasks with the counter.

The lock's invariant (`IInv` of `RwLockProofs`) joins the counters and
`WriterAlone` with three facts about slots: a slot has a future or a token, never
both (`SlotPhases`); what it owns is in the map with its kind and belongs to no
other (`OwnersInv`); its registration likewise (`WaitersInv`). The last is needed
because a registered future is granted the kind found in the waiters' map, while
the guard it gets has its own kind. `FreshIdIsFree` shows that the allocation
loop, wrapping around at the largest id, finds an unused id if there is one; it
is the reason why a new guard adds exactly one to the counter. The only
assumption is `IdAssumption`. `EveryGuardHasOneOwner` is not proved as a whole:
its last conjunct fails when granted futures are abandoned, as `rwlock_leak`
shows; the other two are `OwnersInv`. `WaitersAgree` and `WriterNotOvertaken`
speak of the queue and are model-checked.

Liveness, the scope properties, the mutex, the channel and the pool are
model-checked only. Liveness under
fairness is out of the prover's reach; the scope invariants are planned.

## Not modelled

The other parts of the table, for the reasons in `PROJECT.json`. Within the
modelled parts: the 4096-entry bound on retired statuses, the encoding of task
ids, the value of wakeup hints, several scopes per agent, and a future whose drop
hook itself panics after completing. Of `concurrent.rs`: `Arc` handles and shared
counters, a channel used through both its interfaces at once, an allocation of
ids with all of them in use, poisoned mutexes, and calls with invalid or foreign
handles, which the safety comments exclude. Of the pool: a closure that panics
(its worker is gone and its future stays pending), and the wakeup signal.

## Plan

1. `RetiredStatuses`: the bounded map of finished tasks and the id encoding,
   proved against the unbounded map `Executor` uses.
2. `CoroutineScheduler` with `Timeout` and `Select`: one cooperative thread,
   re-entrant ticks, release of losing frames.
3. `SchedulerWakeup`, composed with the scheduler and `ThreadPool`: the flag read
   before the mutex, bounded by the timed wait.
4. An abstract queue, refined by `Channel`; shared counters over the pool.
5. `Reactor` with asynchronous files.
6. `Daemon` and `MetadataCache`: timeout and local fallback, concurrent stores.
7. `Registry`, `PackageCache`, `LockFile`: directory trees with crashes between
   file operations; the resolver's choice against a reference definition.
8. Proofs for `TaskScope`, the mutex, the channel and the waiters of `RwLock`.
