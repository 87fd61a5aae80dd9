# A verification project for qtask_list

`qtask_list` is a task queue on Redis: producers submit tasks with
`SmartQueue.enqueue`, workers pop them with `BRPOPLPUSH` into a processing list
of their own, run a handler and settle the outcome with a Lua script, and
operators purge, requeue and replay tasks through `QTaskAdmin`.  This directory
models that machinery in TLA+, with the threads of a worker, the storage of large
payloads, the retention of records and the paged search; checks it with TLC on
small instances and proves its central invariants with TLAPS for all instances.

1. [Inventory](#1-inventory)
2. [Modules and their correspondence with the code](#2-modules-and-their-correspondence-with-the-code)
3. [What the runs check](#3-what-the-runs-check)
4. [Fairness](#4-fairness)
5. [Proofs](#5-proofs)
6. [Findings](#6-findings)
7. [What is abstracted or not modelled](#7-what-is-abstracted-or-not-modelled)
8. [Plan](#8-plan)

## 1. Inventory

| Component | Source | State it keeps | Operations |
|---|---|---|---|
| Task state machine | `state.py` | Redis: task hash `qtask:task:{id}`, dedup owner, supersede version, concurrency lease, deadline index, `retry_wait` gauge | Lua: enqueue, begin attempt, complete, fail, retry, return claim, move due, cancel/purge, replay, delete queue, admin move |
| SmartQueue | `queue.py` | Redis: ready list, `:delay` zset, `:dlq` list, `:processing:{worker}` lists | enqueue, `pop_claim`, ack/fail, `move_retry`, `recover_processing_key`, `recover_stale_processing`, `recover_abandoned_claims`, clear, delete, replay, V1 migration |
| Worker | `worker.py` | registered claims, spent attempts, semaphore, two locks, `running`, `_draining`, shutdown event, thread pool; heartbeat and registry keys | run, poll, admission, settlement with retries, heartbeat thread, maintenance thread, stop, clean-up |
| QTaskAdmin | `admin.py` | none of its own | list, search and preview, purge, requeue, recover, replay, prune workers, delete task, delete queue |
| History | `history.py` | records, those of finished tasks with a TTL, and `qtask:hist:{queue}` | record, update, list by page, clean |
| Envelope, models, errors | `envelope.py`, `models.py`, `errors.py` | none | build and parse messages, validate a TaskSpec |
| Payload storage | `storage.py`, `remote_storage/` | per object a file and a `.meta.json`; Redis: pending and garbage logs | upload, retain, delete, two cleaners, give up an unused upload |
| Archiver, monitor | `archiver.py` | SQLite copy of finished records | archive, query |
| Clock | `clock.py` | none | Redis `TIME`, client offsets |
| Dashboard, CLI, frontend | `dashboard/`, `cli/`, `frontend/` | none of the queue's | front ends of QTaskAdmin |

How they interact.  Every durable effect is a Redis command or a Lua script,
and Redis runs each atomically.  Everything *between* two calls interleaves
with every other process: a worker holds a message in memory while a
maintenance leader, another worker or an operator may move it, a lease or a
heartbeat may expire under it, and the reply of any call may be lost after the
call took effect.  The only link from Redis back to a process is the heartbeat
key; the only map of processing lists is the worker registry.

Behaviours that are hard, and the properties meant for them:

* **Ownership.** A claim may be taken away (stale recovery, forced recovery,
  purge) while its worker still runs.  Correct: a task never has two messages
  (`OneMessage`), a late settlement has no effect (`ImplementsLifecycle`), a
  live task always has its message (`MessageMatchesOutcome`).
* **Unknown outcome.** A reply is lost after `BRPOPLPUSH`, after
  `BEGIN_ATTEMPT_LUA`, after a settlement.  Correct: nothing is lost or
  counted twice (`MessageMatchesOutcome`, `WithinBudget`), everything is finally
  done (`Drains`).
* **Attempt budget.** Attempts are counted before the handler runs and given
  back when it did not.  Correct: no handler runs more than `max_attempts`
  times (`WithinBudget`).
* **Derived state.** The `retry_wait` gauge, the deadline index and
  `operational_message` are maintained by many scripts.  Correct: they equal
  what they summarise (`RetryWaitExact`, `DeadlineIndexExact`,
  `OperationalFlagExact`).
* **Keys shared by tasks.** Identity, concurrency and supersede keys outlive
  single tasks.  Correct: `IdentityHeld`, `KeyedConcurrency`, `NoStaleStart`.
* **Leaving and coming back.** A worker stops, crashes, stalls, restarts.
  Correct: what it leaves behind can be found (`CrashedClaimsReachable`) and is
  finished by somebody (`Drains`).
* **Threads.** The poll loop, the pool, the heartbeat thread and `stop()` share
  registrations, permits and flags.  Correct: permits are neither lost nor made
  (`PermitsConserved`), what waits or runs is registered (`ClaimRegistered`),
  its lease is renewed to the end (`HeartbeatCoversClaims`), recovery gives back
  only attempts nobody used (`UsedAttemptKept`), `stop()` ends and strands
  nothing (`Drains`, `NothingStranded`).
* **Files and logs.** An upload is a file, a metadata file and a log entry; the
  task that owns it is in Redis; several parties may delete it.  Correct: an
  object in use stays (`OperationalObjectKept`, `ReplayWindowKept`), one that is
  not is found and deleted (`NothingForgotten`, `GarbageCollected`), the scripts
  learn of a deletion first (`RevokedBeforeDeleted`), a retention never shrinks
  (`RetentionMonotone`).
* **Jobs over live data.** Cleaning, archiving, repair and `delete_task` read in
  several calls and then delete.  Correct: never the record of a message
  (`RecordWhileMessage`, `RetentionStartsAtEnd`), what remains is true
  (`RecordExact`), the archive has what Redis drops (`ArchivedBeforeDropped`),
  a lost record comes back and a finished one goes (`RecordRestored`,
  `HistoryEnds`).
* **Pages over live data.** Only a cursor survives between two pages.  Correct:
  nothing untouched is missed or shown twice (`Complete`, `Once`), nothing newer
  appears (`NoneInserted`), the search ends (`Ends`).

The full list, with the line each hazard bites at, is in `PROJECT.json` under
`hazards`, each with the properties that notice it.

## 2. Modules and their correspondence with the code

```
QueueState      constants, variables, TypeOK, Init, shared state functions
DecimalText     supersede versions as decimal text, their comparison, counters
QueueNames      the names and keys of several queues, the check of names
  TaskScripts   the Lua scripts of state.py and queue.py
    WorkerLoop  Worker (max_workers = 1): threads, poll loop, settlement, faults
    AdminOps    purge, replay, forced recovery, requeue, pruning
      TaskQueue producers, time, expiry, crash; Next, Spec, FairSpec, properties
        MCTaskQueue      instances for TLC
        TaskQueueProofs  theorems: types, one message per task, its outcome
          TaskIndexesProofs   deadline index, retry gauge, operational flag
            TaskClaimsProofs  registry, attempt budget, refinement
              TaskKeysProofs  leases, identities, versions; with QueueNames: names
TaskLifecycle   what a producer is promised (implemented by TaskQueue)

WorkerThreads   the threads of one worker (max_workers >= 1), stop(), heartbeat
  MCWorkerThreads, WorkerThreadsProofs
PayloadStorage  objects, their logs, uploads and the storage server
  MCPayloadStorage, PayloadStorageProofs
RecordRetention records of finished tasks and the jobs that delete them
  MCRecordRetention, RecordRetentionProofs
HistoryPaging   the paged search over indexes and containers
  MCHistoryPaging, HistoryPagingProofs
```

The first group is the queue seen by several workers, each a single thread; the
other four look closer at one part each and reduce the rest to what that part
sees of it: `WorkerThreads` keeps where each message is and what it counts,
`PayloadStorage` the state of the task that owns an object, `RecordRetention`
the container of each message, `HistoryPaging` whether a task matches.

### The queue: QueueState, TaskScripts, WorkerLoop, AdminOps, TaskQueue

**State.** `box` maps each container (`"ready"`, `"delay"`, `"dlq"`) and each
worker's processing list to the set of messages in it.  `rec[t]` is the task
hash, with the fields the scripts branch on: `outcome` (`"absent"` before the
record exists, `"live"` while `status` is not terminal), `attempt`, `location`,
`op` for `operational_message`, `claim` for the token of the last begun
attempt, `override` for the task an `ALLOW_NEW` enqueue took the key from.
`owner`, `latest`, `lease`, `deadlines` and `retryWait` are the dedup owners,
supersede versions, concurrency leases, start-deadline index and gauge.
`heartbeat` and `registry` are the worker keys.  `pc`, `hand`, `stop` and
`spent` are a worker's memory: the point its main thread is at, the message it
works on, its shutdown event and `_abandoned_attempts`.  `requeueing` is the
operator's place between the two calls of `requeue_task`.  `runs` and `late`
are history variables: handler starts per task, and the workers under whom a
lease expired.

**Stages of a worker** (`pc`):

| `pc` | where `worker.py` / `queue.py` is |
|---|---|
| `down` | no process |
| `starting` | `run()` before its first heartbeat: `recover_stale_processing` |
| `poll` | top of the loop in `run()` |
| `recover` | `_poll_once`: `recover_abandoned_claims`, then `move_retry` |
| `pop` | `pop_claim`: blocked in or before `BRPOPLPUSH` |
| `popped` | `pop_claim`: message in the processing list, before `BEGIN_ATTEMPT_LUA` |
| `claimed` | attempt begun and registered, before admission under `_handler_start_lock` |
| `running` | handler started, until its settlement |

**Scripts.** Each operator of `TaskScripts` is one script with one outcome:
`BEGIN_ATTEMPT_LUA` decides by `BeginCode` in the order of its `if`s and is
`BeginEnds`, `BeginFailsBudget`, `BeginDefers`, `BeginStarts` or
`BeginIgnores`; `RETRY_TASK_LUA` is `RetrySkips` or `RetrySchedules`; a
settlement that does not own its message is `NotOwned`.  `Owned` is the pair of
checks every settlement makes before it writes: the record is not terminal, and
`LREM` of the exact message succeeds.  `Finalized`, `Released`, `Ended`,
`Indexed` are the Lua helper functions.

**Actions.** `Progress(w)` has one action per call the worker makes.  `Upset(w)`
has, for calls whose reply matters, one more in which the call commits and the
reply is lost (`PopLost`, `BeginLost`, `PayloadFailLost`, `FinishLost`) or in
which the call fails before it takes effect (`PollRaises`, `ReturnRaises`,
`FinishAbandoned`), and the request to stop.  `AdminStep` has one action per
operator call; `requeue_task` is two actions, `Requeue` and `RequeueUpdate`,
because it is two calls.  `Environment` is time, expiry of owners, leases and
heartbeats, and crashes.

The constants `Faults` and `Admin` say which fault classes and operator
operations an instance allows; `ReuseLiveId` says whether a process may start
with the id of one whose heartbeat is still there (a configured `worker_id` and
a fast restart) or not (the default id contains a uuid).  The proofs leave all
three arbitrary.

`TaskLifecycle` is the abstract specification: a task is accepted once, its
handler starts at most `MaxAttempts` times, it is closed at most once, and
`completed` needs a handler start.  `TaskQueue` implements it under
`status <- rec[t].outcome`, `starts <- runs`.

**Order and size.** `MOVE_DUE_DELAY_LUA` promotes at most `Batch` messages, the
earliest first (`MOVE_DELAY_BATCH`, 500 in the code).  A supersede version is
stored as the text `str()` made of it; `IntegerIsNewer` is the script's
comparison of sign, length and digits.  Versions given as strings are compared
as strings and are not modelled.

**One queue.** `TaskQueue` has the keys of one queue.  `QueueNames` is why that is
enough: a name is the sequence of its segments (`jobs:delay` is
`<<"jobs", "delay">>`), `UsesKey` says which keys a queue may write, `ValidName` what
`SmartQueue.__init__` accepts, and `assert_queue_namespace` what every script that
registers a queue requires of the names registered before.  It has no actions; its
facts are evaluated by TLC over small names and proved for all
([section 5](#keys-taskkeysproofs)).

### Threads: WorkerThreads

One process.  `where`, `message`, `token`, `attempt` and `processing` are what
Redis knows of each task; `pc`, `cur`, `held`, `seen` and `seenSpent` the local
variables of `_poll_once`; `active`, `spent` (`_abandoned_attempts`), `permits`,
`running`, `draining` and `event` what the threads share; `thread[t, n]` the
stage of the n-th claim of a task: claimed, queued in the pool, running, in its
`finally` (`"ending"`, or `"interrupted"` when a `BaseException` left the message
unsettled), over or lost.  `inside` is the lock the main thread holds: `Enter`
takes `_active_claims_lock` or `_handler_start_lock` where the code does, and
whoever else needs that lock waits.  `StopCalled` is `stop()` by another thread,
by the signal handler (which suspends the main thread wherever it is) or by the
main thread's own `finally`; it goes on in `StopLocks`, `StopDrains`,
`StopRunning`, `StopFlags`, with every other thread between the steps.
`HeartbeatLoop` reads `running` and `draining` in two steps, as
`while self.running or self._draining` does.

`Faults` switches: `poll` (lost replies and failing calls of the poll), `decode`
(unreadable payload), `settle` (a settlement or return gets no answer), `exit`
(a handler raises a `BaseException`), `shutdown` (the pool refuses a submit, the
main thread runs the claim), `lapse` (the heartbeat key expires and another
worker recovers the list), `stop`, `signal`, and `due` (a task may come back to
this worker while a thread still has an older claim of it).

### Payloads: PayloadStorage

`file`, `born` and `meta` are the server's disk; `pending` and `gc` the two Redis
logs; `task` and `expire` the record that refers to the object; `pc` where its
upload and enqueue are; `sent` the calls a client gave up that may still arrive;
`job` the deletions under way.  `Upload`, `WriteFile`, `WriteMeta`, `LogPending`,
`Persist` are the steps of the PUT handler, `LogFails`, `UndoFile`, `UndoMeta` its
error path; `Enqueue`, `EnqueueLost`, `EnqueueDelayed`, `EnqueueArrives`,
`EnqueueResent`, `Confirm`, `Recheck`, `GiveUp`, `Cleanup` are what
`SmartQueue.enqueue` and `replay_task` do with the answer they get or miss;
`PromoteDue` and `Sweep` the garbage cleaner, `ExpireFile` the TTL cleaner,
`Unlink`, `Unmeta`, `Unlog` the steps of any deletion; `Retain` a request that
prolongs; `Finish`, `Fail`, `Forget`, `DeleteQueue` the scripts that end the use of
an object; `ServerCrash` ends what the server was doing.

### Records: RecordRetention

`place` is the container of each task's message, `hold` what the worker in whose
list it is does with it, `late` the workers from whom it was taken and who go on all
the same, `rec`, `ttl`, `index` and `created` the record, its EXPIRE, the
history index and its score, `job` the step, the reads and the cutoff of
`clean_expired` (`clean`), the archiver (`archive`), the safe repair (`repair`)
and `delete_task` (`delete`), `archive` the SQLite table.  `Read`, `Scan`,
`SetFlag`, `Unindex`, `CleanDrops`, `Insert`, `ArchiveDrops`, `DeleteChecks`,
`DeletePurges`, `DeleteRechecks`, `DeleteDrops` are one call each; `Abandon` kills
a job between two.  `EnsureReads` and `EnsureWrites` are the two calls of
`_ensure_task_record`; `LateReads` and `LateWrites` are the same calls of a worker
in `late`.  A worker that dies (`Crash`) leaves the message in its list until
recovery, a purge or the deletion of the queue finds it `Untended`, and takes it
(`TakenFrom`).  `Ops` switches operators' calls, a record that Redis loses (`lose`) and
slow workers (`slow`): their heartbeat lapses while they live, so that their message
is taken from them as well, another worker pops and runs it, and they go on where
they were.  After the record was looked for, every script such a worker calls asks
for the message first; only the write of a lost record does not.

### Pages: HistoryPaging

`created`, `index`, `found` and `line` are the data; `cursor` is what a client
sends back, `page` the local variables of `search_tasks_page`.  `BeginPage`,
`Fill`, `Merge`, `HistoryEnds` page through the indexes, `Open`, `RawRead`,
`RawTake`, `RawEnds` through the containers, which are read by offset and
compared with the stamp in the cursor.  `Newest` is what the script reads of a
queue's index: the newest of those the anchor has not reached.  `Arrives`, `Prepare`, `Commit`, `Legacy`,
`Leave`, `Return`, `Forget` change the data between any two of these.
`MCHistoryPaging` spreads the tasks over the queues.

Operators called *Mutant* in their comment are not part of the model: each is a
plausible mistake in the definition below it, and shows, substituted for it,
which property notices.

## 3. What the runs check

| Run | Instance | Checks | Shows |
|---|---|---|---|
| `faults` | 1 task, 2 attempts, 2 workers; every fault; purge, force | `OneMessage`, `MessageMatchesOutcome`, `OperationalFlagExact`, `WithinBudget`, `CrashedClaimsReachable`, `ImplementsLifecycle` | lost replies, crashes, stalls, stops and forced recovery at every point neither duplicate, lose nor overrun a task |
| `deadlines` | 1 keyed task with a start deadline, 2 attempts, 2 workers, 2 ticks; lost, crash, stop; purge, requeue, prune | `RetryWaitExact`, `DeadlineIndexExact`, `Drains` | gauge and index are exact on every path; the task is finished, whoever holds an old lease |
| `keyed` | 3 tasks of one concurrency key, 2 workers; stall; batches of 1 | `KeyedConcurrency`, `MessageMatchesOutcome` | two handlers of the key overlap only after a lease expired under one; what a batch leaves behind stays in delay |
| `shared_keys` | 2 tasks that share identity, concurrency and supersede key, versions -10 and 9; crash; purge, replay | `OperationalFlagExact`, `IdentityHeld`, `NewerIsGreater`, `NoStaleStart`, `Drains` | a live task keeps its key unless `ALLOW_NEW` takes it; only the newest version starts; replay cleans up after itself; both tasks are finished |
| `storage` | 2 objects, the second may replay the first; crash, lost | `OperationalObjectKept`, `ReplayWindowKept`, `NothingForgotten` | no payload in use is deleted, none that is not is forgotten |
| `storage_collects` | 1 object; crash, lost, delayed and repeated calls, retain | `RevokedBeforeDeleted`, `RetentionMonotone`, `GarbageCollected` | deletions are announced, retentions grow, garbage goes |
| `threads` | 2 tasks, 2 claims each, pool of 2; poll, decode, exit, shutdown, signal | `PermitsConserved`, `ClaimRegistered`, `UsedAttemptKept`, `HeartbeatCoversClaims` | the shared state of the threads stays consistent |
| `threads_drain` | 2 tasks, 1 claim each, pool of 2; settle, stop, lapse | `NothingStranded`, `Drains` | `stop()` ends and strands nothing |
| `records` | 2 tasks, archiver and `delete_task`; replay, purge, clear, drop, cut | `TypeOK`, `RecordWhileMessage`, `RecordExact`, `RetentionStartsAtEnd`, `ArchivedBeforeDropped` | jobs and scripts between each other's steps delete nothing in use |
| `records_end` | 1 task, cleaning, archiver, repair; lose, slow | `RecordRestored`, `HistoryEnds` | a lost record is written again, a finished one leaves unless a late worker opens it again |
| `pages` | 3 tasks in 2 queues, pages of 1 row and 2 looks; tasks come, move, return, go | `TypeOK`, `Complete`, `Once`, `NoneInserted`, `Ends` | the search is complete, exact, closed and finite |
| `pruned_worker` | stall, crash, prune | `CrashedClaimsReachable` violated | the finding |

`TypeOK` of the queue, of the threads and of the storage is proved
([section 5](#5-proofs)) and therefore not checked again.

The runs of the queue also evaluate the assumptions of `MCTaskQueue` about names of
up to three segments (who would share a key is refused, and little else) and about
counters at their limit.

**Bounds, and why they are enough.**

* *Tasks.* Scripts touch one task, its keys and its queue entries; tasks meet
  only through an identity, supersede or concurrency key.  One task is enough
  for the container properties, two for identity and supersede (the one that
  has the key and the one that takes it), three for concurrency (the one that
  lost the lease, the one that took it, and one the first one's late settlement
  would wrongly let in).
* *Workers.* Two: the one that has the message and the one that takes it.
* *Attempts.* `MaxAttempts = 2` has a first, a last and a refunded attempt;
  runs about shared keys need one.
* *Time.* Ticks `0..MaxTime`.  `MaxTime = 1` separates before and after a
  deadline, a dedup window or a delay; `MaxTime = 0` is used where no property
  reads time.  `Later` saturates at `MaxTime`, so that what is due later than
  the horizon is due at the horizon.  `RecordRetention` bounds a retention by
  the clock instead and says of which records `HistoryEnds` speaks: at `MaxTime = 1`,
those of tasks that end at time 0 and expire at time 1.  Before and after an
expiry are all it needs.
* *Tokens.* Eight claim and lease tokens, more than the messages, hands,
  records and leases of an instance can hold, so a fresh one always exists.
  `Fresh` takes the least unused one; tokens are compared for equality only.
* *Versions.* One negative of two digits and one positive of one digit are
  stored; `NewerIsGreater` compares each with everything from -20 to 20: both
  signs, both lengths, every first differing digit.  All other integers are left
  to the proof.
* *Claims.* `MaxClaims = 2` lets a task be claimed again after its first claim
  ended; the drain needs one.  Permits are `Workers` (2), not twice as many, so
  that the poll loop does wait for one.
* *Objects.* Two, because a replay hands the payload of one task to another, and
  nothing else relates two objects.  Uploads start early enough (`LastUpload`)
  for every log entry to fall due within the clock.
* *Jobs.* A job looks at one task at a time: what it does for the others lies
  between two of its steps.  Two tasks, so that one can replay the other.
* *Late workers.* Of several late workers at the same point of the same task one is
  kept: the first that writes does what all of them would.
* *Pages.* Three tasks, two queues, one row per page and two looks per page: a
  page may fill up, may run out of looks, and may end in either queue.
* *Symmetry* over tasks, workers or objects in the safety runs; none in the
  liveness runs, where it would be unsound.
* *Deadlock* is checked in the runs of the queue.  In the other modules the
  system may stop: the worker is down, the clock is at its bound and all is
  deleted, the search has ended.

## 4. Fairness

`FairSpec` of `TaskQueue` is weak fairness of what the deployment keeps doing, and
finitely many disturbances:

* `Start`, `Ready`, `Exit`: a supervisor restarts worker processes; `run()` and
  its clean-up terminate.
* `Poll`, `RecoverAbandoned`, `MoveRetry`, `Pop \/ PopNone`,
  `BeginOther \/ Begin`, `Admit \/ ReturnUnstarted`, `Finish`: the main thread
  of a worker never stops between two calls.  `Finish` says that handlers end;
  it leaves open how, so retries may follow until the budget ends them.
* `HeartbeatLoop` and `RecoverStale`: the heartbeat and the maintenance thread
  are daemons with a period of their own.  The maintenance leader lock passes
  to another worker when its holder dies, so every running worker may come to
  scan every registered list.
* `Tick`, expiry of a lease nobody holds, and of the heartbeat of a process
  that is down: Redis expires keys, time passes.
* `<>[][Undisturbed]_vars`: crashes, stops, stalls and lost replies may come in
  any number and at any point, but not for ever.  A queue whose every worker
  crashes after every pop promises nothing.  The disturbances are excluded by
  listing the steps that remain, not by negating the ones that go: a call that
  fails before it takes effect looks exactly like one that finds nothing
  (`PollRaises` and `PopNone`), and the latter must stay possible for ever.

The other modules:

* `WorkerThreads`: the main thread, the heartbeat thread and every claim go on
  when they can (weak fairness: threads are scheduled, handlers end, Redis
  answers in the end).  `stop()` is strongly fair, because it waits for a lock
  that the poll loop takes again and again; a Python lock is not fair, but who
  waits for it gets it once in infinitely many releases.  Nothing is assumed of
  polls that fail, of signals, or of another worker.
* `PayloadStorage`: time passes, a started request goes on, the cleaners come
  round again, a started deletion goes on; the server does not crash for ever.
  Nothing is assumed of calls that were given up: they may never arrive.
* `RecordRetention`: time passes, Redis drops what has expired, and the
  maintenance loop archives again and again (strong fairness of taking a task:
  the loop serves one after the other).  `clean_expired`, the repair and
  operators run only when somebody asks for them.
* `HistoryPaging`: a caller who has a cursor asks for the next page, and a page
  that was asked for is worked off.

Of the queue nothing is assumed of producers, of operators, of the order in which messages
are popped (lists are sets here), or of the expiry of owners.

## 5. Proofs

Eight modules hold theorems, each for all values of the constants that satisfy
the named assumptions of the component's module.  A theorem that needs a fault, a
job or an operator's call away names it as a hypothesis of its own; wherever one
does, the property is false with it, and [section 6](#6-findings) says how.

### The queue: TaskQueueProofs

The assumptions are those of `QueueState`.  `BoundsAssumption`: the bounds are
naturals, `MaxAttempts` and `Batch` are positive.  `DomainAssumption`: container
names are not worker names, `None` is a value of its own, versions are integers.

| Theorem | States |
|---|---|
| `InvHolds` | `Spec => []Inv` |
| `TypeCorrect` | `Spec => []TypeOK` |
| `OneMessageHolds` | `Spec => []OneMessage` |
| `MessageMatchesOutcomeHolds` | `Spec => []MessageMatchesOutcome` |

`Faults`, `Admin`, `Submitted` and `ReuseLiveId` are arbitrary: the theorems
hold with every fault class, every operator operation and reused worker ids,
the windows of [section 6](#6-findings) included.  No finiteness of `Task`,
`Worker` or `Token` is assumed.

The argument.  None of the three properties is inductive alone.

* `TypeOK` says that an attempt number stays in `0..MaxAttempts`, and three
  steps subtract from one.  The two refunds of `return_unstarted_claim` and
  `recover_abandoned_claims` stay in range because a registered claim is
  numbered from one (`ClaimNumbered`) and because the latter checks
  `attempt > 0`.  It also says that `retryWait` is a natural number, which
  needs the number of promoted messages to be one: the containers are finite
  (`BoxFinite`).
* A script reads `rec[t].spec`, which is `None` in a record that does not
  exist: whoever has a message has a spec (`SpecKnown` with
  `MessageMatchesOutcome`).
* `OneMessage` needs `MessageMatchesOutcome` where a message is created: the
  record of a new task is absent, hence no message carries its id.
  `MessageMatchesOutcome` needs `OneMessage` where one is removed: the task is
  closed, hence no second message may stay behind.

So the invariant is `Inv == TaskInv /\ LocalInv`: `TaskInv` about what Redis
holds, preserved script by script, `LocalInv` about the processes, preserved
action by action.  The lemmas `MovedMessage`, `RemovedMessage` and
`AddedMessage` say once what each of the three kinds of write does to the
container invariants; `EndsWithoutMessage`, `FailsIntoDLQ` and `MovesLiveTask`
reduce eleven scripts to them; `MoveDueDelay`, which promotes any batch, and the
two-task script `ReplayTask` have proofs of their own.  A by-product of
`RecoverAbandonedClaimInv` is that the branches of that script for a task that
is no longer live are never taken.

### Derived state: TaskIndexesProofs

| Theorem | States | For |
|---|---|---|
| `DeadlineIndexExactHolds` | `Spec => []DeadlineIndexExact` | every instance |
| `RetryWaitExactHolds` | `Spec => []RetryWaitExact` | every instance |
| `OperationalFlagExactHolds` | `Spec => []OperationalFlagExact` | no `requeue` |

`requeue_task` sets the flag in a second call, when the task may be over; index
and gauge are exact with it too.  The inductive invariant is `IndexInv`.  The
scripts decide by `location` whether a task leaves the index, so the index is
exact only together with `Waiting` (a message in ready or delay belongs to a task
that is not said to be processed) and `PoppedWaits` (nor is one that was popped
and not begun).  The gauge is a number: that it is that of the retries in delay
is proved write by write (`MovedMessage` and its kind, with a count of the retries
before and after), and shows that the cut-off at zero in the scripts is never
used.  `EveryStep` reduces the next-state relation to the scripts once; the three
proofs then go script by script.

### Claims and budget: TaskClaimsProofs

| Theorem | States | For |
|---|---|---|
| `CrashedClaimsReachableHolds` | `Spec => []CrashedClaimsReachable` | no `prune` |
| `WithinBudgetHolds` | `Spec => []WithinBudget` | `~ReuseLiveId` |
| `ImplementsLifecycleHolds` | `Spec => ImplementsLifecycle` | `~ReuseLiveId` |

Pruning is the finding of section 6.  A process that starts with the id of a live
one breaks the budget: it refunds an attempt whose handler runs.  Nothing else is
assumed, so the results hold for every fault, recovery and operator's call.

`CrashedClaimsReachable` follows from `Registered`: a worker that runs, or whose
list is not empty, is in the registry.  The budget rests on `ClaimsInv`, which says
what a list may hold at each stage of the loop (`ListAtStage`: nothing when it
pops, then only what is in the hand; `HandAtStage`: one message, of an accepted
task; `StartsDead`: no heartbeat at the start).  `Budget` is the account: handler
starts, plus the claims that were counted and may still be started (`Pending`),
plus one if a counted begin may be given back (`Reserve`), never exceed
`attempt`.  `RefundingStep` is the crux: a refund comes into reach only by a begin
that is counted and whose reply is lost, and that begin adds one to `attempt`.
The refinement maps the queue to `TaskLifecycle` by outcome and handler starts;
each script is the abstract action of its outcome or a stutter, and the one that
needs an invariant is completion (`RanOnce`: a handler ran).

### Keys: TaskKeysProofs

| Theorem | States | For |
|---|---|---|
| `KeyedConcurrencyHolds` | `Spec => []KeyedConcurrency` | every instance |
| `IdentityHeldHolds` | `Spec => []IdentityHeld` | every instance |
| `IntegerIsNewerOrders` | `IntegerIsNewer(Text(v), Text(w)) <=> v > w` | all integers |
| `NewerIsGreaterHolds` | `Spec => []NewerIsGreater` | every instance |
| `NoStaleStartHolds` | `Spec => NoStaleStart` | every instance |
| `CounterOverflowsBeyond` | `CounterOverflows(Text(n), limit) <=> n > limit \/ n < -limit` | all integers, all limits |
| `AcceptedKeysApart` | an accepted queue uses or deletes no key of another registered one | all names, any set of them |
| `OverlapShares` | who is refused shares a key, or is below a `retry`, `dlq` or `delay` | all names |
| `InternalKeysApart` | a queue uses no index or record under `qtask:`, but one named `qtask` | all valid names |
| `DeletionIsComplete` | `delete_queue` leaves only heartbeats and dummies | all names |

Leases: `LeaseHeld` says that a worker with its message, under whom no lease
expired, holds the lease its message names; it is inductive because a token is
written in the messages of one task only (`LeaseOf`), so that no late settlement of
another task frees it.  Identities: an owner marked final names a task that ended
(`OwnerKnown`), so only `ALLOW_NEW` takes a key from a task that is alive.
Versions: `latest` is at least every version submitted (`LatestNewest`); a begin
that counts an attempt has compared with it.

That the comparison of texts is that of the integers is a fact about recursively
defined data, and the library's induction theorem cannot be used (it takes an
operator as a parameter).  The proof has its own, over sets: `<` on the natural
numbers is well founded, so a non-empty set of them has a least element
(`LeastNatural`), a set with 0 and every successor is all of them (`Induction`),
and a recursion over them has a solution (`Recursion`), which is `Shifted`
(`ShiftedIs`).  Dropping last digits keeps the order (`ShiftedOrder`) and ends at
zero (`ShiftedEnds`), so that the length is well defined (`LengthIs`) and a number
with fewer digits is smaller (`ShorterIsLess`).  In texts of one length, equal
leading digits mean equal shifted numbers (`EqualDigits`), and the first digit that
differs decides (`BeforeIsLess`, `LessIsBefore`).  No bound on the number of digits
is used, so 64-bit versions are compared exactly, which is why the script compares
text and not Lua's doubles (`state.py:929`).  TLC checks the same over a range first.
`CounterOverflowsBeyond` is the same comparison with the limit of the metric
counters, 2^63 - 2 in the code (`state.py:965`).

Names: a key of a queue is its name, or begins with it and a state segment
(`KeyBegins`).  If two queues share a key, both names begin it, so the longer name
has the shorter one's next segment of that key: a state segment, which is what the
check refuses (`SharedKeyOverlaps`, `AcceptedKeysApart`).  The converse holds but for
names below `retry`, `dlq` and `delay`, single keys, where the check refuses more
than it must (`OverlapShares`).  The segments may come from any set that holds the
state segments, so that the result depends on no alphabet.  `InternalKeysApart`
has an exception because `queue.py:123` looks for the prefix `qtask:` with its colon: a
queue named `qtask` passes, and its processing list of a worker `jobs` has the name
of the processing registry of the queue `jobs`.  `DeletionIsComplete` compares the
keys of a queue with the patterns `DELETE_QUEUE_LUA` searches.

### Payloads: PayloadStorageProofs

| Theorem | States | For |
|---|---|---|
| `TypeCorrect` | `Spec => []TypeOK` | every `Faults` |
| `StagesHold` | `Spec => [](TypeOK /\ Stages)` | every `Faults` |
| `RevokedBeforeDeletedHolds` | `Spec => []RevokedBeforeDeleted` | every `Faults` |
| `RememberedHolds` | `Spec => [](TypeOK /\ Stages /\ Remembered)` | every `Faults` |
| `NothingForgottenHolds` | `Spec => []NothingForgotten` | every `Faults` |
| `RetentionMonotoneHolds` | `Spec => RetentionMonotone` | every `Faults` |
| `SettledHolds` | `Spec => []Settled` | no delayed or repeated call |
| `OperationalObjectKeptHolds` | `Spec => []OperationalObjectKept` | no delayed or repeated call |
| `ReplayWindowKeptHolds` | `Spec => []ReplayWindowKept` | no delayed or repeated call |

The theorems for no delayed or repeated call assume `"delay"` and `"resend"` not in `Faults`; with them they
are false (see [section 6](#6-findings)), so the assumption is needed.  `Stages`
says what is known of an object by the stage of its upload: what of the file,
the metadata and the two log entries exists, that nobody deletes it before it
was handed over, and that no task refers to it before its enqueue.  It is
inductive together with `TypeOK` and gives `RevokedBeforeDeleted`: whoever starts to delete has
removed the pending entry first, and nobody writes one again.  `Settled` speaks of
the object of a task whose record can be read: its upload is over, it has no
pending entry and no deletion under way, its garbage entry is the record's expiry
or, while the task is operational, absent, and its file has no TTL of its own.
Both properties about objects in use follow from it at once; it is inductive
because each of the three ways to delete looks at one of these parts.

`Remembered` is the opposite question: what is still known of a file that nobody
needs.  It says how far an upload or a deletion has come: a deletion takes the file
first and the log entry last, and whoever leaves an upload half-way leaves it in the
pending log or with a retention that ends.  It holds under every fault, since it
does not ask which call comes late, only in which order each one writes.
`RetentionMonotone` follows from it: where a retention is written again the later
of two times is taken (`ExtendGrows`), 0 being later than all, and where metadata
is written anew or removed the file is not there yet, or no longer.

### Threads: WorkerThreadsProofs

The assumptions are `CountAssumption` (there is a worker and a claim, and there are
at least as many permits as workers, at most twice as many) and
`FaultAssumption`, which leaves `Faults` arbitrary.

| Theorem | States | Without |
|---|---|---|
| `InvHolds` | `Spec => []Inv` | |
| `TypeCorrect` | `Spec => []TypeOK` | |
| `PermitsConservedHolds` | `Spec => []PermitsConserved` | |
| `HeartbeatCoversClaimsHolds` | `Spec => []HeartbeatCoversClaims` | |
| `RegistrationsHold` | `Spec => [](Inv /\ Registrations)` | `due` |
| `ClaimRegisteredHolds` | `Spec => []ClaimRegistered` | `due` |
| `UsedAttemptKeptHolds` | `Spec => []UsedAttemptKept` | `due`, `settle`, `lapse` |
| `NothingStrandedHolds` | `Spec => []NothingStranded` | `due`, `poll`, `decode` |

`Inv` has four parts.  `Stops` follows `stop()` and the end of `run()` through their
steps: `running` is cleared only after `draining` was set, and `draining` is cleared only
after every claim ended, so the heartbeat thread, which reads one after the
other, cannot find both false too early.  `Where` says what the place of the main
thread implies: which claim it has, that nobody else has it yet, and whether it
holds a permit.  `Permits` counts the claims that own one; `PermitsGained` and
`PermitsLost` say what the hand-over to the pool and the end of a claim do to
that count, every other step leaves the set of owners alone.  `TypeOK` needs
both: an attempt is given back only where one was charged, and the semaphore
stays within its limit because the sum does.

The other three are about the registry of claims, which is by task id, so that an
older claim of a task could end on top of a newer one.  `Registrations` says that a
*steady* claim is the last one of its task, the only one not over, registered and
seen by recovery, and that its message is in the list or already settled.  A claim
is steady while its handler runs; before that only as long as `stop()` has not been
asked for or this round's recovery is still to come: afterwards its message may
have gone back and been popped again while its thread ends, and no better can be
proved.  `Boxes` ties the records to the list: a record that is processing has its
message there, and a registration belongs to a claim that is not over.

`UsedAttemptKept` then needs `Marked`, which follows a claim that ended without
settling through the two sets it is kept in: it stays marked as spent until a
recovery that was told so has looked at its message (`Snapshot`, `RecoverAbandoned`
and `Forget` see the same marks), and `Charged`, the account: no handler start
beyond the attempts, one to spare while the claim waits.  `Beats`: without `lapse`
nobody else takes a message while `run()` lasts.  `NothingStranded` needs the
account the other way round (`Charges`: no attempt beyond the handler starts, one
more while a claim waits) and `Registry`.  Without each of the faults named TLC
finds no violation, and with each of them it finds one.  `poll` and `decode` are
not windows but the meaning of the second half of the property: a begin whose
reply is lost, and a payload that cannot be read, do charge an attempt without a
handler.

### Records: RecordRetentionProofs

The assumptions are those of the module; `NoneAssumption` says that "no record" and
"no time" are values of their own.

| Theorem | States | Without |
|---|---|---|
| `TypesHold` | `Spec => []TypeOK` | |
| `RetentionStartsAtEndHolds` | `Spec => []RetentionStartsAtEnd` | `repair` together with `replay` |
| `RecordWhileMessageHolds` | `Spec => []RecordWhileMessage` | `repair`, `lose` |
| `RecordExactHolds` | `Spec => []RecordExact` | `clean`, `repair`, `lose`, `slow` |
| `ArchivedBeforeDroppedHolds` | `Spec => ArchivedBeforeDropped` | `slow` |
| `RecordRestoredHolds` | `Spec => []RecordRestored` | `delete`, `purge`, `clear`, `repair` together with `replay` |

A job reads in several calls and deletes in a later one, so each invariant says what
is still true of the task a job is at. `Covered`: a record with a TTL has ended, and
no task with a message has one; `Uncreated`: a task that was never enqueued has left
no trace. `Gone`: from the point where the archiver has seen a task end, or
`delete_task` has purged it, the task has no message, and one without a message gets
none again. `Exact`, `Finds` and `Forgotten`: a record says what the containers
hold, a worker that popped finds it, and an index entry is removed when it has none.
Without `slow` a message is only taken from nobody's hand (`Untended`), so nobody is
`Lagging`, about to write a record over whatever has become of the task; `Finds` and
`Unended` carry that along. `Unended` and `Copied`: a message waits only for a task
that has not ended, so what the archiver read of one that has is still so when it
deletes, even where other jobs delete and flag the same record. `Restored` and
`Ending` are the same for a record that Redis may lose: where it must be there
again, and how far the archiver and `clean_expired` get while a message of the task
is somewhere.

### Pages: HistoryPagingProofs

Besides the bounds, `HomeAssumption`: every task belongs to a queue of the search.

| Theorem | States | Without, of the containers |
|---|---|---|
| `TypesHold` | `Spec => []TypeOK` | |
| `NoneInsertedHolds` | `Spec => []NoneInserted` | |
| `OnceHolds` | `Spec => []Once` | `Insertions` |
| `CompleteHolds` | `Spec => []Complete` | `Insertions`, `rush` |

A search of the indexes alone (`Containers = FALSE`) needs neither hypothesis: a
task keeps its rank, and an anchor separates what was read from what was not even
when the entry it names is gone.  An offset separates them only while messages
come behind the others.  In the delay container one may come between them
(`Insertions`), and a message that leaves between two reads of one page (`rush`)
lets the next read skip another; with one of them switched on, TLC finds `Complete`
violated in one queue of three tasks, and `Once` with `Insertions`.

*The model's own operators.* `NewestFirst`: what `Newest` returns is drawn from
the given set, in strict order, every other element is older than all of it, and it
is empty only for an empty set.  It rests
on `Ranks`, that ranks in a finite set are a bijection.  `ArrivesShifts` and
`LeaveShifts` say where messages stand after one came or the first left.  Each
step of the search has a lemma `...Does` with its effect, from which the three
invariants below are proved.

*What was there before (`Inserted`).* `Placed`: a message is in one container at
most, and has an entry in the index exactly when it has a record.  `Buffered`:
what a page holds of an index was created by the cutoff, the anchor has not reached
it, and it comes newest first.  `Fetched` and `Shown` say so of messages read and of tasks
reported.  `NoneInserted` follows.

*Not twice (`Single`).* `Behind`: while indexes are read, the anchor of its
queue has passed a task that was shown, and the task is not bare (known only from
its message); if it is bare afterwards, the offset has passed its message.  It stays
there, because no task becomes bare once a search runs and a bare one moves only to
the front (`Harmless`).  `Ahead`: the messages that were read and not yet shown lie
no further back than where they were found.  `Indexes`: where no container is
searched, the end of the indexes is the end.

*Everything (`Whole`).* `Owed`: what the search has to show is in an index or only
in a container.  `IndexedAhead`: an entry still owed is one the anchor has not
reached, and it is in the page's buffer or older than all of that.  `BareAhead`: a message still owed lies
beyond the offset in the container the search stands at, or in one it has not
reached.  The hard part is a resumed page: between two pages the first
message of the container may leave and others come, and the offset is then wrong.
`Beyond` says why the stamp is enough: the first message it names has not moved, or
has gone and comes back behind the owed one if at all; so when the stamp
matches, nothing was lost.

### Only model-checked

* Queue: `CrashedClaimsReachable` with `prune`, where it is violated.
* `Drains` of both modules, `GarbageCollected`, `HistoryEnds`, `Ends`: liveness
  under fairness is out of the prover's reach.

## 6. Findings

**Pruning hides a stalled worker's list** (run `pruned_worker`).
`QTaskAdmin.list_workers` (`admin.py:230`) unregisters a worker whose heartbeat is
missing and whose list is empty.  One that is only stalled then pops a message;
if it crashes before its next heartbeat, no recovery scans its list, although a
crash of a worker is to lose no task (`README.md:11`).  The window closes when a
process with the same id starts.

**Windows outside the runs.**  TLC shows more when an instance is given the fault or
the operator's call that opens them.  The runs leave these out, so what they show is
limited by this list; each is a hazard of `PROJECT.json` with the reason.  Each line
is a change of one cfg, or of one definition, and the property TLC then finds violated.

| Hazard | Change | Violated |
|---|---|---|
| `worker.py:553` | `MCThreadsDrain.cfg`: `Faults` with `signal` | `Drains` |
| `worker.py:301` | `MCThreads.cfg`: `Faults` with `settle` | `UsedAttemptKept` |
| `worker.py:201` | `MCThreads.cfg`: `Faults` with `due` | `ClaimRegistered` |
| `worker.py:463` | `MCThreads.cfg`: `Faults` with `lapse` and `due` | `UsedAttemptKept` |
| `queue.py:1263` | `MCFaults.cfg`: `ReuseLiveId = TRUE` | `WithinBudget` |
| `admin.py:1067` | `MCFaults.cfg`: `Admin = {"requeue"}` | `OperationalFlagExact` |
| `queue.py:403` | `MCStorage.cfg`: `Faults` with `delay` | `OperationalObjectKept` |
| `queue.py:419` | `MCStorage.cfg`: `Faults` with `resend` | `OperationalObjectKept` |
| `history.py:365` | `MCRecords.cfg`: `Jobs = {"clean"}`, or `{"repair"}` | `RecordExact` |
| `state.py:1043` | `MCRecords.cfg`: `Ops` with `slow` | `RecordExact` |
| `queue.py:858` | `HistoryEnds` without `~Lagging(t)` | `HistoryEnds` |
| `admin.py:511` | `MCPages.cfg`: `Events` with `rush` | `Complete` |

Some of them contradict what the repository says of itself:

* `README.md:246` promises that `SIGINT` and `SIGTERM` stop a worker gracefully.
  The handler runs on the main thread, wherever that is; when it holds one of the
  locks `stop()` asks for, it waits for itself, and the worker never ends
  (`worker.py:553`).
* `README.md:200`, and `docs/design/core-reliability-20261016-remediation.md:51`: only
  a begin whose handler was not admitted is free, an attempt that ran is not given
  back; `README.md:407` counts executions by it.  Three windows give one back:
  a settlement given up while stopping (`worker.py:301`), a stale entry of
  `_abandoned_attempts` (`worker.py:463`) and a reused worker id (`queue.py:1263`).
* `admin.py:471`: a container that changed is refused rather than paged wrongly.
  Within one page nobody compares it again, and a task is skipped.
* `models.py:47` calls an outcome immutable, `docs/design/qtask-overall-20260920-v2.md`
  says so at lines 43 and 642.  A worker pops a task, finds no record and stalls;
  recovery gives the message to another one, which restores the record and completes
  the task; the first one's `record()` (`queue.py:863`, `history.py:184`) then
  empties the outcome and makes the record persistent.  No message is left that
  could end it again, and neither the archiver nor the cleaning nor the repair
  takes a record that has not ended: it stays.  It takes a record that Redis lost and a
  worker that outlives its heartbeat; with purge and `clear_terminal` the second is
  enough.

What happens in each:

* *Queue.* A reused worker id (`ReuseLiveId`) lets a restarted process refund the
  attempt of a handler its predecessor had started (`queue.py:1263`): one start
  more than `max_attempts`.  `requeue_task` sets `operational_message` in a second
  call (`admin.py:1067`), maybe after the task was completed; the repair does the
  same (`queue.py:1746`).
* *Threads.* A retry that is due at once comes back before the `finally` of its
  thread, which then removes the new registration (`worker.py:201`, fault `due`).
  A settlement given up after `stop()` is not marked as spent, so that a used
  attempt is refunded (`worker.py:301`, fault `settle`).  An entry of
  `_abandoned_attempts` outlives the claim that made it (`worker.py:463`, faults
  `lapse` and `due`).  `stop()` in the signal handler waits for a lock that its own
  thread holds (`worker.py:553`, fault `signal`).
* *Payloads.* A delayed or repeated enqueue that arrives after its client gave up
  and deleted the payload makes a task without one (`queue.py:402`, `queue.py:419`).
  The TTL cleaner deletes by what it read before a `retain` (`server.py:230`).
* *Names.* `pop` checks the name once and then pops for as long as it blocks
  (`queue.py:634`, `queue.py:640`), without registering it: a queue whose keys overlap
  may be accepted in between.  `rebuild_observation_indexes` (`admin.py:198`) and the
  migration of older messages (`queue.py:948`) register a name without the check, and
  a `processing_key` chosen by the user may be anything.
* *Records.* `clean_expired` writes a flag into a record that is gone
  (`history.py:365`); the archiver keeps an older row when a task is replayed
  between its two calls (`archiver.py:206`); a slow worker writes the record of a task
  again that was finished, deleted with its queue, or purged and cleared meanwhile
  (`queue.py:858`).  The repair clears the flag of a task whose message came back after it
  looked (`queue.py:1746`); a replay of that task then lets the record of a waiting
  message expire.
* *Pages.* A task whose `created_at` is older than the cursor when it is written
  (`queue.py:327`) is why the properties speak of tasks nobody touches.  A container
  is read by offset (`admin.py:511`) and compared with the cursor only when a page
  begins (`admin.py:499`): a message that leaves between two reads of one page
  shifts the rest and one is skipped (`rush`), and one that comes between others in
  the delay container shifts one that was shown (`Insertions`), where length and
  ends happen to agree.

None of them breaks a proved theorem: the hypotheses of
[section 5](#5-proofs) name exactly these calls and faults.

## 7. What is abstracted or not modelled

* Lists and zsets are sets of messages: FIFO order and priorities are not
  modelled, and every property holds for every order.
* A message is the record of the envelope fields the scripts read; two messages
  with equal fields are the same message, as two equal strings are for `LREM`.
* The retry time is any tick (backoff, jitter, `retry_after` and the client
  clock that is read earlier are covered by the choice).
* A rejected enqueue changes nothing and is a stutter; so is a settlement that
  raises before it commits.
* An unknown action and an exception of the handler are both failures of a
  class chosen freely: permanent or not.
* `requeue_task` from the DLQ is `Replay` (so it is in the code, for a V2 task).
* The guards of `clear`, `delete_task` and `requeue_task` that look for an
  active worker before the script runs only spare the script: it reads the
  heartbeat again itself, and that is the guard modelled.
* Renewing a lease that is held changes no modelled state; failing to renew it
  in time is `LeaseExpires`.
* A page of the paged search reads an index or a container and the records in it in
  one step (`RawRead`).  A message leaves a container from its front (`Leave`), as by
  a pop.  One that a settlement or a purge takes from the middle changes the length
  in the cursor's stamp; that so many others come, and the last one leaves and
  returns as it was, that the stamp fits again, is not modelled.
* The several calls of a worker's clean-up are one step (`Exit` of `WorkerLoop`).
* A claim is registered a second time after its payload was read (`worker.py:475`).
  That changes nothing unless the thread of an older claim of the task removed the
  entry in between (`due`); `Decoded` leaves it out, so the model knows of a claim
  never longer than the code does.
* The contents of a payload, and what a download returns, are not modelled, only
  whether the object is there.

Not modelled, and why:

* V1 messages, their migration and poison messages: a second message format
  whose scripts mirror the V2 ones; it would double the state of every
  container.  `ADMIN_MOVE` is used for it.
* Key-type checks, statistics, previews, batch wrappers: read-only, or loops over
  what is modelled.
* The registration of several queues over time: `QueueNames` speaks of one check.
* Supersede versions given as strings, envelope encoding and validation: their
  result is a rejected or an accepted task.
* HTTP, authentication and file contents of the storage server.
* Dashboard, CLI and frontend: they have no queue state and call `QTaskAdmin`.

## 8. Plan

Done: the queue (`QueueState`, `DecimalText`, `TaskScripts`, `WorkerLoop`,
`AdminOps`, `TaskQueue`, `TaskLifecycle`), the threads of a worker, the storage of
payloads, the retention of records and the paged search; proofs about each of
them: the queue with its indexes, claims and keys, the storage, the threads, the
records and the pages.
Next, in this order:

1. V1 messages, their migration and poison messages, with the script
   `ADMIN_MOVE`.
2. Pure algorithms over bounded inputs: backoff with jitter.
