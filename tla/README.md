# TLA+ verification of HyperFileLens

HyperFileLens is a control plane (Django, Celery, Channels, PostgreSQL, Redis)
and a Go Agent on every protected host. The control plane protects files by
sending *commands* to Agents (back up, restore, probe a source, upgrade, ...),
and every product feature depends on one protocol: a command is persisted as a
`NodeTask` row, delivered over a WebSocket session, executed by the Agent, and
its outcome comes back to the row. This directory models that protocol, checks
it with TLC and proves its central properties with TLAPS.

Paths below are relative to `src/` (so `backend/` is `src/src/backend/` and
`agent/` is `src/src/agent/`).

## 1. The system

### Components, state, operations

| Component | Code | State | Operations |
|---|---|---|---|
| Command row | `backend/apps/node/services/internal/task.py`, `models/node_task.py` | one PostgreSQL row: `status`, `accepted_at`, `dispatched_at`, `delivery_attempt_count`, `cancel_requested_at`, `watchdog_deadline_at`, JSON `result` | create, deliver, claim, record, accept, progress, complete, cancel, seal, time out, fail |
| Downlink | `apps/node/ws/downlink.py`, Channels groups | frames queued for a node's group | publish (may be lost, may be full) |
| Session consumer, uplink handlers | `apps/node/ws/node_agent.py`, `ws/uplink.py` | the session, one frame at a time | handle accepted, progress, result; ACK a committed result; start follow-ups |
| Agent task execution | `agent/internal/wire/handler.go`, `infra/database/tasks.go`, `controller/` | SQLite row (`status`, `result`, `result_reported`), Tracker, slots | handle command, cancel and ACK; run; finish; seal; report |
| Agent session and outbox | `remote/connector.go`, `wire/handler.go`, `app/agent.go` | socket, ACK mode, reserved deliveries | connect hook (mode, repair, reattach, flush), periodic flush, deferred repair |
| Backup orchestration | `apps/protection/services/backup_orchestrator.py`, `backup_source_snapshot.py`, `progress/backup_runtime.py`, `apps/task/services/interface.py` | product task, logical snapshot, one row per directory | advance, dispatch, observe, project a late result, correct a task, cancel, retry a directory, recover the queue, reattach a timed-out backup |
| Node availability | `apps/node/services/internal/node_registry.py`, `ws/uplink.py` | `is_online`, `last_seen_at`, inventory of the `Node` row | record an observation, persist liveness and inventory, sweep silent nodes |
| Node lifecycle | `apps/node/services/internal/node_lifecycle*.py` | lifecycle row with phases | upgrade, uninstall, verify, decide |
| Session routes | `apps/node/services/internal/redis_store.py`, `ws/lifecycle.py` | Redis keys with a lease | set, renew, clear, scan at start, recovery hold |
| Uplink queue | `apps/node/ws/uplink_queue.py` | Redis stream, consumer group, activity markers, dead letters, ingest lease | enqueue, read, reclaim, acknowledge, quarantine, replay |
| Periodic wake-ups | `common/scheduling/periodic_wakeup.py`, `scheduler.py` | one Redis key per schedule | claim, promote, renew, run, release |
| Product tasks, restore, storage, sources | `apps/task`, `apps/restore`, `apps/storage`, `apps/source` | rows and leases | settle, reconcile, clean up |
| Insights chat | `apps/lens_bridge` | knowledge-source and chat queues, workspaces | sync, queue, tear down |
| The rest | IAM, subscription, monitor, alert, audit, notification, configuration, web console, installers | request/response rows, presentation | not concurrent in themselves |

### How they interact

    dispatch / orchestrator / sweep / reconnect         cancel, watchdog, offline
             |  claim, publish, record                         |  row lock
             v                                                 v
        [ NodeTask row ] <---- accepted / progress / result ---- [consumer]
             |  group_send                                         ^
             v                                                     | session
        [ channel group ] --- command, cancel, ACK ---> [ Agent reader ]
                                                           |  SQLite row
                                        [ execution ] -- result --> [ outbox ]

* **Shared state.** The row is written by web requests, Celery workers, the
  consumer's threads and periodic sweeps. Most of them take the row lock
  (`select_for_update`); delivery does not, except for managed restores, and
  acts on what it read before.
* **Messages.** `group_send` is fire and forget; a session's frames are lost
  with the session. Results are therefore stored by the Agent and resent until
  an ACK comes (for peers that negotiate it).
* **Callbacks.** Delivery runs `on_commit`; an ACK is sent after the commit of
  a result; follow-ups run after the ACK.

### What is hard

Several dispatchers of one row; stale reads in the legacy delivery, the sweeps,
the reattachment and the requests that cancel or retry a backup; results that
arrive after the row was decided; a cancel overtaking its command; workers that
die between a publication and its record;
two sweeps that each leave a row to the other; in the Agent, a cancel before
the Tracker knows the task, a repair pass that races new work, an ACK of an
earlier result, crashes anywhere, and a read loop that starts before the
connect hook; two sessions of one Agent whose hooks run out of order; queue
entries taken from a consumer that is only slow; wake-ups whose lease is lost
while their message waits; results of backup attempts that were superseded.
`PROJECT.json` lists each at its line under `hazards`.

### What makes each component correct

* *Row:* decisions are final; sealed timeouts stay; attempts are bounded and
  one frame is published per claimed attempt; an accepted command is not
  delivered again; no row waits for ever; a managed restore is never published
  after its cancel.
* *Agent:* one execution per command; every persisted cancel reaches the
  engine; no row stays running without an execution; the reported outcome
  agrees with the stored one; every outcome is eventually acknowledged.
* *Protocol:* the row's decision is true of the Agent: a success means that the
  execution ended, the proofs that a workspace is quiet are true, and an ACK
  never removes an outcome the row has not decided.
* *Routes:* an owned route passes only to the session whose hook has just run,
  a result is acknowledged only when it was applied, and the Agent that stays
  connected gets its result through.
* *Queue:* every accepted frame was processed, waits, or is a dead letter; a
  frame that always fails leaves and does not hold up the others.
* *Wake-ups:* of the wake-ups that still have their guard at most one is in
  flight; no lost reply suppresses a schedule for ever.
* *Availability:* observations take effect in the order in which they were made;
  a node goes offline only when it is silent; capabilities are never inherited
  from another session; a node that stays connected is found online.
* *Backup run:* no directory is backed up twice at a time, a cancel asks all work
  to stop, a late result counts only for the latest attempt, a successful task
  has a complete snapshot, every run ends and gives its snapshot up.

## 2. Modules

| Module | Contents |
|---|---|
| `NodeTask` | the command row and all its writers |
| `AgentTask` | one command inside the Agent (open system: it only reads `downlink` and appends to `uplink`) |
| `AgentSession` | `AgentTask` closed by an environment that publishes, receives, disconnects and crashes |
| `TaskOutcome` | abstract specification: what the control plane promises about one command |
| `TaskProtocol` | `NodeTask` and an instance of `AgentTask` joined by a session; implements `TaskOutcome` |
| `RouteKey` | the operations on the route key of one Agent, each one atomic Redis script |
| `AgentRoute` | two sessions of one Agent on several WebSocket processes around `RouteKey` |
| `NodeLiveness` | the availability fields of the `Node` row, around the same `RouteKey` |
| `Mailbox` | abstract specification: what a queue of frames promises |
| `UplinkQueue` | stream, consumer group, ingest lease, dead letters; implements `Mailbox` |
| `PeriodicWakeup` | the guard of one coalesced schedule, with Beat, broker and workers |
| `BackupRun` | one run of a backup: task, snapshot, directory rows and their commands |
| `MC*` | instances for TLC |
| `*_proofs` | theorems about `NodeTask`, `TaskProtocol` (on top of `NodeTask_proofs`), `AgentSession`, `BackupRun`, `PeriodicWakeup`, `UplinkQueue`, `AgentRoute`, `NodeLiveness` |

How they fit together: `TaskProtocol` composes `NodeTask` with `AgentTask`;
`AgentRoute` explains the single session that `TaskProtocol` assumes;
`UplinkQueue` stands between the consumer and the follow-up of heartbeats that
`NodeLiveness` models; `PeriodicWakeup` guards the sweeps of `NodeTask`
(its `SingleFlight` constant) and the reconciliation of `BackupRun`; `BackupRun`
sees a command only as `TaskOutcome` promises it: live, or ended in one way, or
revised by a late result.

### NodeTask

Variables are the row's fields. `accepted`, `dispatched`, `cancelRequested`
say that the timestamps are set. `result` is the *set of keys* of the JSON
result on which some writer branches. Time is two flags: `overdue` (the watchdog
deadline has passed) and `rested` (the last delivery is older than the
acknowledgement wait). `downlink` is the node's channel group. Commands fall in
five classes (`kind`), named for what the code tests about them: durable
acceptance with a renewable lease (backup) or a fixed deadline (probe), the
generic path, restores into an identity-bound workspace (managed), and upgrades
that detach (lifecycle).

A writer that holds the row lock for its whole body is one action
(`AcceptTask`, `RecordProgress`, `HandleResult`, `CancelTask`, `SealCancel`,
`WatchdogTimeout`, ...). Delivery is a per-worker program counter because it
acts on reads that may be stale:

    Deliver -> route -> DeferDelivery | FailDelivery
                     -> Claim -> send -> PublishCommand            (ACK path)
                     -> PublishCommand -> sent -> RecordLegacy     (legacy path)
    SweepSelect -> candidate -> SweepDecide -> retry -> SweepRetry -> route
                                            -> expire -> TimeoutUnaccepted
    SeeTimedOutBackup -> reattach -> ReattachBackup

`EnterDelivery` takes the row lock for a managed restore and keeps it to the end.
`WorkerCrash` releases it and undoes nothing that was published. `CompleteTask`
follows `complete_task` return by return: stop evidence, late detached success,
the early returns (`IgnoresResult`), and the write. `HandleResult` adds what the
frame handler does before (merge of upgrade results, host success as evidence).
Errors that only raise and leave the row alone are stuttering steps.

### AgentTask and AgentSession

The Agent's SQLite pool has one connection, so each statement or transaction is
a step and everything else interleaves: the session's reader (`HandleCommand`,
`HandleCancel` then `TrackerCancel`, `HandleResultAck`), the execution
(`Register`, `CheckCancelled`, slots, `StartEngine`, `EngineReturns`, `Finish`,
`SealCancelledExecutor`, `Load`, `Report`), the connect hook (`SetAckMode`,
`RepairSnapshot`/`RepairScan`/`RepairWrite`, `ReattachRunning`, flush), the
periodic outbox and the process (`Crash`, `Restart`). The stored result is
abstracted to `evidence`: it contains what only the engine can know (a snapshot
id, the proof that the process group ended). A detached helper is external code
that ends with one of two outcomes.

### TaskProtocol and TaskOutcome

`TaskProtocol` instantiates `AgentTask` with the row's `downlink`; `uplink` is
the session. `Receive` handles one frame and commits; `SendAck` follows it as a
separate step; `ReceiveFails` is a transaction that fails. The refinement mapping
reads the row's status and result as a `decision` and the Agent's engine as an
`execution`; "never" and "stopped" are the two proofs that the teardown of a
Chat workspace accepts (`_node_task_has_executor_stop_evidence`).

### RouteKey and AgentRoute

`sess` is the consumer of each session with its next step: every `await` of
`node_agent.py` between two calls that touch Redis or the database is a step, so
that a superseded session may still run its hook, its heartbeat or the handling
of a result. `proc` is each WebSocket process; a starting process scans the
routes (`ScanRoutes`) and deletes what it found later (`ClearRoutes`);
`ReadRouteOffline` and `ClearOfflineRoute` are the same two steps of a dispatcher.
The recovery hold is a flag whose owner is left out. `outbox` and `applied` are
the one result that the Agent keeps until it is acknowledged.

### NodeLiveness

Timestamps are values of a clock. Each writer carries the time of its
observation from the step that takes it to the step that writes it:
hooks (`OnConnected`, `RecordSeen`, `RecordConnected`), the hot path
(`PersistLiveness`, `Revive`), queued heartbeats (`TakeHeartbeat` to
`RecordHeartbeat`) and the sweep (`ReadStale`, `MarkOffline`). The inventory is reduced to its
capabilities: the session of the inventory, the label of the capabilities, and,
for the property only, the session they really came from.

### Mailbox and UplinkQueue

The pending list is a function from entries to delivery counts; `idle` and `old`
say that an entry may be reclaimed or buried. A drain is a program counter per
worker with the batch in hand, so that a drain that lost its lease goes on with
it. An entry is handled, acknowledged, counted and quarantined in separate
steps. Today only heartbeats are enqueued (`ws/node_agent.py:258`), although the
queue accepts task frames too; the activity marker is modelled for both.

### PeriodicWakeup

The key is a phase and a token. `aged` says that its time to live may elapse,
`late` that the absolute queue deadline of a token has passed. Every operation on
Redis may fail and the program goes on without it. `orphaned` is a history
variable: the tokens whose lease was lost by a fault. Tokens are recycled, so
that the schedule runs for ever in a finite state space.

### BackupRun

`dir` holds the row of each directory, `command` the commands that were created
for it, newest last. `AdvanceRun` is `advance_backup` as a whole, which holds the
lock of the task: refresh of stale failures, dispatch into free slots, observation
of every row, summary of the snapshot, end of the task. Its nondeterminism is
what it reads elsewhere: the state of the connection, stalls, the capabilities of
the Agent, and how many slots other backups use. `AdvanceWaits` and
`AdvanceRefused` are its early returns. The writers without that lock are
separate: `Project` (late results), `ProgressSync`, `Reattach`, the cancel request
(`CancelTask`, `CancelRead`, `CancelDirectory`, `CancelSummary`) and the requests
that retry a directory (`RetryRead`, `RetrySave`, `RetryTask`), which write what
they read earlier. Errors are the classes that the code distinguishes: looked at
again, adoptable by a late success, waiting for a policy repair, final.

## 3. What TLC checks

Passing runs:

| Run | Instance | Question | Distinct states |
|---|---|---|---|
| `node_task` | 2 workers, all classes, 2 attempts, channel of 3 | are the row's decisions final, the attempts bounded and counted, managed cancels never overtaken? | 47,818 |
| `node_task_faults` | 2 workers that may die, reattachment on, fairness | is no attempt published twice, nothing accepted redelivered, and does every pending row end? | 81,252 |
| `agent_session` | every class, 2 published frames, channel of 1, 1 fault, fairness | at most one execution, cancels reach it, one outcome; accepted work ends and is eventually reported | 573,992 |
| `task_protocol` | managed restore with 1 fault and channel of 2; backup delivered twice, one frame in flight | refinement of `TaskOutcome`, truth of the stop evidence, ACK only after a decision | 2.6 million |
| `periodic_wakeup` | 2 Beat processes, 2 tokens, Redis fails, workers die, fairness | single flight of guarded wake-ups, fenced lease, no schedule suppressed for ever | 139,097 |
| `uplink_queue` | 2 workers, 2 frames, 3 entries, 1 fault, fairness | refinement of `Mailbox`, nothing stranded, the latest frame marked, every entry leaves | 410,373 |
| `agent_route` | 2 sessions, 2 processes, 1 fault, fairness | route fenced against older sessions, ACK only after application, the result gets through | 117,024 |
| `node_liveness` | 2 sessions, clock of 2, 1 queued heartbeat, 1 fault | observations in order, offline only when silent, capabilities of the right session | 7.6 million |
| `node_settles` | 2 sessions, clock of 1, no fault, fairness | a connected node is found online with its capabilities | 508,571 |
| `backup_run` | 1 directory, 2 slots, 2 retry requests, 1 fault | one live command per directory, cancel reaches all work, late results only of the latest command | 1.8 million |
| `backup_settles` | 2 directories, 2 slots, a cancel, 1 fault, fairness | success means a complete snapshot; every run ends and gives its snapshot up | 211,289 |

### A disagreement with the code: `backup_queued_retry`

A directory that is retried, by the orchestrator after a restart of the Agent
("Backup execution retry queued after Agent restart") or by a request, has a
pending row that names no command. If all slots are taken, the dispatch loop
leaves it alone; but the observation loop of the same `advance_backup` asks
`_get_node_task_for_directory`, which falls back to the latest command of the
directory: the one of the attempt that failed. The row is bound to it and
fails with its old error, without having run. TLC finds it in six steps with
another backup on the node; three directories with two slots and a restart
of the Agent suffice too.

### Other places where the code falls short of what it says

These formulas stand in the modules and are not checked by a run. Each is false
in the instance that is named:

| Formula | Instance | What happens |
|---|---|---|
| `NodeTask!DecidedIsFinal` | `BackupReattach = TRUE`, 1 worker, backup | A progress frame reads a backup as timed out; its result commits success; the frame then saves `running` from its old object (`backup_orchestrator.py:3778`). |
| `NodeTask!SealedLifecycleIsFinal` | lifecycle | A late `running` result moves a sealed, failed upgrade back to `running` (`task.py:1689`), which the comment on sealed failures excludes. |
| `AgentSession!LiveWorkNotRepaired` | plain, 1 fault | The repair pass of a reconnect asks the Tracker for active tasks, a command is accepted and starts, the pass lists the running rows and fails it. |
| `AgentSession!EvidenceNotDropped` | managed, 1 fault | A managed restore is cancelled and the interim result is sent; the executor ends and requeues the row with its evidence; the ACK of the interim result marks the row reported and the evidence is never sent. |
| `TaskProtocol!NeverDispatchedNeverRuns` | managed, `WorkersCrash = TRUE` | A worker publishes a managed restore and dies before its commit; a cancellation seals the row as never dispatched while the Agent executes. |
| `TaskProtocol!OutcomeReachesRow` | `ResultAck = FALSE` at first | On the first session of a process a command finishes before the hook has selected the ACK mode: its result counts as reported when written and is lost with the session. |

Smaller observations, made while the code was translated:

* The reattachment of a timed-out backup does not look at `delivery_timeout_sealed`,
  so it also revives a sealed delivery timeout.
* With `TASK_COMMAND_ACK_MAX_RETRIES = 0` a sweep that read the row before its
  first delivery claims a second attempt at once; `AttemptsBounded` holds
  only from `MaxAttempts = 2` on, which is the assumption of the theorem.
* A plain command may be cancelled while a worker is about to publish it; the
  Agent then sees the cancel first. `task.cancel` is published inside the
  transaction that cancels, so a rollback leaves a cancelled Agent and an active row.
* Quarantine ignores whether `XACK` removed anything: an entry that a slow
  consumer has just handled may also land in the dead letters (`Mailbox!Bury`
  allows it). The stream has no maximal length.
* The connect hook writes `last_seen_at` unconditionally, so a slow, superseded
  hook moves it back; a sweep between its route write and its record leaves the
  node offline until the next heartbeat. `_agent_routable` takes an error of
  Redis for a missing route.
* A late success that arrives while the backup task still runs, or any advance of an
  ended task, renames a stale failure (`WATCHDOG_STALL`, `AGENT_OFFLINE`) after a
  command that is now a success; the new code is not adoptable, so the success is
  never adopted. `_maybe_adopt_late_success` never applies to a row that is in progress.
* `retry_backup_directory` saves the whole row it read. It can replace a row that
  was just adopted as available under a task that is a success, or leave a pending
  row under a failed task whose snapshot stays `CREATING`, which the unique
  constraint on active snapshots turns into a block of all later backups. A second
  request makes the row name no command, so that a cancel in this moment does not
  find the one that runs. Two requests that read the same row give two attempts the
  same number, so that the result of the earlier one can pass the comparison of
  attempts (TLC: 2 requests, `LateAdoptionIsCurrent` without its condition on
  `overtaken`, the history variable that marks these runs with "request").
* The queue recovery fails a task that has waited too long, and its unfinished
  rows, by the age of the task. A task that was queued again by the retry of one
  directory may have commands of others at work: their rows are failed while they
  run, and a cancel after the next retry, which asks only the commands of
  unfinished rows, does not find them (TLC: 2 directories, 2 requests,
  `CancelStopsWork` without its condition on `overtaken`, which marks these runs
  with "queue").
* A cancel request that overlaps a retry marks rows as cancelled without looking at
  them again, also an available row. If its process dies, the task is cancelled
  while commands run and the snapshot stays `CREATING` until somebody cancels again.
* A precheck that fails at any advance, for instance because the Agent is offline at
  that moment, fails the whole task while its commands go on.

### Bounds, and why they are enough

* **NodeTask, two workers.** Each race of the row is between one actor with an old
  read and one that has moved the row; frames, cancellation and watchdog
  are environment actions that need no worker. The theorems remove this bound.
* **Two attempts.** First delivery, one retry, exhaustion. `Claim` compares for
  equality with the attempts it read, so a third attempt repeats the second.
* **Channel capacity 1 to 3.** A full channel loses the frame, so a small
  capacity adds loss and removes nothing but length. Three admits command,
  cancel, command, which is what `CancelNotOvertaken` looks for.
* **Two frames, one fault in the Agent.** A repeated command, or a command and
  its cancel; a crash or a disconnection at any step between them. ACKs are
  not counted among the frames.
* **TaskProtocol.** The constraint `Bounded` of `MCTaskProtocol` follows a backup
  without faults and with one frame in flight; what faults do to one
  command is explored with the managed restore, which is delivered once.
* **UplinkQueue.** `MinDeliveries = 2` and `BatchSize = 2`: one redelivery before
  quarantine and a batch that is worked through while another worker reclaims from
  it; three entries are two frames and one replay. One entry is reclaimed at
  a time, as with any batch size below eight in the code.
* **AgentRoute, NodeLiveness.** Two sessions: the hazards are between a session and
  its successor; the theorems hold for any number. Two processes: one that restarts
  and one that serves. A clock of 2 with a grace of 1 separates before, at and
  after the grace period. The constraint `Bounded` of `MCNodeLiveness` keeps a sweep and a
  follow-up from overlapping once the fault has happened; without it (15.7 million
  states) nothing more was found.
* **PeriodicWakeup.** Two tokens are a wake-up and its successor; with two Beat
  processes each may be published by another one.
* **BackupRun.** `MaxCommands` is what the code can create: the first command, one
  requeue, and one per request. Two requests overlap each other, the run and the
  cancel. Two directories with two slots and no request let one directory wait,
  fail or finish while the other is at work; two directories with one request and
  no fault (2.1 million states) were explored once without finding more, and so was
  the inductive invariant of `CancelStopsWork` with two directories and two requests.
* **TaskProtocol, beyond the run.** The inductive invariants of its proofs were explored
  with managed restores (channel of 2, one fault, 1.6 million states), lifecycle
  commands (channel of 1, one fault, 4.7 million) and bounded backups (1.0 million)
  before they were proved for every class and every bound.
* **One command** in AgentTask and TaskProtocol. Rows do not refer to each other.
  What several commands share (slots, the outbox window) is not covered.
* **Symmetry** is used only in `node_task` (workers) and `backup_run` (requests), which
  have no liveness property.
* `CHECK_DEADLOCK FALSE` appears in `task_protocol`, `periodic_wakeup`,
  `uplink_queue`, `node_liveness` and `node_settles`, whose instances really may
  stop: commands decided, entries used up, the clock at its bound.

### Fairness, and why the code justifies it

* `NodeTask!FairSpec`: deadlines pass; the watchdog and the reconciliation sweep
  are periodic Celery tasks, so they run again and again, and the lock they wait
  for is released because every worker goes on or dies (strong fairness). A
  sweep may crash, but not at the same step for ever. Nothing is assumed of
  delivery, frames, capabilities or the Agent.
* `AgentSession!FairSessionSpec`: goroutines are scheduled, engines and helpers
  return, timers fire, the connector redials and a supervisor restarts the
  process. Reader and execution compete with the outbox for the write mutex,
  which Go grants to a starving waiter: strong fairness. Faults, new frames
  and maintenance are not fair.
* `TaskProtocol!FairProtocolSpec`: the same for the Agent; the consumer keeps
  handling frames. Deliveries, sweeps, cancels and faults are not fair.
* `PeriodicWakeup!FairSpec`: messages are consumed and end (hard time limit), time
  passes. Beat, publication, promotion and retries are not fair.
* `UplinkQueue!FairSpec`: the periodic drain runs again and again and its steps
  end; idle times and ages are clocks; a lease that is not refreshed ends.
* `AgentRoute!FairSpec`: consumers go on, the Agent sends heartbeats and repeats its
  result (strong fairness of its reception, for the session may change in
  between), and the lease of a route that nobody renews ends.
* `NodeLiveness!FairSpec`: consumers and the drain go on; heartbeats with
  capabilities find room in the queue again and again.
* `BackupRun!FairSpec`: the periodic reconciliation advances every active task, and
  sooner or later finds its Agent connected, its capabilities known and slots free;
  commands are accepted and end; requests go on unless their process dies. No
  result need ever trigger an advance: a lost follow-up does not stop a run.

## 4. What is proved

For every value of the constants (any number of workers, sessions, processes,
tokens, frames, attempts):

| Theorem | Statement | Assumes |
|---|---|---|
| `NodeTask_proofs!TypeCorrect` | `Spec => []TypeOK` | |
| `NodeTask_proofs!DecisionsAreFinal` | no step changes a success or a cancellation | `~Reattaches` |
| `NodeTask_proofs!SealedTimeoutsAreFinal` | no step changes a sealed delivery timeout | `~Reattaches` |
| `NodeTask_proofs!CancelNeverOvertaken` | no command of a managed restore follows a cancel in its channel | `~WorkersCrash` |
| `NodeTask_proofs!AttemptsAreBounded` | `attempts <= MaxAttempts` for ACK commands | `SingleFlight`, `MaxAttempts >= 2` |
| `NodeTask_proofs!OneFrameForEachAttempt` | `Spec => []OneFramePerAttempt` | |
| `NodeTask_proofs!AcceptedIsDeliveredOnce` | `Spec => AcceptedNotRedelivered` | |
| `TaskProtocol_proofs!ProtocolImplementsOutcome` | `KeepsOutcome`: the protocol implements `TaskOutcome` | `Undisturbed` |
| `TaskProtocol_proofs!StopEvidenceIsTrue` | `ProtocolSpec => []StopEvidenceSound` | `~WorkersCrash` |
| `TaskProtocol_proofs!AcksFollowDecisions` | `AckedMeansDecided` | `~Reattaches` |
| `TaskProtocol_proofs!CommandExecutedOnce` | at most one engine is started for a command, however often it is delivered | |
| `TaskProtocol_proofs!CancelReachesExecution` | a cancellation stored by the Agent cancels the execution, or its handler is about to | |
| `TaskProtocol_proofs!CancelledIsNoSuccess` | a command cancelled on its Agent is not a success in the control plane | upgrades excepted |
| `PeriodicWakeup_proofs!WakeupTypeCorrect`, `WakeupsAreSingleFlight`, `LeaseIsFenced` | types, `SingleFlight`, `LeaseKeptWhileInFlight` | |
| `AgentRoute_proofs!RouteTypeCorrect`, `AckedIsApplied`, `RouteIsFenced` | types, `AckedMeansApplied`, `RouteFenced` | |
| `NodeLiveness_proofs!LivenessTypeCorrect`, `EvidenceIsOfSession`, `ObservationsAreOrdered`, `OfflineNeedsSilence` | types, `EvidenceOfSession`, `ObservationsInOrder`, `OfflineOnlyWhenSilent` | |
| `UplinkQueue_proofs!QueueTypeCorrect`, `NothingIsStranded`, `LatestFrameIsMarked` | types, `NothingStranded`, `LatestFrameMarked` | |
| `UplinkQueue_proofs!LeaseIsNotStolen` | no drain releases the lease of another one | |
| `UplinkQueue_proofs!QueueKeepsFrames` | `Spec => KeepsFrames`: the queue implements `Mailbox` | |
| `AgentSession_proofs!AgentTypeCorrect`, `AgentRunsOnce`, `AgentCancelReachesEngine`, `AgentResultConverges` | types, `AtMostOneRun`, `CancelReachesEngine`, `ConvergedResult` | |
| `BackupRun_proofs!BackupTypeCorrect` | types; a directory gets at most two commands and one for each retry request | |
| `BackupRun_proofs!OneCommandAtATime`, `SuccessIsComplete` | `OneLiveCommand`, `SuccessMeansAvailable` | |
| `BackupRun_proofs!LateAdoptionFollowsLatest` | `Spec => LateAdoptionIsCurrent` | |
| `BackupRun_proofs!CancelReachesWork` | `Spec => []CancelStopsWork` | |

`Reattaches` holds of backups when the reattachment is configured, and `Undisturbed`
excludes exactly those backups and, if workers may die inside a transaction, managed
restores. Both speak of the class of the command, which never changes: a theorem
with `~Reattaches` holds of every other command with the reattachment on. For the
excluded commands the properties are false (the table of section 3), so the
hypotheses are necessary.

* **NodeTask, finality.** A row is `Final` when it is a success, a cancellation or a
  sealed timeout. Every guarded write requires a state that is not final; the only
  one that does not is `ReattachBackup`, so the argument needs the invariant
  `NoReattach` (no worker is at `reattach`), inductive for every command that
  is not one of `Reattaches`.
* **NodeTask, lock discipline.** `CancelNotOvertaken` alone is not inductive: a worker
  about to publish must be known to hold the lock. `LockInv` says that a
  worker in the delivery path of a managed restore holds the lock, that the row
  is pending meanwhile, and that the channel of a pending row holds
  commands only. A crash releases the lock after the publication
  without its record, hence `~WorkersCrash`.
* **NodeTask, attempts.** The bound is checked by the sweep long before the claim.
  `AttemptInv` keeps what each worker knows: at most one worker sweeps, a sweep
  about to retry has read fewer than `MaxAttempts`, a claim outside the sweep is
  of the first attempt, and a row with the legacy protocol that still waits has
  no attempts.
* **NodeTask, frames.** `OneFramePerAttempt` compares a channel with a counter that is
  written earlier, by another step. `FrameInv` adds the workers in between: the
  commands in the channel and the workers that have claimed and not yet published
  are together at most the attempts; a worker that dies there only leaves an
  attempt without a frame. It needs that the protocol of a row, once recorded, is
  not chosen again, and cardinalities of finite sets (`FiniteSetTheorems`).
  `AcceptedNotRedelivered` needs no invariant: each writer of `attempts` re-reads
  `accepted` in the statement that writes.
* **TaskProtocol, what is said is true.** The row learns of the Agent only by frames,
  which may be old. `Told` collects everything that is said of the execution: the
  frames on their way, the outcome in the hands of the execution or of a flush, and
  the stored row. `TruthInv` says that a success, a detachment and the proof that
  the executor ended are told or recorded only when the execution is over (`Over`,
  `Closed`) and never contradict each other; `ExecInv` is what the Agent's side
  needs for it (one row before one engine). A step of the Agent tells something
  new only in `Finish`, `SealCancelledExecutor` and `Detach`; a step of the row
  records only what the frame or the row says.
* **TaskProtocol, acknowledgements.** `AckInv`: while an ACK is due or queued the row
  is decided, or the command is a lifecycle command or one of `Reattaches`. The
  consumer commits before it sends the ACK, and decisions are final by the
  argument above.
* **TaskProtocol, stop evidence.** `Unseen` is a managed restore that the row does not
  know to be dispatched or accepted while no worker is between publication and
  record; `NeverInv` says that then no command is in the channel and the Agent has
  no row. It stands on `LockInv`, carried over to the composition, and on
  `DispatchInv` (a running restore was dispatched or accepted). With `TruthInv`
  it gives `StopEvidenceSound`.
* **TaskProtocol, refinement.** A step of the Agent is `Execute`, `End` or a stutter
  (`OutcomeAgent`); a step of the row is `Decide` or a stutter (`OutcomeRow`): a final
  decision stays (`NeverKept`, `StoppedKept`, finality of a success), a cancellation
  is left only for "stopped", and the new decision is true of the execution by
  `TruthInv` and `NeverInv` of the next state.
* **TaskProtocol, the Agent's promises.** What `AgentSession` proves against an
  arbitrary control plane holds against the real one, and to the end: `ExecutedOnce`
  follows from `ExecInv`; `CancelHeard` needs `Cancellable` (an execution that is
  registered can be cancelled until it was); `CancelledNotSucceeded` relates the
  two databases. Its invariant `SuccessInv` says that a success told or recorded
  belongs to an Agent's row that has ended. It cannot say "succeeded": the repair
  pass may rewrite that row as failed after the result left (section 3). No
  step of the Agent cancels or reopens an ended row (`EndedKept`). Neither these three
  theorems nor their invariants need a hypothesis: they hold of reattached backups
  and of workers that die.
* **PeriodicWakeup.** Single flight is about messages, the guard is one key. The
  inductive invariant says where the key stands for every guarded token: a token
  that is published, waits or runs owns the key in the phase that goes with it;
  uniqueness follows because there is one key.
* **AgentRoute.** `AckAfterCommit` (a consumer at its ACK has committed) makes
  `AckedMeansApplied` inductive. `RouteFenced` is proved step by step: the scripts
  compare the session.
* **NodeLiveness.** `Causal` (nothing observed lies in the future), `SweepSilent`
  (what the sweep read was silent, and stays so while the row is unchanged) and
  `EvidenceOfSession` strengthen the types.
* **UplinkQueue.** `QueueOK` says that the pending list is exactly the delivered part
  of the stream, `WorkersOK` what a drain may have in hand, `Kept` that every frame
  handled or buried was accounted for. The refinement maps each step of a drain to
  a step of `Mailbox` or a stutter; it needs that an acknowledged entry was
  processed by whoever acknowledges it.
* **AgentSession.** Three strengthenings, each for one property: `StartsOnce` (no row,
  no execution; an execution that has not reached its engine has not run),
  `CancelSeen` (a registered execution can be cancelled until it was, so that a
  cancellation persisted before the registration is found by the check that follows
  it), and `NoSuccess` (while a row is open or cancelled, no frame on its way, in the
  flush or in the hands of the execution reports a success).
* **BackupRun, commands.** A command is created once in every turn of a directory.
  `Fits` counts the turns: the first one, one for a row that the orchestrator has not
  retried before, and one for every request that has saved its row. This bounds the
  commands although a request may save a row it read long before.
* **BackupRun, late results.** `Numbered` says that the attempts grow with the
  commands and that the next number of a pending row is free; then a result whose
  attempt is the row's is the latest command's. It holds while no request overtook
  another (`"request" \notin overtaken`), which is the hypothesis of the property; with overlapping
  requests two attempts get the same number.
* **BackupRun, one command.** `Single` says that, unless a command of the directory came
  back to life, only its latest command may be live and the row names that one or
  none. It holds for overlapping requests too, because a dispatch looks at the
  command that the row stands for. `SuccessMeansAvailable` needs only that a request
  that will save has read a row that had failed (`ReadFailed`).

* **BackupRun, cancel.** A cancel request asks the commands named by rows that it read
  without the task's lock. `Held` says that work that was not asked to stop belongs
  to a row in progress that names the latest command; `CancelHolds` that what a
  cancel request has still to visit, as it read it, covers all such work, until
  nothing is left (`Settled`). Each writer of a row or a command must keep both,
  which `Rests` states once for all of them.

Every safety property and every refinement that a run checks is a theorem; the three
statements about the Agent's promises in `TaskProtocol` are theorems beyond the runs.
Only
model-checked are the liveness properties (`PendingEnds`, `EventuallyReported`,
`EventuallyFinished`, `EveryLeaseEnds`, `EntryLeavesQueue`, `ResultGetsThrough`,
`LiveNodeSettles`, `BackupSettles`): liveness under fairness is out of the prover's
reach and stays with TLC. Modules with theorems use no recursive operator; `CancelNotOvertaken` is
stated over positions of the channel for that reason.

## 5. What is not modelled, and why

* Encryption of payloads, error classification, display fields, the Redis task
  stream: no status depends on them.
* The refresh of delivery deadlines while a WebSocket recovery hold lasts.
* Several commands of one Agent: slots and the outbox window.
* Of a backup run: the legacy serial mode and its fail-fast, the age limits of late
  results, the commands that prepare policies, start the repository server or probe
  it (they appear as `AdvanceWaits`), missing snapshot ids, quotas. The follow-ups of
  restores and probes.
* The node lifecycle coordinator beyond its decisions on the command row.
* The components with status `not_modelled` in `PROJECT.json`; the reason is there.
* Installers, deployment scripts, translations, web console: I/O and presentation.

## 6. Plan

1. Several commands of one Agent: window of the outbox, snapshot slots.
2. `NodeLifecycle` (coordinator) and the recovery hold in the delivery deadline.
3. `apps/task`, restore reconciliation, repository ownership and cleanup, chat
   queue, NAS leases, the connection-configuration transaction of the Agent.

## 7. Running

    tlc -config NodeTask.cfg MCNodeTask
    tlapm NodeTask_proofs.tla
