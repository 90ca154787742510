# Nestlone's durable control planes in TLA+

TLA+ models of the parts of Nestlone that keep promises across processes and
crashes: Agent Fleet, the background task manager, the automations built on it,
and the runtime's threads and turns. TLC checks them on small instances; TLAPS
proves every safety property of the passing runs for every instance.

These four were chosen because they are where the program is hardest to get
right. Fleet's commands are several operating-system processes that share one
append-only file, any of which may die, and whose workers outlive them. The
task manager answers callers from memory and has to stand by its answers after
a crash. Automations enqueue work without holding their mutex. The runtime's
threads are raced for by API calls, timers, monitors and evictions.

## 1. Inventory

### Parts that are modelled

Paths are below `src/crates/tui/src/`.

| Part | State | Operations | Interacts through |
|---|---|---|---|
| Fleet ledger (`fleet/ledger.rs`) | `.nestlone/fleet.jsonl`; replayed into tasks, event high-water marks, heartbeats, receipts, alerts | enqueue, lease, append event, finalize, restart, cancel, heartbeat, alert | a workspace file lock; every client re-reads under the lock and compares what it expects |
| Fleet scheduler (`fleet/scheduler.rs`) | an instant, one replay of the ledger | `fleet resume`: Stale mark, retry, fail, alert | ledger transactions fenced by the version it read |
| Fleet manager loop (`fleet/manager.rs`) | a lock per run, the executor | lease, launch, fence, drain, poll, outcome, return | run lock, ledger, host processes |
| Fleet executor and hosts (`fleet/executor.rs`, `fleet/host.rs`) | tracked attempt and log offset per worker, child processes | start, drain, poll, stop, forget | called by the manager loop |
| Fleet operator commands (`fleet/manager.rs`) | none | interrupt, stop, restart | ledger; restart then becomes a manager |
| Task manager (`task_manager.rs`) | `queue.json`, one record per task, the same in memory, cancellation tokens, worker tasks | add, cancel, start, execution events, finish, load at start | one mutex, `Notify`, files written under the mutex |
| Automation manager (`automation_manager.rs`) | one file per automation and per run | create, update, pause, resume, delete, run now; the loop's tick and reconciliation | a mutex that is released while tasks are enqueued and looked up; the task manager |
| Runtime turns (`runtime_threads.rs`) | thread and turn records, registry of engines, order of use, one monitor per turn | start turn, compact, edit thread, interrupt, monitor, failure path, restart | registry lock, lock for building engines, mailbox and event channel of an engine |
| Runtime tool calls (`runtime_threads.rs`) | registry of pending calls, event log of the thread, recovery receipts | register, announce, deliver, time out, settle, end of turn, flush, recover | a sender that is claimed once, the projection lock |

What makes each of them correct, and what makes it hard:

* *Ledger.* A worker holds one lease, a run stays within its capacity, a
  finished task is only reopened by a restart, a completion is explained by the
  receipt of its own attempt, the owner sequence tells lifecycle states apart,
  receipts and alerts only speak of what happened. Hard: a transaction of
  several records is one write and can be torn after any of them; stamps have
  one-second resolution; late results of old attempts.
* *Scheduler.* It acts on an old replay, so each step must be refused when the
  lease changed; the retry budget holds against competing resumes and
  operators; a silent lease is recovered although resumers die.
* *Manager loop.* One owner per run, one process per worker, processes of dead
  attempts are stopped, the run comes to an end. Hard: the ledger is changed by
  others between any two reads, and children survive their manager.
* *Task manager.* What was answered stays true: an accepted task is not lost, a
  cancellation holds, nothing runs twice, every accepted task ends. Hard: an
  operation is several writes, memory is changed before them, and workers are
  woken after the mutex was released.
* *Automations.* Every slot has its run, once, and the run tells what became of
  its task. Hard: the three phases of a tick are interleaved with the API, and a
  crash falls between the enqueue, the run and the automation.
* *Runtime turns.* One claim per thread, held by one monitor; the engine a
  thread has is the one its settings call for; ended turns stay ended. Hard:
  five paths change the registry, and a call reads the thread, the engine and
  the claim at different moments.
* *Runtime tool calls.* One receipt per call, in the log before anyone is told,
  all of them before the turn's completion. Hard: three parties race, appends
  fail half-way, and recovery must find out what is missing.

### Parts that are not modelled

Sub-agent coordination (`tools/subagent/mod.rs`), lanes, the job table, the core
engine and its turn loop, and workflows keep protocol state and are on the plan
below. The state store's transactions are SQLite's. Providers, MCP, app server,
terminal UI, configuration, secrets, exec policy, hooks and command line are
I/O, rendering or pure rule matching; they are most of the repository's lines.
`PROJECT.json` lists each part with its sources and the reason.

## 2. Modules

    FleetLedger              transactions of the ledger by any client
      FleetLedgerProofs
      FleetScheduler         fleet resume, over the ledger's transactions
        FleetSchedulerProofs
      FleetManager           manager loops, executors, hosts, over the same transactions
        FleetManagerProofs
    Queues                   the queue operation the managers share
      QueueProofs            lemmas about it
    TaskBoard                abstract: the durable records of tasks
      TaskManager            the task manager; implements TaskBoard
        TaskManagerProofs    the refinement included
      AutomationManager      automations, built on TaskBoard
        AutomationManagerProofs
    RuntimeTurns             threads, engines and turns
      RuntimeTurnsProofs
    RuntimeCalls             client-executed tool calls of one turn, its event log
      RuntimeCallsProofs
    MC*                      one module of instances for TLC beside each

Each `*Proofs` module EXTENDS the module it is about; those of the scheduler and
the manager also extend `FleetLedgerProofs`, whose lemmas they use.
`FleetScheduler` and `FleetManager` EXTEND `FleetLedger`: their steps call its
actions and keep their own control state beside the ledger's variables.
`AutomationManager` EXTENDS `TaskBoard` in the same way: it relies on what the
task manager is proved to promise of its records, and puts the memory its
look-ups read beside them. Operators whose
comment begins with "Mutation:" are not part of the specification; they are
deliberately wrong variants that show each property can fail.

### FleetLedger

The variables are what `rebuild_state` replays: `tasks` (status, attempts,
`leased_to`, `leased_at`, `lifecycle_seq`), `latest_seq` per worker and task,
`heartbeats`, `receipts`, `alerts`. One action is one call under the write
lock. A call whose compare fails appends nothing, which is a stuttering step,
so `LedgerNext` offers every call with the version that is current: what the
ledger promises to any client. The argument `k` is how many of the
transaction's records became durable; a torn write is `k` below the full count.
Because `TaskLeased` is the first record of a lease or a restart, every prefix
is a lease with fewer events and no heartbeat; a torn cancellation leaves an
Interrupted event and the lease.

`RunOf`, `WorkersOf` and `MaxActive` are constants: a run's specs never change.
The assumption that a run has no more workers than its capacity is what
`worker_ids_for_run` guarantees (it takes the first `max_workers` specs, and
`max_workers` is the capacity that every lease passes).

Verification is a free choice of `Accepted` or `Rejected`. Events are counted,
not stored; the Escalated event that replay derives from an alert takes a
sequence number and is counted too.

### FleetScheduler

A resumer goes through `Open` (the instant is taken), `Snapshot` (one replay
and its stale leases), then for each stale lease `Mark` and `Retry` or `Fail`,
after `Fail` one `RecordAlerts` step per channel, and `Finish`. Each step is
one lock acquisition. Beside it run a clock, the manager (lease, heartbeat,
outcome) and the operator (cancel, restart). `Crash` ends a resumer anywhere.
Stamps are whole seconds and the instant is not, so an age of `Timeout` whole
seconds already exceeds the timeout, and the replacement lease of a retry is
stamped with the instant, not with the clock.

### FleetManager

`mgr[m]` is the control state of one process: standing by for the lock, in the
leasing loop (`PickLease`, `StartWorkerTask`), launching from a snapshot
(`Launch`, `LaunchFails`, `PublishArtifact`), driving the tracked processes
(`Fence`, `Visit`, `Drain`, `PollRunning`, `PollExited`), checking and
returning. `tracked` is `executor.streams`; `procs` are the host processes.
A process runs in a session of its own (`setsid`), so `Crash` turns the
children of the dead manager into orphans: owner `NoManager`, still running. A
manager that returns with an error (for instance from a failed stop) drops its
executor in the same way and is the same step.

Heartbeats, stamps and the published run status are left out here: nothing in
the loop reads them. Staleness is the scheduler's subject.

### TaskBoard and TaskManager

`TaskBoard` is what a client may rely on: a record goes from Absent to Queued to
Running to an outcome and never back, and a restart fails the running ones.

`TaskManager` has the memory (`tasks`, `queue`, `token`, `permit`, `worker`) and
the files (`diskQueue`, `diskTask`, `staged`). Every operation takes the state
mutex, changes the memory and then writes file after file before it releases
the mutex; `lock` is the operation that holds it and what it has still to
write, so `SaveQueue` and `SaveTask` are the single writes, and `Crash` or a
failed write (`Persisted(FALSE)`) may come before any of them. `AddTask`,
`QueueAdd` and `Promote` are the three writes of `add_task`. `NotifyOne` comes
after the mutex was released; `PopNone`, `Poll` and a parked worker are the
window in which a wake-up could be lost. `Boot` is `load_state`. Five history
variables record what callers were told.

A record is its status: everything else in it rides along. The refinement maps
the board's `status` to `Durable`: the records on disk or, while no manager
serves them, what the next one will make of them.

### AutomationManager

`sched` is the loop of one process: `Collect` under the mutex, `Enqueue` without
it, `SaveRun` and `Advance` under it again, then `CollectPending`, `Lookup` and
`Fold` in the same three phases. `manual` is one caller of `run_now`; the other
calls of the API are single actions. A mishap is a failed write, a refused task
or the death of the process.

Recurrence rules are abstracted to a slot at every tick of the clock, as the
properties only need slots to be ordered. A run has at most one task, so the
task of a run bears the run's number.

A look-up is `get_task`, which answers from the memory of the task manager
(`tasks`), while `status` of `TaskBoard` is the durable record. A task moves in
memory first and `persist_all_locked` follows (`Moves`); its failure is only
logged, and leaves any of the records behind until a later write catches up
(`TaskWritten`, or the next `Moves`). A `Crash` makes the memory what the next
process loads. `forgotten` is the history of tasks whose outcome was in memory
only when the process died. `Fold` saves the run and then, after an outcome, the
automation; either write may fail.

### RuntimeTurns

A request goes through `Begin` (it reads the thread), `TakeEngine` or
`BuildEngine` with `InstallEngine`, `DiscardEngine` and `EvictEngine`, `Check`,
`Reserve` (a slot in the mailbox of the engine it took) and `Claim`. An engine
is its mailbox, its event channel and its workspace; `loader` is the lock under
which engines are built. A monitor goes through `Observe`, `Publish` and
`Release`, or from any of them through its failure path to `EvictFailed`. The
settings of a thread are its workspace, the one setting whose edit evicts the
engine. Items, usage, routes, steering and approvals are left out.

A claim that cannot be saved is undone (`ClaimFails`); when the removal of the
turn's record fails as well the claim is given back all the same and the record
stays InProgress (`CleanupFails`). `lost` has the turns whose record stays
InProgress without a claim until the next start of the process: those, and the
ones whose failure path could not save either. An incident, which
`IncidentBound` counts, is an edit of a workspace, a failed cleanup, a failure of
a monitor or of its failure path, or a restart.

### RuntimeCalls

One turn. An executor registers and announces its call and waits; `Deliver`, the
executor's timer (`TimerClaims`) and the end of the turn (`ClaimOrWatch`) race
for the sender. The winner's settlement (`Settle`) appends the receipt under the
projection lock and then tells the registry, the watchers and the executor. An
append is `ok`, `rolled_back` or `indeterminate` (the rollback failed as well:
the line may be there or not). `closer` is the one job that ends the turn: the
monitor, its failure path, or the flush of a recovery receipt by a reader.
Prompts for user input, which the same end of turn settles by the same
protocol, are left out, and so are torn lines, payloads and the broadcast.

## 3. Runs

| Run | Instance | Shows |
|---|---|---|
| `ledger` | 2 tasks for the only worker of their run, a worker of no run, capacity 1, 2 attempts, sequence to 6 | `OneLeasePerWorker`, `RunCapacity`, `CompletedHasReceipt`, `ReceiptWithinHistory`, `EventsBelongToOwner`, `AlertedAttemptFailed`, `FinishedOnlyRestarts`, `LifecycleAdvances` |
| `scheduler_fencing` | 2 resumers, manager, operator, budget 2 of 3 attempts | `RecoveryWithinBudget`, `RecoveryOnlyTakesLeased` |
| `scheduler_recovery` | 1 resumer that may die twice | `SilentLeaseRecovered` |
| `scheduler_lost_alert` | 1 resumer that may die | `EscalationDelivered` is violated |
| `manager_fencing` | 2 managers, one may die, 1 task, 1 line of output | `OneChildPerWorker`, `NoChildLeftBehind`, `FencedProcessGoes` |
| `manager_completion` | 1 manager process at a time, 2 tasks for 1 worker | `OneChildPerWorker`, `RunCompletes` |
| `tasks` | 2 tasks, 2 workers, 1 crash, 1 failed write | `QueueIsQueued`, `ExecutedOnce`, `AcceptedKept`, `CanceledStays`, `RequestedNeverCompletes`, `RecordsMoveForward` (the refinement), `AcceptedEnds` |
| `automations` | 1 automation, 1 tick, 2 runs, 2 mishaps | `OneRunPerSlot`, `RunTellsOutcome`, `SlotsNotSkipped`, `CatchesUp`, `RunsSettle` |
| `automation_duplicate` | 1 automation, 1 slot, 1 mishap | `OneTaskPerSlot` is violated |
| `runtime_turns` | 2 threads, 2 calls, room for 1 engine, 2 workspaces, 2 turns, 3 engines, 1 incident; symmetric threads and calls | `ClaimHasMonitor`, `OneTurnInProgress`, `OrderMatchesRegistry`, `EngineInWorkspace`, `AcceptedTurnIsHeld`, `TerminalIsFinal` |
| `runtime_stale_event` | 1 thread, 2 calls, 1 incident | `NoStaleEvents` is violated |
| `runtime_calls` | 2 calls of a turn, 2 failed appends or saves, 2 crashes | `OneReceipt`, `AnswersHaveReceipts`, `SnapshotComplete`, `CallsBeforeCompletion`, `CallsSettle`, `CompletionFollows` |

Bounds. In Fleet, two attempts are the least in which an old attempt can
interfere with a new one, and the ledger's decisions compare attempts only for
equality, so a third adds no new case (the scheduler run has three because its
budget is two). The sequence bound admits a full lease, its outcome and a torn
restart, and in the liveness runs it is large enough never to stop an action.
Two tasks and one worker make every lease compete; two resumers or two managers
are the least that can race. Two workers over two tasks let one park while the
other runs, and a crash with a failed write before it is the least that brings
a stale record back. One tick makes a slot due and leaves the one after it to
move to; a slot is met again after one mishap, and two let a failed write of a
task's outcome be followed by the death of the process. Two threads with room for one engine make
every build evict; three engines allow a rebuild after both an eviction and a
failure; the incident (an edit, a failed cleanup, a failed monitor or a restart)
is one, so edits during a failure are not covered by the run (the proofs cover
them). Two calls let one be settled while the end of
the turn claims the other; two crashes let recovery itself be cut short.

The runs are spent on what can go wrong, not on types: the `TypeOK` of each
module is proved, as part of its inductive invariant (`FleetScheduler` and
`FleetManager` keep the ledger's, and the types of their own state are stated in
their proofs).

The deadlock check is off everywhere: a run whose tasks are finished, a
manager without tasks and a thread without turns really stop.

Fairness.

* `SchedFairness`: time passes, a started resume goes on unless it dies, and
  `fleet resume` is issued again; nothing is assumed of managers or operators,
  who may be gone.
* `LoopSpec`: a living manager keeps executing, which the loop justifies because
  it only sleeps for a bounded tick; a host process may run for ever.
  `FairManagerSpec` adds that host processes end, which the code does not
  enforce and `RunCompletes` needs.
* `TaskManager!FairSpec`: the holder of the mutex never awaits, so it goes on;
  the mutex (tokio's) is handed over in order of arrival, so a worker that asks
  for it again and again gets it (strong fairness). That an execution ends is
  assumed.
* `AutomationManager!FairSpec`: the loop runs for ever, and tasks end, which is
  `AcceptedEnds` of the task manager.
* `RuntimeCalls!FairSpec`: tasks that can go on do, timers fire, locks are
  handed over in order, the engine ends its turn, a stopped process is started
  again and the thread is read. A client need never post a result.
* `RuntimeTurns` has safety properties only and assumes none.

### What the violations show

* `scheduler_lost_alert`: `retry_or_fail` appends the Failed event and its
  alerts in separate transactions. If the process dies in between, the task is
  terminal, later resumes look at leased tasks only, and the alert is lost,
  although `docs/FLEET.md` calls resume idempotent and safe after a restart.
  When no resumer dies (`CrashBound = 0`), TLC finds the property true.
* `automation_duplicate`: the task of a slot is accepted before the run that
  marks the slot is saved. A death in between makes the next tick enqueue the
  slot again, although the comment in `collect_due_runs` calls the retry
  idempotent: the run stays unique (`OneRunPerSlot`), the execution does not.
* `runtime_stale_event`: a call that took an engine before a failed monitor
  evicted it can claim the next turn after another call installed a new one.
  Its monitor listens to the old engine and can take the end of the failed turn
  for its own, which the comment on the eviction rules out.

### Behaviour the models have and no run is about

* A heartbeat stamped after a resume's instant has a negative age, which the
  scheduler calls stale and the manager fresh (`scheduler.rs:498`,
  `manager.rs:1848`).
* The lock is per run. When two runs name the same worker, the process of an
  attempt that was cancelled in one may still run while the other leases the
  worker and launches its own, until the first manager's next round fences it.
  `OneChildPerWorker` therefore speaks of two processes of one run, and of two
  runs only when both attempts hold their lease. (The form without that
  condition fails on an instance with two runs; this form holds there.)
* The look-up of a slot sees the 25 newest runs of an automation. When the
  process dies between the run and the automation and 25 manual runs follow
  before the next tick, the slot gets a second run. `OneRunPerSlot` says that
  this is the only way; with a window of 1 and three runs TLC finds it.
* `finish_task` changes the memory before it writes, and a failed write is only
  logged (`task_manager.rs:1250`). The scheduler can save the run as Completed
  meanwhile; if the process then dies, the next one fails the task and the two
  disagree for good. `RunTellsOutcome` excepts exactly these tasks (`forgotten`).
* A turn that was refused because its thread could not be saved, and whose record
  could not be removed either (`runtime_threads.rs:5000`), stays InProgress
  without a claim until the next start. `OneTurnInProgress` excepts it (`lost`).
* A fresh `fleet restart` after the owner's death relaunches the unchanged
  attempts of other workers beside their orphans.
* A restart that commits a lease between the owner's last check and the release
  of the run lock stands by, finds the lock free and gives up
  (`manager.rs:656`): the lease waits for the next command. `RunCompletes` is
  therefore checked with one manager process at a time.
* The leasing loop looks for a worker idle in its own run, the ledger requires
  one idle in all runs, and the loop retries at once (`manager.rs:421`): two
  runs that name two workers in opposite order spin for ever.
* One indeterminate receipt makes the end of the turn drop the senders of all
  other calls, which stay settling; an indeterminate announcement removes the
  registration. `SnapshotComplete`, `CallsBeforeCompletion` and `CallsSettle`
  exclude indeterminate appends, after which the code refuses to publish the
  completion of the turn.

## 4. Proofs

### FleetLedgerProofs

For every set of runs, tasks, workers and channels and every bound, from
`LedgerAssumption` alone, which TLC evaluates in each run:

| Theorem | States |
|---|---|
| `TypeCorrect` | `LedgerSpec => []TypeOK` |
| `LeaseExclusion` | `LedgerSpec => []OneLeasePerWorker` |
| `CapacityRespected` | `LedgerSpec => []RunCapacity` |
| `CompletionExplained` | `LedgerSpec => []CompletedHasReceipt` |
| `EventsAreOwned` | `LedgerSpec => []EventsBelongToOwner` |
| `ReceiptsAreBacked` | `LedgerSpec => []ReceiptWithinHistory` |
| `AlertsAreTrue` | `LedgerSpec => []AlertedAttemptFailed` |
| `FinishedIsFinal` | `LedgerSpec => FinishedOnlyRestarts` |
| `LifecycleIsMonotone` | `LedgerSpec => LifecycleAdvances` |

The inductive invariant is `IInv`: type correctness, `OwnershipShape` (a task
is leased to a worker of its own run, and only a task that was never leased has
no worker) and `OneLeasePerWorker`. `OneLeasePerWorker` is inductive only with
the shape: a restart checks the other leases of the worker it is given, and the
shape is why that worker is the one the task belongs to. `RunCapacity` then
needs no induction of its own: the live leases of a run map one-to-one into
its workers, and a run has no more workers than its capacity, so a restart
cannot exceed it although it never looks. The other invariants are inductive
beside `IInv`. Two lemmas carry them: `NextIsTaskStep`, which says what any
step can do to one task, and `SeqStep`, what it can do to the sequence numbers;
`OwnerStable` is why events written by an owner stay the owner's.

### TaskManagerProofs

For every set of tasks, set of workers and number of crashes and failed writes,
from `TaskManagerAssumption`:

| Theorem | States |
|---|---|
| `TypeCorrect` | `Spec => []TypeOK` |
| `Invariant` | `Spec => []IInv` |
| `QueueMatches` | `Spec => []QueueIsQueued` |
| `NoReexecution` | `Spec => []ExecutedOnce` |
| `AcceptedSurvives` | `Spec => []AcceptedKept` |
| `CancellationStays` | `Spec => []CanceledStays` |
| `RequestHonoured` | `Spec => []RequestedNeverCompletes` |
| `Implements` | `Spec => RecordsMoveForward`: the manager implements `TaskBoard` |

`IInv` is the conjunction of `Core` and one part per promise. `Core` is
types and the shape of `lock` (`Typed`); that a worker has its task alone, and
the task is Running until the worker finishes it under the mutex (`Exclusive`);
and how far a record on disk may lag behind memory (`Records`): by a move that
the board allows, and under the mutex only where its write is still open. The parts add what callers were told: `Promised`
(accepted tasks have a record), `StartedOnce`, `Forced`, `Requested`, and for
the queue `QueueIsQueued` with `QueueFile` (the file never names a task twice).
None of them is inductive alone: a crash replaces memory by the files, so each
promise has to be stated of the files too. `Implements` follows step by step:
`BoardStep` shows that each action maps to a board step or leaves `Durable`
alone; a crash maps to the board's `Interrupt`, and a start afterwards stutters.

`QueueProofs` holds the lemmas about `Retain`, the queue's filter: which
elements it keeps, that it repeats none, what it does to an appended element.
They are shared with `RuntimeTurnsProofs`.

### FleetSchedulerProofs

For every number of resumers, every budget and every clock, from
`LedgerAssumption` and `SchedulerAssumption` (stamps are positive whole seconds
within the clock's bound):

| Theorem | States |
|---|---|
| `ResumeRespectsLedger` | `SchedSpec => [][LedgerNext]_ledger`: the composed system moves the ledger by its own transactions |
| `ResumeKeepsLeaseExclusion` | `SchedSpec => []OneLeasePerWorker` |
| `RecoveryTakesLeasedOnly` | `SchedSpec => RecoveryOnlyTakesLeased` |
| `RecoveryKeepsBudget` | `SchedSpec => RecoveryWithinBudget` |

`SchedIInv` is the ledger's `IInv` and the shape of what a resumer remembers: a
replay may be old, but the leases in it were leases, with a version and a stamp
the ledger could have had. From that each append is a transaction the ledger
offers to any client, so the ledger's invariant carries over instead of being
proved again. The two action properties then come from the fence: a retry
compares the attempt it read, and the attempt it opens is one more than that.

### FleetManagerProofs

For every number of managers, runs and deaths, from `LedgerAssumption` and
`ManagerAssumption` (a run's workers are listed in order, priorities are
numbers):

| Theorem | States |
|---|---|
| `ManagersRespectLedger` | `ManagerSpec => [][LedgerNext]_ledger` |
| `ManagersKeepLeaseExclusion` | `ManagerSpec => []OneLeasePerWorker` |
| `WorkersRunOnce` | `ManagerSpec => []OneChildPerWorker` |
| `ChildrenAreStopped` | `ManagerSpec => []NoChildLeftBehind` |

`ManagerIInv` adds to the ledger's invariant, per manager, what its plans may
hold (`PlanOK`) and what its executor tracks (`TracksOK`: attempts of its run,
one for a worker, none outside the loop); that the lock of a run is with the
manager in its loop (`LockOK`); and that the processes of a live manager are
exactly the attempts it tracks (`ProcessesOK`). `OneChildPerWorker` is not
inductive without them: a launch looks at the executor's table and not at the
processes, so the table has to be right, and two managers of one run are kept
apart by the lock alone. Across runs the ledger's `OneLeasePerWorker` does it.

### AutomationManagerProofs

For every finite set of automations, every clock, window and number of runs and
mishaps, from `AutomationAssumption`:

| Theorem | States |
|---|---|
| `Invariant`, `TypeCorrect` | `Spec => []IInv`, `Spec => []TypeOK` |
| `OutcomesAreTheTasks` | `Spec => []RunTellsOutcome` |
| `RecordsMoveOnTheBoard` | the durable record of a task moves only as `TaskBoard` allows |
| `NoSlotIsSkipped` | `Spec => SlotsNotSkipped` |
| `SlotsRunOnce` | `Spec => []OneRunPerSlot` |
| `SlotsRunOnceInWindow` | a slot has one run record as long as no more runs are made than the look-up reads |

A run is on disk, in the loop's snapshot and in its hands at once, so the parts
of `IInv` speak of all these records together: `Placed` (a record bears the
number of its run), `OutcomesTrue` (its outcome is the one the task has in memory
unless that was forgotten, and each durable record is behind the memory by moves
of the board, so that a crash changes no outcome that was written), `TickOK` (a collected slot has passed and its automation has not moved
below it; one slot per automation) and `Saved` (the mutex is held between the
two writes). `SlotsNotSkipped` needs `TickOK`, as `Advance` sets the automation
to the slot after its run, whatever it says by then. `SlotsRunOnce` needs
`Spaced` besides: runs are numbered in the order they are made, each for one
automation, and of two records of a slot the second was made when as many newer
runs as the look-up reads were on disk. Every step but three only copies records
and takes no run from disk, which `SpacedFrame` covers; the three are the
collection of slots, a new manual run and a deletion.

### RuntimeTurnsProofs

For every set of threads and calls, every limit of the registry and every number
of turns, engines and incidents, from `TurnsAssumption`:

| Theorem | States |
|---|---|
| `Invariant`, `TypeCorrect` | `Spec => []IInv`, `Spec => []TypeOK` |
| `ClaimsAreHeld` | `Spec => []ClaimHasMonitor` |
| `OneTurnAtATime` | `Spec => []OneTurnInProgress` |
| `OrderIsTheRegistry` | `Spec => []OrderMatchesRegistry` |
| `EnginesAreCurrent` | `Spec => []EngineInWorkspace` |
| `TurnsAreNotForgotten` | `Spec => []AcceptedTurnIsHeld` |
| `EnginesAreNotShared` | `Spec => []EngineOfOneThread` |
| `TerminalRecordsStay` | `Spec => TerminalIsFinal` |

The properties hold together with what each actor relies on between its steps
(`Actors`): a call that builds an engine holds the build lock until it has
registered it, so its thread has no other engine meanwhile; a monitor knows how
far the record of its turn is; and no engine serves two threads, whoever holds
it. The last one is why a late call that posts to an evicted engine cannot
disturb another thread.

### RuntimeCallsProofs

For every set of calls, every limit of the registry and every number of failed
appends and crashes, from `CallsAssumption`:

| Theorem | States |
|---|---|
| `TypeCorrect` | `Spec => []TypeOK` |
| `SettledOnce` | `Spec => []OneReceipt` |
| `AnswersAreTrue` | `Spec => []AnswersHaveReceipts` |
| `SnapshotsAreComplete` | `Spec => []SnapshotComplete` |
| `CompletionIsLast` | `Spec => []CallsBeforeCompletion` |

The argument is one of ownership: the right to append the receipt of a call is
in one place at a time (the unregistered call, its registry entry, the claims
of the closer, the settlement), and is used up by the append (`Ownership`).
`Truthful` ties what was told to the log, `Accounted` says an announced call is
pending, settled or queued, `Behind` what a finished turn or a death leaves, and
`Closing` where the closer is. An indeterminate append uses up the right as
well, although the log may not hold the line: the entry is marked, nobody
settles the call again, and only a recovery, which reads the log, may.

### Only model-checked

The liveness properties (`SilentLeaseRecovered`, `FencedProcessGoes`,
`RunCompletes`, `AcceptedEnds`, `CatchesUp`, `RunsSettle`, `CallsSettle`,
`CompletionFollows`): fairness and ENABLED are outside the prover's reach. The
three violated properties are refuted by TLC. The inductive invariants of the
proofs were checked with TLC on the instances of the runs before they were
proved; `Spaced` on one with three runs and a window of one, too.

## 5. Plan

1. Proofs: the variant arguments behind the liveness properties as safety
   theorems where there are any (what each step of a recovery uses up).
2. More of the runtime: items, steering (the monitor saves a copy of the turn
   that a steer may have changed meanwhile), prompts for user input, approvals.
3. Automations: more runs than the window of the reconciliation, and a second
   scheduler process over the same files (the terminal UI and the runtime API may
   both run one).
4. `FleetReplay`: the records themselves and `apply_record` as a fold, torn
   tails, `compact`; replay of a prefix refines `FleetLedger`.
5. `FleetCoordination`: launch generations of the sub-agent manager prepared
   inside ledger transactions, compensation when the append fails, the status
   projection. The published run status, which is read and written under two
   lock acquisitions.
6. Lanes, the job table, the engine's turn loop, workflows.
