----------------------------- MODULE FleetLedger -----------------------------
(***************************************************************************)
(* The durable fleet ledger (.nestlone/fleet.jsonl) at the level of its    *)
(* transactions.  The variables are the state rebuild_state replays from   *)
(* the file; each action is one call that holds the workspace write lock,  *)
(* re-reads that state, decides, and appends its records in one write.     *)
(*                                                                         *)
(* A multi-record transaction is one write_all: a crash or a full disk can *)
(* leave any prefix of its records in the file.  The parameter k of an     *)
(* action is the number of its records that became durable.                *)
(*                                                                         *)
(* A client passes the version it observed earlier (status, worker,        *)
(* attempts, latest event sequence, heartbeat); a call whose version is    *)
(* out of date appends nothing and is a stuttering step here.  LedgerNext  *)
(* therefore lets any client act at any time with an exact version: it is  *)
(* what the ledger promises whoever calls it.                              *)
(***************************************************************************)
EXTENDS Naturals, FiniteSets

CONSTANTS
    Runs, Tasks, Workers, Channels,
    NoWorker,       \* leased_to = None
    RunOf,          \* the run of a task (tasks are keyed run_id:task_id)
    WorkersOf,      \* worker_ids_for_run: the first max_workers worker specs
    MaxActive,      \* max_active_for_run of a run
    Times,          \* second-granularity wall-clock stamps; 0 is "none"
    AttemptBound,   \* bound of the model: attempts of a task
    SeqBound        \* bound of the model: event sequence of a task

ASSUME LedgerAssumption ==
    /\ NoWorker \notin Workers
    /\ IsFiniteSet(Workers)
    /\ RunOf \in [Tasks -> Runs]
    /\ WorkersOf \in [Runs -> SUBSET Workers]
    /\ MaxActive \in [Runs -> Nat]
    /\ \A r \in Runs : Cardinality(WorkersOf[r]) <= MaxActive[r]
    /\ Times \subseteq Nat
    /\ AttemptBound \in Nat
    /\ SeqBound \in Nat

VARIABLES
    tasks,        \* [Tasks -> FleetTaskState]
    latest_seq,   \* [Workers \X Tasks -> Nat]  event high-water marks
    heartbeats,   \* [Workers -> Nat]           last heartbeat, 0 = none
    receipts,     \* [Tasks -> receipt]
    alerts        \* set of <<task, attempt, channel>> delivered

ledger == <<tasks, latest_seq, heartbeats, receipts, alerts>>

TerminalStatus == {"Completed", "Failed", "Cancelled"}
TaskStatus     == {"Absent", "Enqueued", "Leased"} \cup TerminalStatus
Results        == {"Accepted", "Rejected"}   \* Pass|Partial|Skip, Fail|Timeout

TaskState ==
    [status : TaskStatus, attempts : Nat, leased_to : Workers \cup {NoWorker},
     leased_at : Nat, lifecycle_seq : Nat]

NoReceipt == [attempt |-> 0, terminal_seq |-> 0, result |-> "Rejected"]
Receipt   == [attempt : Nat, terminal_seq : Nat, result : Results]

AbsentTask ==
    [status |-> "Absent", attempts |-> 0, leased_to |-> NoWorker,
     leased_at |-> 0, lifecycle_seq |-> 0]

-----------------------------------------------------------------------------
(* What one record does to the replayed state of its task.                 *)

EnqueuedTask == [AbsentTask EXCEPT !.status = "Enqueued", !.lifecycle_seq = 1]

\* Mutation: a restart within the second of the previous lease counts as the
\* same lease even when the attempt had already ended.
LeasedTaskSameSecond(task, w, ts) ==
    [status        |-> "Leased",
     attempts      |-> task.attempts + 1,
     leased_to     |-> w,
     leased_at     |-> ts,
     lifecycle_seq |-> IF task.leased_to = w /\ task.leased_at = ts
                         THEN task.lifecycle_seq ELSE task.lifecycle_seq + 1]

\* apply_record(TaskLeased): the owner sequence moves unless the very same
\* lease (worker and second) is recorded again; the attempt always moves.
LeasedTask(task, w, ts) ==
    [status        |-> "Leased",
     attempts      |-> task.attempts + 1,
     leased_to     |-> w,
     leased_at     |-> ts,
     lifecycle_seq |->
        IF task.status = "Leased" /\ task.leased_to = w /\ task.leased_at = ts
          THEN task.lifecycle_seq
          ELSE task.lifecycle_seq + 1]

\* mark_task_terminal; the empty worker id leaves leased_to alone.
TerminalTask(task, w, status) ==
    [status        |-> status,
     attempts      |-> task.attempts,
     leased_to     |-> IF w = NoWorker THEN task.leased_to ELSE w,
     leased_at     |-> task.leased_at,
     lifecycle_seq |-> IF task.status = status THEN task.lifecycle_seq
                                               ELSE task.lifecycle_seq + 1]

LatestSeq(w, t) == latest_seq[<<w, t>>]
Bump(w, t, n)   == [latest_seq EXCEPT ![<<w, t>>] = @ + n]
Beat(w, ts)     == [heartbeats EXCEPT ![w] = ts]
HasRoom(w, t, n) == LatestSeq(w, t) + n <= SeqBound

Leases(w)    == {t \in Tasks : tasks[t].status = "Leased" /\ tasks[t].leased_to = w}
ActiveOf(r)  == {t \in Tasks : RunOf[t] = r /\ tasks[t].status = "Leased"}

\* Events among the first k of the n records of a lease transaction: TaskLeased
\* comes first and the Heartbeat last.
EventsIn(k, n) == IF k = n THEN n - 2 ELSE k - 1

\* The complete version a policy decision is fenced by.
Version(t, w) ==
    [status |-> tasks[t].status, attempts |-> tasks[t].attempts,
     seq |-> LatestSeq(w, t), heartbeat |-> heartbeats[w]]

\* Mutation: the late result of an attempt is fenced by its number only.
HoldsLeaseByAttempt(t, w, attempt) ==
    /\ tasks[t].leased_to = w
    /\ tasks[t].attempts = attempt

\* The guard shared by every attempt-fenced append.
HoldsLease(t, w, attempt) ==
    /\ tasks[t].status = "Leased"
    /\ tasks[t].leased_to = w
    /\ tasks[t].attempts = attempt

-----------------------------------------------------------------------------
(* Transactions.                                                           *)

Init ==
    /\ tasks      = [t \in Tasks |-> AbsentTask]
    /\ latest_seq = [p \in Workers \X Tasks |-> 0]
    /\ heartbeats = [w \in Workers |-> 0]
    /\ receipts   = [t \in Tasks |-> NoReceipt]
    /\ alerts     = {}

\* enqueue; replay keeps the first entry of a key.
Enqueue(t) ==
    /\ tasks[t].status = "Absent"
    /\ tasks' = [tasks EXCEPT ![t] = EnqueuedTask]
    /\ UNCHANGED <<latest_seq, heartbeats, receipts, alerts>>

\* The eligibility checks of lease_task_if_enqueued_with_events: the task is
\* queued, the worker holds no lease in any run, the run has capacity.
CanLease(t, w) ==
    /\ tasks[t].status = "Enqueued"
    /\ Leases(w) = {}
    /\ Cardinality(ActiveOf(RunOf[t])) < MaxActive[RunOf[t]]

\* start_task_if_enqueued as the manager calls it: TaskLeased, the events
\* Leased, Starting, Artifact and Running, then a Heartbeat.
StartRecords == 6
StartTaskIfEnqueued(t, w, ts, k) ==
    /\ CanLease(t, w)
    /\ HasRoom(w, t, EventsIn(k, StartRecords))
    /\ tasks'      = [tasks EXCEPT ![t] = LeasedTask(@, w, ts)]
    /\ latest_seq' = Bump(w, t, EventsIn(k, StartRecords))
    /\ heartbeats' = IF k = StartRecords THEN Beat(w, ts) ELSE heartbeats
    /\ UNCHANGED <<receipts, alerts>>

\* append_event_if_leased: progress of one exact attempt.
AppendEventIfLeased(t, w, attempt) ==
    /\ HoldsLease(t, w, attempt)
    /\ HasRoom(w, t, 1)
    /\ latest_seq' = Bump(w, t, 1)
    /\ UNCHANGED <<tasks, heartbeats, receipts, alerts>>

\* append_event_if_lease_unchanged: the scheduler's Stale mark, fenced by the
\* whole version v it judged.
AppendEventIfLeaseUnchanged(t, w, v) ==
    /\ tasks[t].leased_to = w
    /\ tasks[t].status = "Leased"
    /\ Version(t, w) = v
    /\ HasRoom(w, t, 1)
    /\ latest_seq' = Bump(w, t, 1)
    /\ UNCHANGED <<tasks, heartbeats, receipts, alerts>>

\* append_terminal_event_if_lease_unchanged: the scheduler fails a stale
\* attempt whose retry budget is spent.  No receipt is written.
AppendFailedIfLeaseUnchanged(t, w, v) ==
    /\ tasks[t].leased_to = w
    /\ tasks[t].status = "Leased"
    /\ Version(t, w) = v
    /\ HasRoom(w, t, 1)
    /\ tasks'      = [tasks EXCEPT ![t] = TerminalTask(@, w, "Failed")]
    /\ latest_seq' = Bump(w, t, 1)
    /\ UNCHANGED <<heartbeats, receipts, alerts>>

\* Mutation: a failed verification leaves the process outcome in place.
FinalTaskUnverified(task, w, outcome, result) == TerminalTask(task, w, outcome)

\* The status record_task_outcome asks for: a rejected receipt turns any
\* other outcome into Failed, in the same record as the terminal event.
FinalTask(task, w, outcome, result) ==
    LET ended == TerminalTask(task, w, outcome)
    IN  IF result = "Rejected" THEN TerminalTask(ended, w, "Failed") ELSE ended

\* Mutation: replay does not advance the high-water mark for the terminal
\* event inside the finalization record.
FinalizeWithoutSeq(t, w, attempt, outcome, result) ==
    /\ HoldsLease(t, w, attempt)
    /\ HasRoom(w, t, 1)
    /\ tasks'      = [tasks EXCEPT ![t] = FinalTask(@, w, outcome, result)]
    /\ receipts'   = [receipts EXCEPT ![t] =
                        [attempt |-> attempt, terminal_seq |-> LatestSeq(w, t) + 1,
                         result |-> result]]
    /\ UNCHANGED <<latest_seq, heartbeats, alerts>>

\* finalize_task_attempt_if_leased: terminal event, final status and receipt
\* in one record.
FinalizeTaskAttempt(t, w, attempt, outcome, result) ==
    /\ HoldsLease(t, w, attempt)
    /\ HasRoom(w, t, 1)
    /\ tasks'      = [tasks EXCEPT ![t] = FinalTask(@, w, outcome, result)]
    /\ latest_seq' = Bump(w, t, 1)
    /\ receipts'   = [receipts EXCEPT ![t] =
                        [attempt |-> attempt, terminal_seq |-> LatestSeq(w, t) + 1,
                         result |-> result]]
    /\ UNCHANGED <<heartbeats, alerts>>

\* restart_task_if_unchanged_with_callback: TaskLeased, the events Restarted
\* and Running, a Heartbeat.
RestartRecords == 4

\* Mutation: no look at the other leases of the worker.
RestartIgnoringOtherLeases(t, w, v, ts, k) ==
    /\ tasks[t].leased_to = w
    /\ Version(t, w) = v
    /\ v.attempts < AttemptBound
    /\ HasRoom(w, t, EventsIn(k, RestartRecords))
    /\ tasks'      = [tasks EXCEPT ![t] = LeasedTask(@, w, ts)]
    /\ latest_seq' = Bump(w, t, EventsIn(k, RestartRecords))
    /\ heartbeats' = IF k = RestartRecords THEN Beat(w, ts) ELSE heartbeats
    /\ UNCHANGED <<receipts, alerts>>

\* Mutation: the restart takes any idle worker in place of the task's owner.
RestartElsewhere(t, w, v, ts, k) ==
    /\ tasks[t].leased_to # NoWorker
    /\ Version(t, w) = v
    /\ Leases(w) \subseteq {t}
    /\ v.attempts < AttemptBound
    /\ HasRoom(w, t, EventsIn(k, RestartRecords))
    /\ tasks'      = [tasks EXCEPT ![t] = LeasedTask(@, w, ts)]
    /\ latest_seq' = Bump(w, t, EventsIn(k, RestartRecords))
    /\ heartbeats' = IF k = RestartRecords THEN Beat(w, ts) ELSE heartbeats
    /\ UNCHANGED <<receipts, alerts>>

RestartTaskIfUnchanged(t, w, v, ts, k) ==
    /\ tasks[t].leased_to = w
    /\ Version(t, w) = v
    /\ Leases(w) \subseteq {t}
    /\ v.attempts < AttemptBound
    /\ HasRoom(w, t, EventsIn(k, RestartRecords))
    /\ tasks'      = [tasks EXCEPT ![t] = LeasedTask(@, w, ts)]
    /\ latest_seq' = Bump(w, t, EventsIn(k, RestartRecords))
    /\ heartbeats' = IF k = RestartRecords THEN Beat(w, ts) ELSE heartbeats
    /\ UNCHANGED <<receipts, alerts>>

\* cancel_task_if_active.  expected is the worker an operator named, or
\* NoWorker for a run-wide stop.  A leased task gets Interrupted and Cancelled
\* events, a queued one a single TaskCompletedOrFailed record.
CancelTaskIfActive(t, expected, k) ==
    LET owner == tasks[t].leased_to
    IN  /\ tasks[t].status \in {"Enqueued", "Leased"}
        /\ expected # NoWorker => /\ tasks[t].status = "Leased"
                                  /\ owner = expected
        /\ \/ /\ owner # NoWorker
              /\ HasRoom(owner, t, k)
              /\ latest_seq' = Bump(owner, t, k)
              /\ tasks' = IF k = 2
                            THEN [tasks EXCEPT ![t] = TerminalTask(@, owner, "Cancelled")]
                            ELSE tasks
           \/ /\ owner = NoWorker
              /\ k = 1
              /\ tasks' = [tasks EXCEPT ![t] = TerminalTask(@, NoWorker, "Cancelled")]
              /\ UNCHANGED latest_seq
        /\ UNCHANGED <<heartbeats, receipts, alerts>>

\* heartbeat: appended unconditionally.
Heartbeat(w, ts) ==
    /\ heartbeats' = Beat(w, ts)
    /\ UNCHANGED <<tasks, latest_seq, receipts, alerts>>

\* record_failed_attempt_alert_once: one AlertSent per attempt and channel;
\* replay turns it into an Escalated event that takes the next sequence.
RecordFailedAttemptAlertOnce(t, w, attempt, c) ==
    /\ tasks[t].status = "Failed"
    /\ tasks[t].leased_to = w
    /\ tasks[t].attempts = attempt
    /\ <<t, attempt, c>> \notin alerts
    /\ HasRoom(w, t, 1)
    /\ alerts'     = alerts \cup {<<t, attempt, c>>}
    /\ latest_seq' = Bump(w, t, 1)
    /\ UNCHANGED <<tasks, heartbeats, receipts>>

-----------------------------------------------------------------------------
(* Any client, at any time.                                                *)

Start == \E t \in Tasks, ts \in Times, k \in 1..StartRecords :
            \E w \in WorkersOf[RunOf[t]] : StartTaskIfEnqueued(t, w, ts, k)

Progress == \E t \in Tasks, w \in Workers :
            AppendEventIfLeased(t, w, tasks[t].attempts)

MarkStale == \E t \in Tasks, w \in Workers :
            AppendEventIfLeaseUnchanged(t, w, Version(t, w))

FailExhausted == \E t \in Tasks, w \in Workers :
            AppendFailedIfLeaseUnchanged(t, w, Version(t, w))

Finalize == \E t \in Tasks, w \in Workers, o \in TerminalStatus, r \in Results :
            FinalizeTaskAttempt(t, w, tasks[t].attempts, o, r)

Restart == \E t \in Tasks, w \in Workers, ts \in Times, k \in 1..RestartRecords :
            RestartTaskIfUnchanged(t, w, Version(t, w), ts, k)

Cancel == \E t \in Tasks, w \in Workers \cup {NoWorker}, k \in 1..2 :
            CancelTaskIfActive(t, w, k)

Alert == \E t \in Tasks, w \in Workers, c \in Channels :
            RecordFailedAttemptAlertOnce(t, w, tasks[t].attempts, c)

LedgerNext ==
    \/ \E t \in Tasks : Enqueue(t)
    \/ \E w \in Workers, ts \in Times : Heartbeat(w, ts)
    \/ Start \/ Progress \/ MarkStale \/ FailExhausted
    \/ Finalize \/ Restart \/ Cancel \/ Alert

LedgerSpec == Init /\ [][LedgerNext]_ledger

-----------------------------------------------------------------------------
(* Properties.                                                             *)

\* Every variable keeps its type.
TypeOK ==
    /\ tasks \in [Tasks -> TaskState]
    /\ latest_seq \in [Workers \X Tasks -> Nat]
    /\ heartbeats \in [Workers -> Nat]
    /\ receipts \in [Tasks -> Receipt]
    /\ alerts \subseteq Tasks \X Nat \X Channels

\* A logical worker never holds two live leases, of one run or of two, however
\* schedulers, operators' restarts and crashes interleave: the idle check of
\* the lease and the other-lease check of the restart together exclude it.
OneLeasePerWorker ==
    \A t1, t2 \in Tasks :
        /\ tasks[t1].status = "Leased"
        /\ tasks[t2].status = "Leased"
        /\ tasks[t1].leased_to = tasks[t2].leased_to
        => t1 = t2

\* A run never has more live leases than its capacity.  Only the lease checks
\* it: a restart revives a finished task without looking at the capacity, and
\* stays within it because it can only use a worker of the run that is idle.
RunCapacity ==
    \A r \in Runs : Cardinality(ActiveOf(r)) <= MaxActive[r]

\* A Completed task is explained by the accepted receipt of exactly the attempt
\* that completed: no crash publishes the status without the receipt and no
\* receipt of an earlier attempt stands in for it.
CompletedHasReceipt ==
    \A t \in Tasks : tasks[t].status = "Completed" =>
        /\ receipts[t].attempt = tasks[t].attempts
        /\ receipts[t].result = "Accepted"

\* A receipt never runs ahead of the ledger: its attempt was leased and its
\* terminal event is within the event sequence of the worker that owns the task.
ReceiptWithinHistory ==
    \A t \in Tasks : receipts[t].attempt > 0 =>
        /\ receipts[t].attempt <= tasks[t].attempts
        /\ tasks[t].leased_to # NoWorker
        /\ receipts[t].terminal_seq <= LatestSeq(tasks[t].leased_to, t)

\* Events of a task belong to the one worker it is leased to, so the sequence
\* of that worker is a version of the task: a restart never moves a task to
\* another worker and nothing is appended before the first lease.
EventsBelongToOwner ==
    \A t \in Tasks, w \in Workers :
        LatestSeq(w, t) > 0 => tasks[t].leased_to = w

\* An alert is never contradicted by its attempt: the attempt it names was
\* leased, and stays Failed until a restart opens the next one.
AlertedAttemptFailed ==
    \A a \in alerts :
        \/ a[2] < tasks[a[1]].attempts
        \/ a[2] = tasks[a[1]].attempts /\ tasks[a[1]].status = "Failed"

\* A finished task is left only by a restart that opens the next attempt;
\* no late completion, cancellation, failure or stream event rewrites it.
FinishedOnlyRestarts ==
    [][\A t \in Tasks :
         /\ tasks[t].status \in TerminalStatus
         /\ tasks'[t] # tasks[t]
         => /\ tasks'[t].status = "Leased"
            /\ tasks'[t].attempts = tasks[t].attempts + 1
            /\ tasks'[t].leased_to = tasks[t].leased_to]_ledger

\* Each change of a task's status moves its owner sequence forward, and the
\* sequence never moves back: two different lifecycle states of a task never
\* share an idempotency key.
LifecycleAdvances ==
    [][\A t \in Tasks :
         /\ tasks'[t].lifecycle_seq >= tasks[t].lifecycle_seq
         /\ tasks'[t].status # tasks[t].status
              => tasks'[t].lifecycle_seq > tasks[t].lifecycle_seq]_ledger
=============================================================================
