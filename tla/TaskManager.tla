----------------------------- MODULE TaskManager -----------------------------
(***************************************************************************)
(* The background task manager: its queue, its workers, and the files that *)
(* outlive the process.                                                    *)
(*                                                                         *)
(* Every operation runs under the state mutex and writes its files before  *)
(* it releases it, so `lock' holds the operation under way and what it has *)
(* still to write; between two writes the process may die, and a write may *)
(* fail.  A record is its status: prompt, timeline, tool calls, artifacts  *)
(* and verdicts ride along with it and nothing here reads them.  A write   *)
(* that would not change its file is left out.                             *)
(***************************************************************************)
EXTENDS Queues, Naturals, Sequences, FiniteSets

CONSTANTS
    Tasks,         \* task ids
    Workers,       \* tasks spawned by start_with_executor
    NoTask, NoWorker,
    CrashBound,    \* bound of the model: deaths of the process
    FaultBound     \* bound of the model: failed writes

ASSUME TaskManagerAssumption ==
    /\ IsFiniteSet(Tasks)
    /\ NoTask \notin Tasks
    /\ NoWorker \notin Workers
    /\ CrashBound \in Nat
    /\ FaultBound \in Nat

VARIABLES
    up,           \* a process runs the manager
    tasks,        \* ManagerState.tasks: the status of each
    queue,        \* ManagerState.queue
    token,        \* ManagerState.running_cancel: "none", "live", "cancelled"
    permit,       \* the stored permit of Notify
    worker,       \* [Workers -> [pc, task]]
    notifying,    \* adds that left the mutex and have not called notify_one
    lock,         \* the operation that holds the state mutex
    diskQueue,    \* queue.json
    diskTask,     \* tasks/<id>.json
    staged,       \* tasks/.<id>.json.pending
    started,      \* history: executions begun of each task
    unsaved,      \* history: executions begun while the record said Queued
    accepted,     \* history: add_task answered Ok
    canceled,     \* history: cancel_task answered Forced
    requested,    \* history: cancel_task answered Requested
    crashes, faults

memory  == <<tasks, queue, token, permit, worker, notifying>>
disk    == <<diskQueue, diskTask, staged>>
history == <<started, unsaved, accepted, canceled, requested>>
vars    == <<up, memory, lock, disk, history, crashes, faults>>

Outcome == {"Completed", "Failed", "Canceled"}
Status  == {"Absent", "Queued", "Running"} \cup Outcome

-----------------------------------------------------------------------------
(* The state mutex and the writes under it.                                *)

\* op is the operation, queue whether queue.json has still to be written and
\* todo the records that have.
Lock(op, t, w, save) ==
    [op |-> op, task |-> t, worker |-> w, queue |-> op # "free", todo |-> save]

Free == Lock("free", NoTask, NoWorker, {})

\* The records persist_all_locked brings up to date.
Stale(new) == {t \in Tasks : new[t] # "Absent" /\ diskTask[t] # new[t]}

Idle == [pc |-> "off", task |-> NoTask]

Acquire == up /\ lock = Free

\* persist_queue_locked
SaveQueue ==
    /\ lock.queue
    /\ lock.op # "add"
    /\ diskQueue' = queue
    /\ lock' = [lock EXCEPT !.queue = FALSE]
    /\ UNCHANGED <<up, memory, diskTask, staged, history, crashes, faults>>

\* persist_task_locked, in the order of a hash map.
SaveTask(t) ==
    /\ ~lock.queue
    /\ t \in lock.todo
    /\ diskTask' = [diskTask EXCEPT ![t] = tasks[t]]
    /\ lock' = [lock EXCEPT !.todo = @ \ {t}]
    /\ UNCHANGED <<up, memory, diskQueue, staged, history, crashes, faults>>

Fault == faults < FaultBound /\ faults' = faults + 1

\* The result of persist_all_locked: every write done, or one failed and the
\* rest were not tried.
Persisted(ok) ==
    \/ ok /\ ~lock.queue /\ lock.todo = {} /\ UNCHANGED faults
    \/ ~ok /\ (lock.queue \/ lock.todo # {}) /\ Fault

-----------------------------------------------------------------------------
(* add_task.                                                               *)

\* The record is staged under a name that replay ignores.
AddTask(t) ==
    /\ Acquire
    /\ tasks[t] = "Absent" /\ diskTask[t] = "Absent" /\ t \notin staged
    /\ staged' = staged \cup {t}
    /\ lock' = Lock("add", t, NoWorker, {})
    /\ UNCHANGED <<up, memory, diskQueue, diskTask, history, crashes, faults>>

QueueAdd ==
    /\ lock.op = "add" /\ lock.queue
    /\ diskQueue' = Append(queue, lock.task)
    /\ lock' = [lock EXCEPT !.queue = FALSE]
    /\ UNCHANGED <<up, memory, diskTask, staged, history, crashes, faults>>

\* The queue write failed; the staged file goes unless that fails too.
QueueAddFails ==
    /\ lock.op = "add" /\ lock.queue
    /\ Fault
    /\ staged' \in {staged, staged \ {lock.task}}
    /\ lock' = Free
    /\ UNCHANGED <<up, memory, diskQueue, diskTask, history, crashes>>

\* Mutation: the record is published in memory and not promoted.
PromoteInMemory ==
    /\ lock.op = "add" /\ ~lock.queue
    /\ staged' = staged \ {lock.task}
    /\ tasks' = [tasks EXCEPT ![lock.task] = "Queued"]
    /\ queue' = Append(queue, lock.task)
    /\ notifying' = notifying \cup {lock.task}
    /\ lock' = Free
    /\ UNCHANGED <<up, token, permit, worker, diskQueue, diskTask, history, crashes, faults>>

\* The rename, then the publication in memory.
Promote ==
    /\ lock.op = "add" /\ ~lock.queue
    /\ staged' = staged \ {lock.task}
    /\ diskTask' = [diskTask EXCEPT ![lock.task] = "Queued"]
    /\ tasks' = [tasks EXCEPT ![lock.task] = "Queued"]
    /\ queue' = Append(queue, lock.task)
    /\ notifying' = notifying \cup {lock.task}
    /\ lock' = Free
    /\ UNCHANGED <<up, token, permit, worker, diskQueue, history, crashes, faults>>

\* The rename failed: the queue write is rolled back and the staged file
\* removed, and either may fail.
PromoteFails ==
    /\ lock.op = "add" /\ ~lock.queue
    /\ Fault
    /\ diskQueue' \in {diskQueue, queue}
    /\ staged' \in {staged, staged \ {lock.task}}
    /\ lock' = Free
    /\ UNCHANGED <<up, memory, diskTask, history, crashes>>

\* Mutation: notify_waiters, which leaves no permit when no worker is parked.
NotifyWaiters(t) ==
    /\ t \in notifying
    /\ notifying' = notifying \ {t}
    /\ accepted' = accepted \cup {t}
    /\ worker' = [w \in Workers |-> IF worker[w].pc = "parked"
                                      THEN [worker[w] EXCEPT !.pc = "loop"] ELSE worker[w]]
    /\ UNCHANGED <<up, tasks, queue, token, permit, lock, disk,
                   started, unsaved, canceled, requested, crashes, faults>>

\* notify_one wakes a parked worker, or leaves one permit.
NotifyOne(t) ==
    /\ t \in notifying
    /\ notifying' = notifying \ {t}
    /\ accepted' = accepted \cup {t}
    /\ \/ /\ \E w \in Workers :
               /\ worker[w].pc = "parked"
               /\ worker' = [worker EXCEPT ![w].pc = "loop"]
          /\ UNCHANGED permit
       \/ /\ \A w \in Workers : worker[w].pc # "parked"
          /\ permit' = TRUE
          /\ UNCHANGED worker
    /\ UNCHANGED <<up, tasks, queue, token, lock, disk,
                   started, unsaved, canceled, requested, crashes, faults>>

-----------------------------------------------------------------------------
(* worker_loop.                                                            *)

Goto(w, pc) == worker' = [worker EXCEPT ![w].pc = pc]

\* Nothing to run, or an entry that is not Queued, which is dropped.
PopNone(w) ==
    /\ Acquire /\ worker[w].pc = "loop"
    /\ queue # <<>> => tasks[Head(queue)] # "Queued"
    /\ queue' = IF queue = <<>> THEN queue ELSE Tail(queue)
    /\ diskQueue' = IF queue = <<>> THEN diskQueue ELSE queue'
    /\ Goto(w, "wait")
    /\ UNCHANGED <<up, tasks, token, permit, notifying, lock, diskTask, staged,
                   history, crashes, faults>>

\* The head of the queue starts.
Pop(w) ==
    /\ Acquire /\ worker[w].pc = "loop"
    /\ queue # <<>>
    /\ LET t   == Head(queue)
           new == [tasks EXCEPT ![t] = "Running"]
       IN  /\ tasks[t] = "Queued"
           /\ tasks' = new
           /\ queue' = Tail(queue)
           /\ token' = [token EXCEPT ![t] = "live"]
           /\ worker' = [worker EXCEPT ![w] = [pc |-> "starting", task |-> t]]
           /\ lock' = Lock("start", t, w, Stale(new))
    /\ UNCHANGED <<up, permit, notifying, disk, history, crashes, faults>>

\* The start is executed whether or not it was written.
RunTask ==
    /\ lock.op = "start"
    /\ \E ok \in BOOLEAN : Persisted(ok)
    /\ Goto(lock.worker, "exec")
    /\ started' = [started EXCEPT ![lock.task] = @ + 1]
    /\ unsaved' = IF diskTask[lock.task] = "Running" THEN unsaved ELSE unsaved \cup {lock.task}
    /\ lock' = Free
    /\ UNCHANGED <<up, tasks, queue, token, permit, notifying, disk,
                   accepted, canceled, requested, crashes>>

\* The first poll of notified(): it takes the permit or parks the worker.
Poll(w) ==
    /\ worker[w].pc = "wait"
    /\ Goto(w, IF permit THEN "loop" ELSE "parked")
    /\ permit' = FALSE
    /\ UNCHANGED <<up, tasks, queue, token, notifying, lock, disk, history, crashes, faults>>

\* apply_execution_event and record_tool_metadata: the record is written as it
\* stands in memory.
Update(t) ==
    /\ Acquire
    /\ t \in Stale(tasks)
    /\ diskTask' = [diskTask EXCEPT ![t] = tasks[t]]
    /\ UNCHANGED <<up, memory, lock, diskQueue, staged, history, crashes, faults>>

\* Mutation: the outcome of the execution is taken as it is.
FinalOutcomeAsReported(t, o) == o

\* finish_task: what the executor reports, unless the token was cancelled.
FinalOutcome(t, o) ==
    IF token[t] = "cancelled" /\ o = "Completed" THEN "Canceled" ELSE o

Finish(w, o) ==
    /\ Acquire /\ worker[w].pc = "exec"
    /\ LET t   == worker[w].task
           new == [tasks EXCEPT ![t] = FinalOutcome(t, o)]
       IN  /\ tasks' = new
           /\ token' = [token EXCEPT ![t] = "none"]
           /\ lock' = Lock("finish", t, w, Stale(new))
    /\ UNCHANGED <<up, queue, permit, worker, notifying, disk, history, crashes, faults>>

\* The worker goes round again whether or not the outcome was written.
Finished ==
    /\ lock.op = "finish"
    /\ \E ok \in BOOLEAN : Persisted(ok)
    /\ worker' = [worker EXCEPT ![lock.worker] = [pc |-> "loop", task |-> NoTask]]
    /\ lock' = Free
    /\ UNCHANGED <<up, tasks, queue, token, permit, notifying, disk, history, crashes>>

-----------------------------------------------------------------------------
(* cancel_task.                                                            *)

\* Mutation: the queue keeps a task canceled before it ran.
CancelQueuedInPlace(t) ==
    /\ Acquire
    /\ tasks[t] = "Queued"
    /\ LET new == [tasks EXCEPT ![t] = "Canceled"]
       IN  tasks' = new /\ lock' = Lock("forced", t, NoWorker, Stale(new))
    /\ UNCHANGED <<up, queue, token, permit, worker, notifying, disk, history,
                   crashes, faults>>

CancelQueued(t) ==
    /\ Acquire
    /\ tasks[t] = "Queued"
    /\ LET new == [tasks EXCEPT ![t] = "Canceled"]
       IN  tasks' = new /\ lock' = Lock("forced", t, NoWorker, Stale(new))
    /\ queue' = Retain(queue, Tasks \ {t})
    /\ UNCHANGED <<up, token, permit, worker, notifying, disk, history, crashes, faults>>

CancelRunning(t) ==
    /\ Acquire
    /\ tasks[t] = "Running"
    /\ token' = [token EXCEPT ![t] = IF @ = "none" THEN @ ELSE "cancelled"]
    /\ lock' = Lock("requested", t, NoWorker, Stale(tasks))
    /\ UNCHANGED <<up, tasks, queue, permit, worker, notifying, disk, history,
                   crashes, faults>>

\* AlreadyFinished: nothing changes, and every record is persisted again.
CancelFinished(t) ==
    /\ Acquire
    /\ tasks[t] \in Outcome
    /\ lock' = Lock("finished", t, NoWorker, Stale(tasks))
    /\ UNCHANGED <<up, memory, disk, history, crashes, faults>>

\* Mutation: a cancellation whose write failed is answered Ok.
CancelAnsweredEarly ==
    /\ lock.op \in {"forced", "requested", "finished"}
    /\ \E ok \in BOOLEAN : Persisted(ok)
    /\ canceled'  = IF lock.op = "forced" THEN canceled \cup {lock.task} ELSE canceled
    /\ requested' = IF lock.op = "requested" THEN requested \cup {lock.task} ELSE requested
    /\ lock' = Free
    /\ UNCHANGED <<up, memory, disk, started, unsaved, accepted, crashes>>

\* The disposition is answered only when everything was written.
CancelAnswered ==
    /\ lock.op \in {"forced", "requested", "finished"}
    /\ \E ok \in BOOLEAN :
         /\ Persisted(ok)
         /\ canceled'  = IF ok /\ lock.op = "forced" THEN canceled \cup {lock.task} ELSE canceled
         /\ requested' = IF ok /\ lock.op = "requested" THEN requested \cup {lock.task}
                                                       ELSE requested
    /\ lock' = Free
    /\ UNCHANGED <<up, memory, disk, started, unsaved, accepted, crashes>>

-----------------------------------------------------------------------------
(* The life of the process.                                                *)

\* Mutation: running tasks are put back in the queue.
RequeuedAtBoot(record) ==
    [t \in Tasks |-> IF record[t] = "Running" THEN "Queued" ELSE record[t]]

Recovered(record) ==
    [t \in Tasks |-> IF record[t] = "Running" THEN "Failed" ELSE record[t]]

\* The orders a set of ids can be sorted in: ids are random.
Orders(S) ==
    {s \in [1..Cardinality(S) -> S] : \A i, j \in 1..Cardinality(S) : s[i] = s[j] => i = j}

\* load_state: running records fail, the queue keeps the queued tasks and gets
\* the queued tasks it misses.
Boot ==
    /\ ~up /\ up' = TRUE
    /\ LET loaded == Recovered(diskTask)
           queued == {t \in Tasks : loaded[t] = "Queued"}
           known  == {diskQueue[i] : i \in 1..Len(diskQueue)}
       IN  /\ tasks' = loaded
           /\ \E missing \in Orders(queued \ known) :
                queue' = Retain(diskQueue, queued) \o missing
           /\ lock' = Lock("boot", NoTask, NoWorker, Stale(loaded))
    /\ UNCHANGED <<token, permit, worker, notifying, disk, history, crashes, faults>>

\* start_with_executor: the workers are spawned after everything was written.
Booted ==
    /\ lock.op = "boot"
    /\ Persisted(TRUE)
    /\ worker' = [w \in Workers |-> [pc |-> "loop", task |-> NoTask]]
    /\ lock' = Free
    /\ UNCHANGED <<up, tasks, queue, token, permit, notifying, disk, history, crashes>>

Down ==
    /\ up /\ up' = FALSE
    /\ tasks' = [t \in Tasks |-> "Absent"]
    /\ queue' = <<>>
    /\ token' = [t \in Tasks |-> "none"]
    /\ permit' = FALSE
    /\ worker' = [w \in Workers |-> Idle]
    /\ notifying' = {}
    /\ lock' = Free
    /\ UNCHANGED <<disk, history>>

\* A write at startup failed: there is no manager.
BootFails ==
    /\ lock.op = "boot"
    /\ Persisted(FALSE)
    /\ Down
    /\ UNCHANGED crashes

Crash ==
    /\ crashes < CrashBound
    /\ crashes' = crashes + 1
    /\ Down
    /\ UNCHANGED faults

Init ==
    /\ up = FALSE
    /\ tasks = [t \in Tasks |-> "Absent"]
    /\ queue = <<>>
    /\ token = [t \in Tasks |-> "none"]
    /\ permit = FALSE
    /\ worker = [w \in Workers |-> Idle]
    /\ notifying = {}
    /\ lock = Free
    /\ diskQueue = <<>>
    /\ diskTask = [t \in Tasks |-> "Absent"]
    /\ staged = {}
    /\ started = [t \in Tasks |-> 0]
    /\ unsaved = {} /\ accepted = {} /\ canceled = {} /\ requested = {}
    /\ crashes = 0 /\ faults = 0

TaskStep(t) ==
    \/ AddTask(t) \/ NotifyOne(t) \/ Update(t)
    \/ CancelQueued(t) \/ CancelRunning(t) \/ CancelFinished(t)

WorkerStep(w) ==
    \/ PopNone(w) \/ Pop(w) \/ Poll(w)
    \/ \E o \in Outcome : Finish(w, o)

LockStep ==
    \/ SaveQueue \/ (\E t \in Tasks : SaveTask(t))
    \/ QueueAdd \/ QueueAddFails \/ Promote \/ PromoteFails
    \/ RunTask \/ Finished \/ CancelAnswered \/ Booted \/ BootFails

Next ==
    \/ \E t \in Tasks : TaskStep(t)
    \/ \E w \in Workers : WorkerStep(w)
    \/ LockStep
    \/ Boot \/ Crash

Spec == Init /\ [][Next]_vars

\* The holder of the mutex never awaits, and the mutex is handed over in the
\* order of arrival, so no worker is passed over for ever.  That an execution
\* ends is assumed of the turn it runs.
FairSpec ==
    /\ Spec
    /\ WF_vars(LockStep) /\ WF_vars(Boot)
    /\ WF_vars(\E t \in Tasks : NotifyOne(t))
    /\ \A w \in Workers : SF_vars(WorkerStep(w))

-----------------------------------------------------------------------------
(* Properties.                                                             *)

WorkerState ==
    [pc : {"off", "loop", "wait", "parked", "starting", "exec"}, task : Tasks \cup {NoTask}]

LockState ==
    [op : {"free", "add", "start", "finish", "forced", "requested", "finished", "boot"},
     task : Tasks \cup {NoTask}, worker : Workers \cup {NoWorker},
     queue : BOOLEAN, todo : SUBSET Tasks]

\* Every variable has its type; in particular what finish_task records is a
\* status of TaskStatus, whatever the executor reported.
TypeOK ==
    /\ up \in BOOLEAN /\ permit \in BOOLEAN
    /\ tasks \in [Tasks -> Status]
    /\ queue \in Seq(Tasks)
    /\ token \in [Tasks -> {"none", "live", "cancelled"}]
    /\ worker \in [Workers -> WorkerState]
    /\ lock \in LockState
    /\ diskQueue \in Seq(Tasks)
    /\ diskTask \in [Tasks -> Status]
    /\ notifying \subseteq Tasks /\ staged \subseteq Tasks
    /\ started \in [Tasks -> Nat]
    /\ unsaved \subseteq Tasks /\ accepted \subseteq Tasks
    /\ canceled \subseteq Tasks /\ requested \subseteq Tasks
    /\ crashes \in Nat /\ faults \in Nat

\* The queue of a running manager holds each task whose status is Queued, once,
\* and no other: no queued task is stranded, and no worker meets an entry that
\* it drops before it waits (worker_loop).
QueueIsQueued ==
    up => /\ \A i, j \in 1..Len(queue) : queue[i] = queue[j] => i = j
          /\ {queue[i] : i \in 1..Len(queue)} = {t \in Tasks : tasks[t] = "Queued"}

\* A task is executed again only when the write of its first start failed:
\* a restart never requeues work that had begun (load_state).
ExecutedOnce == \A t \in Tasks : started[t] > 1 => t \in unsaved

\* A task whose add_task was answered survives every crash: it has its record,
\* and a running manager knows it.
AcceptedKept ==
    \A t \in accepted : diskTask[t] # "Absent" /\ (up => tasks[t] # "Absent")

\* A cancellation answered Forced is never undone: the task does not execute
\* afterwards, not after a restart either.
CanceledStays ==
    \A t \in canceled :
       /\ diskTask[t] = "Canceled"
       /\ \A w \in Workers : worker[w].task # t

\* A cancellation answered Requested never ends in Completed, on disk or in
\* memory, even when the execution completes at the same moment (finish_task).
RequestedNeverCompletes ==
    \A t \in requested : tasks[t] # "Completed" /\ diskTask[t] # "Completed"

\* The durable records are the abstract board; a process that is not up, or
\* still boots, has already lost the running tasks.
Durable == IF up /\ lock.op # "boot" THEN diskTask ELSE Recovered(diskTask)

Board == INSTANCE TaskBoard WITH status <- Durable

\* The manager implements TaskBoard: whatever is written in whatever order, a
\* record moves only forward and an outcome is final.
RecordsMoveForward == Board!BoardSpec

\* An accepted task reaches an outcome: no wake-up is lost between a worker that
\* found the queue empty and notify_one.
AcceptedEnds ==
    \A t \in Tasks : t \in accepted ~> tasks[t] \in Outcome
=============================================================================
