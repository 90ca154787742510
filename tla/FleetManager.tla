---------------------------- MODULE FleetManager ----------------------------
(***************************************************************************)
(* The manager loop: FleetManager.run_to_completion with its executor.     *)
(*                                                                         *)
(* A manager is one process.  `fleet run` creates a run, leases its first  *)
(* tasks and enters the loop; `fleet restart` re-leases one task and       *)
(* enters the same loop.  One manager owns a run at a time (an advisory    *)
(* lock on a file, released when the process ends); the others stand by.   *)
(* Each round of the loop leases queued tasks to idle workers, launches a  *)
(* host process for every lease the executor does not track, and walks the *)
(* tracked processes: it stops those whose attempt is no longer leased,    *)
(* records output, and publishes the outcome of those that ended.  Every   *)
(* read of the ledger and every append is a step of its own, so operator   *)
(* commands, other managers and the death of a manager fall in between.    *)
(*                                                                         *)
(* A host process runs in a session of its own and outlives its manager.   *)
(*                                                                         *)
(* All stamps of this module are the same second: a lease always carries a *)
(* heartbeat, later heartbeats change nothing and are left out.  Recovery  *)
(* of stale leases is the subject of FleetScheduler.                       *)
(***************************************************************************)
EXTENDS FleetLedger, Sequences

CONSTANTS
    Managers,
    NoManager,
    Creator,       \* the manager of `fleet run`, for every run
    WorkerSeq,     \* worker_ids_for_run, in the order of the worker specs
    Priority,      \* the (priority, enqueued_at, task_id) order of the tasks
    LineBound,     \* bound of the model: output lines of a host process
    CrashBound     \* bound of the model: deaths of managers

ASSUME ManagerAssumption ==
    /\ NoManager \notin Managers
    /\ 1 \in Times
    /\ Creator \in [Runs -> Managers]
    /\ WorkerSeq \in [Runs -> Seq(Workers)]
    /\ \A r \in Runs : WorkersOf[r] = {WorkerSeq[r][i] : i \in DOMAIN WorkerSeq[r]}
    /\ Priority \in [Tasks -> Nat]
    /\ \A t, u \in Tasks : Priority[t] = Priority[u] => t = u
    /\ LineBound \in Nat
    /\ CrashBound \in Nat

VARIABLES
    lock,      \* [Runs -> the manager that holds the run, or NoManager]
    mgr,       \* [Managers -> control state of the process]
    tracked,   \* [Managers -> executor.streams: worker -> leased attempt]
    procs,     \* host processes that have not been stopped or forgotten
    crashes

manager == <<lock, mgr, tracked, procs, crashes>>
mvars   == <<ledger, manager>>

Now == 1

\* A FleetExecutorAttempt with its worker.
Attempt(t) == [task |-> t, worker |-> tasks[t].leased_to, attempt |-> tasks[t].attempts]
Off == [pc |-> "off", run |-> NoManager, observed |-> FALSE, todo |-> {}, cur |-> NoManager]

Held(a)       == HoldsLease(a.task, a.worker, a.attempt)
OpenWork(r)   == \E t \in Tasks : RunOf[t] = r /\ tasks[t].status \in {"Enqueued", "Leased"}

\* Mutation: a process whose attempt ended in the ledger does not count.
TracksHeld(m) == {a.worker : a \in {b \in tracked[m] : Held(b)}}

\* The workers that have a process of this executor.
Tracks(m)     == {a.worker : a \in tracked[m]}
ProcOf(m, a)  == CHOOSE p \in procs : p.owner = m /\ p.of = a
Goto(m, new)  == mgr' = [mgr EXCEPT ![m] = new]
At(m, pc)     == mgr[m].pc = pc

-----------------------------------------------------------------------------
(* Ownership of the run.                                                   *)

\* Mutation: the loop is entered whoever owns the run.
TryLockShared(m) ==
    /\ At(m, "lock")
    /\ lock' = [lock EXCEPT ![mgr[m].run] = m]
    /\ Goto(m, [mgr[m] EXCEPT !.pc = "lease"])
    /\ UNCHANGED <<ledger, tracked, procs, crashes>>

\* run_to_completion up to its loop: a process that ever saw another owner
\* never becomes the owner.
TryLock(m) ==
    LET r == mgr[m].run
    IN  /\ At(m, "lock")
        /\ UNCHANGED <<ledger, tracked, procs, crashes>>
        /\ \/ /\ lock[r] = NoManager
              /\ ~mgr[m].observed
              /\ lock' = [lock EXCEPT ![r] = m]
              /\ Goto(m, [mgr[m] EXCEPT !.pc = "lease"])
           \/ /\ lock[r] = NoManager
              /\ mgr[m].observed          \* returns, or bails on open work
              /\ Goto(m, Off)
              /\ UNCHANGED lock
           \/ /\ lock[r] # NoManager
              /\ Goto(m, IF OpenWork(r) THEN [mgr[m] EXCEPT !.observed = TRUE] ELSE Off)
              /\ UNCHANGED lock

-----------------------------------------------------------------------------
(* schedule_run_excluding.                                                 *)

Queued(r) == {t \in Tasks : RunOf[t] = r /\ tasks[t].status = "Enqueued"}
NextEnqueued(r) == CHOOSE t \in Queued(r) : \A u \in Queued(r) : Priority[t] <= Priority[u]

ActiveWorkers(r) == {tasks[t].leased_to : t \in ActiveOf(r)}
Candidates(m, r) ==
    {i \in DOMAIN WorkerSeq[r] : WorkerSeq[r][i] \notin ActiveWorkers(r) \cup Tracks(m)}
FirstCandidate(m, r) ==
    WorkerSeq[r][CHOOSE i \in Candidates(m, r) : \A j \in Candidates(m, r) : i <= j]

CanSchedule(m, r) ==
    /\ Cardinality(ActiveWorkers(r)) < MaxActive[r]
    /\ Candidates(m, r) # {}
    /\ Queued(r) # {}

\* One turn of the leasing loop chooses the first worker that is idle in this
\* run and the first queued task.
PickLease(m) ==
    LET r == mgr[m].run
    IN  /\ mgr[m].pc \in {"create", "lease"}
        /\ mgr[m].cur = NoManager
        /\ CanSchedule(m, r)
        /\ Goto(m, [mgr[m] EXCEPT !.cur = [task |-> NextEnqueued(r),
                                           worker |-> FirstCandidate(m, r)]])
        /\ UNCHANGED <<ledger, lock, tracked, procs, crashes>>

\* start_worker_task.  When the ledger refuses, because the worker is leased
\* by another run or the task is gone, the loop turns again.
StartWorkerTask(m) ==
    LET c == mgr[m].cur
    IN  /\ mgr[m].pc \in {"create", "lease"}
        /\ c # NoManager
        /\ IF CanLease(c.task, c.worker)
             THEN StartTaskIfEnqueued(c.task, c.worker, Now, StartRecords)
             ELSE UNCHANGED ledger
        /\ Goto(m, [mgr[m] EXCEPT !.cur = NoManager])
        /\ UNCHANGED <<lock, tracked, procs, crashes>>

LeaseDone(m) ==
    /\ mgr[m].pc \in {"create", "lease"}
    /\ mgr[m].cur = NoManager
    /\ ~CanSchedule(m, mgr[m].run)
    /\ Goto(m, [mgr[m] EXCEPT !.pc = IF At(m, "create") THEN "lock" ELSE "snapshot"])
    /\ UNCHANGED <<ledger, lock, tracked, procs, crashes>>

-----------------------------------------------------------------------------
(* drive_executor_tick: start_leased_workers.                              *)

Snapshot(m) ==
    /\ At(m, "snapshot")
    /\ Goto(m, [mgr[m] EXCEPT !.pc = "launch",
                              !.todo = {Attempt(t) : t \in ActiveOf(mgr[m].run)}])
    /\ UNCHANGED <<ledger, lock, tracked, procs, crashes>>

NewProcess(m, a) ==
    [owner |-> m, of |-> a, state |-> "running", lines |-> 0, quota |-> LineBound]

Launch(m) ==
    /\ At(m, "launch")
    /\ \E a \in mgr[m].todo :
        /\ a.worker \notin Tracks(m)
        /\ tracked' = [tracked EXCEPT ![m] = @ \cup {a}]
        /\ procs' = procs \cup {NewProcess(m, a)}
        /\ Goto(m, [mgr[m] EXCEPT !.pc = "artifact", !.todo = @ \ {a}, !.cur = a])
    /\ UNCHANGED <<ledger, lock, crashes>>

\* Preparation or spawn fails: record_task_outcome with a Failed event.  A
\* scorer may still accept what is in the workspace.
LaunchFails(m) ==
    /\ At(m, "launch")
    /\ \E a \in mgr[m].todo :
        /\ a.worker \notin Tracks(m)
        /\ IF Held(a)
             THEN \E result \in Results :
                    FinalizeTaskAttempt(a.task, a.worker, a.attempt, "Failed", result)
             ELSE UNCHANGED ledger
        /\ Goto(m, [mgr[m] EXCEPT !.todo = @ \ {a}])
    /\ UNCHANGED <<lock, tracked, procs, crashes>>

LaunchDone(m) ==
    /\ At(m, "launch")
    /\ \A a \in mgr[m].todo : a.worker \in Tracks(m)
    /\ Goto(m, [mgr[m] EXCEPT !.pc = "drive", !.todo = tracked[m]])
    /\ UNCHANGED <<ledger, lock, tracked, procs, crashes>>

\* executor.stop_worker, then forget_worker.
StopAndForget(m, a) ==
    /\ tracked' = [tracked EXCEPT ![m] = @ \ {a}]
    /\ procs' = {p \in procs : ~(p.owner = m /\ p.of = a)}

\* The host log is published if the attempt is still leased; otherwise the
\* new process is stopped.
PublishArtifact(m) ==
    LET a == mgr[m].cur
    IN  /\ At(m, "artifact")
        /\ Goto(m, [mgr[m] EXCEPT !.pc = "launch", !.cur = NoManager])
        /\ IF Held(a)
             THEN /\ AppendEventIfLeased(a.task, a.worker, a.attempt)
                  /\ UNCHANGED <<tracked, procs>>
             ELSE StopAndForget(m, a) /\ UNCHANGED ledger
        /\ UNCHANGED <<lock, crashes>>

-----------------------------------------------------------------------------
(* drive_executor_tick: the tracked processes.                             *)

\* Mutation: a process that is alive is never compared with the ledger.
FenceExited(m) ==
    /\ At(m, "drive")
    /\ \E a \in mgr[m].todo :
        /\ ~Held(a)
        /\ IF ProcOf(m, a).state = "running" THEN UNCHANGED <<tracked, procs>>
                                              ELSE StopAndForget(m, a)
        /\ Goto(m, [mgr[m] EXCEPT !.todo = @ \ {a}])
    /\ UNCHANGED <<ledger, lock, crashes>>

\* The attempt ended or was replaced in the ledger: stop its process.
Fence(m) ==
    /\ At(m, "drive")
    /\ \E a \in mgr[m].todo :
        /\ ~Held(a)
        /\ StopAndForget(m, a)
        /\ Goto(m, [mgr[m] EXCEPT !.todo = @ \ {a}])
    /\ UNCHANGED <<ledger, lock, crashes>>

\* Otherwise its output and its exit are looked at.
Visit(m) ==
    /\ At(m, "drive")
    /\ \E a \in mgr[m].todo :
        /\ Held(a)
        /\ Goto(m, [mgr[m] EXCEPT !.pc = "drain", !.todo = @ \ {a}, !.cur = a])
    /\ UNCHANGED <<ledger, lock, tracked, procs, crashes>>

\* drain_events, and the tail drained by poll_terminal_with_status: one line
\* becomes one event if the attempt is still leased.
Drain(m) ==
    LET a == mgr[m].cur
        p == ProcOf(m, a)
    IN  /\ At(m, "drain")
        /\ p.lines > 0
        /\ procs' = (procs \ {p}) \cup {[p EXCEPT !.lines = @ - 1]}
        /\ IF Held(a) THEN AppendEventIfLeased(a.task, a.worker, a.attempt)
                      ELSE UNCHANGED ledger
        /\ UNCHANGED <<lock, mgr, tracked, crashes>>

PollRunning(m) ==
    /\ At(m, "drain")
    /\ ProcOf(m, mgr[m].cur).state = "running"
    /\ Goto(m, [mgr[m] EXCEPT !.pc = "drive", !.cur = NoManager])
    /\ UNCHANGED <<ledger, lock, tracked, procs, crashes>>

\* record_task_outcome and forget_worker.  Verification accepts or rejects
\* the result; a rejected one is Failed however the process ended.
PollExited(m) ==
    LET a == mgr[m].cur
        p == ProcOf(m, a)
    IN  /\ At(m, "drain")
        /\ p.state # "running"
        /\ p.lines = 0
        /\ StopAndForget(m, a)
        /\ Goto(m, [mgr[m] EXCEPT !.pc = "drive", !.cur = NoManager])
        /\ IF ~Held(a) THEN UNCHANGED ledger
           ELSE \E result \in Results :
                  FinalizeTaskAttempt(a.task, a.worker, a.attempt,
                    IF p.state = "ok" THEN "Completed" ELSE "Failed", result)
        /\ UNCHANGED <<lock, crashes>>

\* Mutation: the loop ends with the open work and not with the processes.
CheckOpenWorkOnly(m) ==
    /\ At(m, "drive")
    /\ mgr[m].todo = {}
    /\ Goto(m, [mgr[m] EXCEPT !.pc = IF OpenWork(mgr[m].run) THEN "lease" ELSE "exit"])
    /\ UNCHANGED <<ledger, lock, tracked, procs, crashes>>

\* Mutation: the loop ends with the processes and not with the queue.
CheckTrackedOnly(m) ==
    /\ At(m, "drive")
    /\ mgr[m].todo = {}
    /\ Goto(m, [mgr[m] EXCEPT !.pc = IF tracked[m] = {} THEN "exit" ELSE "lease"])
    /\ UNCHANGED <<ledger, lock, tracked, procs, crashes>>

\* The end of a round: nothing open in the ledger and no tracked process.
Check(m) ==
    /\ At(m, "drive")
    /\ mgr[m].todo = {}
    /\ Goto(m, [mgr[m] EXCEPT !.pc = IF ~OpenWork(mgr[m].run) /\ tracked[m] = {}
                                       THEN "exit" ELSE "lease"])
    /\ UNCHANGED <<ledger, lock, tracked, procs, crashes>>

\* run_to_completion returns and the lock guard is dropped.
Exit(m) ==
    /\ At(m, "exit")
    /\ lock' = [lock EXCEPT ![mgr[m].run] = NoManager]
    /\ Goto(m, Off)
    /\ UNCHANGED <<ledger, tracked, procs, crashes>>

ManagerStep(m) ==
    \/ TryLock(m) \/ PickLease(m) \/ StartWorkerTask(m) \/ LeaseDone(m)
    \/ Snapshot(m) \/ Launch(m) \/ LaunchFails(m) \/ LaunchDone(m) \/ PublishArtifact(m)
    \/ Fence(m) \/ Visit(m) \/ Drain(m) \/ PollRunning(m) \/ PollExited(m)
    \/ Check(m) \/ Exit(m)

-----------------------------------------------------------------------------
(* Host processes, operators, deaths.                                      *)

Output(p) ==
    /\ p.state = "running"
    /\ p.quota > 0
    /\ procs' = (procs \ {p}) \cup {[p EXCEPT !.lines = @ + 1, !.quota = @ - 1]}
    /\ UNCHANGED <<ledger, lock, mgr, tracked, crashes>>

\* The process ends, well or not; an orphan leaves nothing to look at.
Ends(p) ==
    /\ p.state = "running"
    /\ \E s \in {"ok", "error"} :
         procs' = (procs \ {p}) \cup
                    (IF p.owner = NoManager THEN {} ELSE {[p EXCEPT !.state = s]})
    /\ UNCHANGED <<ledger, lock, mgr, tracked, crashes>>

\* fleet interrupt, fleet stop: a ledger transaction of another process.
Interrupt == \E t \in Tasks : CancelTaskIfActive(t, NoWorker,
                IF tasks[t].leased_to = NoWorker THEN 1 ELSE 2) /\ UNCHANGED manager

\* fleet restart: restart_worker, then run_to_completion.  The task is the
\* active one of the worker, else the one with the latest stamp, which without
\* stamps may be any the worker has had.
RestartWorker(m) ==
    /\ At(m, "off")
    /\ \E w \in Workers, t \in Tasks :
        /\ Leases(w) # {} => t \in Leases(w)
        /\ RestartTaskIfUnchanged(t, w, Version(t, w), Now, RestartRecords)
        /\ Goto(m, [Off EXCEPT !.pc = "lock", !.run = RunOf[t]])
    /\ UNCHANGED <<lock, tracked, procs, crashes>>

\* A manager dies: its lock is released, its children live on.
Crash(m) ==
    /\ mgr[m].pc # "off"
    /\ crashes < CrashBound
    /\ crashes' = crashes + 1
    /\ lock' = [r \in Runs |-> IF lock[r] = m THEN NoManager ELSE lock[r]]
    /\ Goto(m, Off)
    /\ tracked' = [tracked EXCEPT ![m] = {}]
    /\ procs' = {p \in procs : p.owner # m}
                  \cup {[p EXCEPT !.owner = NoManager, !.lines = 0] :
                          p \in {q \in procs : q.owner = m /\ q.state = "running"}}
    /\ UNCHANGED ledger

\* fleet run has written the run and its queue.
ManagerInit ==
    /\ tasks      = [t \in Tasks |-> EnqueuedTask]
    /\ latest_seq = [p \in Workers \X Tasks |-> 0]
    /\ heartbeats = [w \in Workers |-> 0]
    /\ receipts   = [t \in Tasks |-> NoReceipt]
    /\ alerts     = {}
    /\ lock       = [r \in Runs |-> NoManager]
    /\ mgr        = [m \in Managers |->
                       IF \E r \in Runs : Creator[r] = m
                         THEN [Off EXCEPT !.pc = "create",
                                          !.run = CHOOSE r \in Runs : Creator[r] = m]
                         ELSE Off]
    /\ tracked    = [m \in Managers |-> {}]
    /\ procs      = {}
    /\ crashes    = 0

ManagerNext ==
    \/ \E m \in Managers : ManagerStep(m) \/ RestartWorker(m) \/ Crash(m)
    \/ \E p \in procs : Output(p) \/ Ends(p)
    \/ Interrupt

ManagerSpec == ManagerInit /\ [][ManagerNext]_mvars

\* A live manager keeps going.  Nothing is assumed of operators, nor of host
\* processes: one may run for ever.
LoopSpec == ManagerSpec /\ \A m \in Managers : WF_mvars(ManagerStep(m))

\* Host processes end as well.
FairManagerSpec == LoopSpec /\ WF_mvars(\E p \in procs : Ends(p))

-----------------------------------------------------------------------------
(* Properties.                                                             *)

\* Live managers never have two host processes for one logical worker: not of
\* one run, whether of one attempt or of two, since the process of a cancelled
\* or restarted attempt is stopped before the worker's next lease is launched,
\* by whichever manager owns the run then; and not of two runs that both hold
\* the worker's lease.
OneChildPerWorker ==
    \A p, q \in procs :
        /\ p.state = "running"
        /\ q.state = "running"
        /\ NoManager \notin {p.owner, q.owner}
        /\ p.of.worker = q.of.worker
        /\ RunOf[p.of.task] = RunOf[q.of.task] \/ (Held(p.of) /\ Held(q.of))
        => p = q

\* A manager that returned from its loop left no host process behind.
NoChildLeftBehind ==
    \A m \in Managers : mgr[m].pc = "off" => \A p \in procs : p.owner # m

\* A process whose attempt was cancelled, restarted or otherwise ended in the
\* ledger does not stay with its manager, even if it would never end by itself:
\* the manager stops and forgets it before it returns, or dies.
FencedProcessGoes ==
    \A t \in Tasks, w \in Workers, n \in 1..AttemptBound, m \in Managers :
        LET a == [task |-> t, worker |-> w, attempt |-> n]
            Child == \E p \in procs : p.of = a /\ p.owner = m
        IN  Child /\ ~Held(a) ~> ~Child

\* The manager loop brings every task of its run to an end.
RunCompletes ==
    \A t \in Tasks, n \in 0..AttemptBound :
        tasks[t].status \in {"Enqueued", "Leased"} /\ tasks[t].attempts = n
            ~> tasks[t].status \in TerminalStatus \/ tasks[t].attempts > n
=============================================================================
