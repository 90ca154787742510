---------------------------- MODULE FleetScheduler ----------------------------
(***************************************************************************)
(* `fleet resume`: FleetScheduler.resume_run over the shared ledger.       *)
(*                                                                         *)
(* A resumer is one process running resume_run_at.  It reads the clock,    *)
(* then replays the ledger once, and walks the leases that look stale in   *)
(* that snapshot: Stale mark, then a restart within the retry budget or a  *)
(* Failed event and its alerts, each a ledger transaction of its own that  *)
(* is fenced by the version read in the snapshot.  Between any two steps   *)
(* other processes use the ledger, and the resumer may die.  The published *)
(* run status, a summary of the tasks that nothing here reads, is left out.*)
(*                                                                         *)
(* Other processes are the manager of the run (lease, heartbeat, outcome)  *)
(* and the operator (interrupt or stop, restart).                          *)
(***************************************************************************)
EXTENDS FleetLedger

CONSTANTS
    Resumers,      \* processes that run `fleet resume`
    MaxAttempts,   \* retry_policy.max_attempts of a task
    Timeout,       \* heartbeat_timeout, in whole seconds
    ClockBound,    \* bound of the model: last second of the wall clock
    CrashBound     \* bound of the model: deaths of resumers

ASSUME SchedulerAssumption ==
    /\ MaxAttempts \in [Tasks -> Nat]
    /\ Timeout \in Nat \ {0}
    /\ ClockBound \in Nat \ {0}
    /\ 1..ClockBound \subseteq Times
    /\ CrashBound \in Nat

VARIABLES
    clock,        \* seconds; a stamp written to the ledger is its value
    resume,       \* [Resumers -> the local state of a resumer]
    crashes

sched == <<clock, resume, crashes>>
vars  == <<ledger, sched>>

\* A lease judged stale: its task, its worker and the version it had.
NoLease == [task |-> NoWorker, worker |-> NoWorker,
            v |-> [status |-> "Absent", attempts |-> 0, seq |-> 0, heartbeat |-> 0]]

Idle ==
    [pc |-> "idle", run |-> NoWorker, now |-> 0, todo |-> {}, cur |-> NoLease,
     channels |-> {}]

-----------------------------------------------------------------------------
(* Policy.                                                                 *)

\* Mutation: a lease without any heartbeat is left alone.
TaskIsStaleWithHeartbeat(t, now) ==
    LET hb == heartbeats[tasks[t].leased_to]
    IN  hb # 0 /\ (hb > now \/ now - hb >= Timeout)

\* task_is_stale.  now carries a fraction of a second and a stamp does not, so
\* an age of Timeout whole seconds exceeds the timeout.  A heartbeat later than
\* now has a negative age, for which to_std fails and map_or answers true.
\* Without a heartbeat only the lease deadline could keep the lease fresh, and
\* the manager and the operator lease without one.
TaskIsStale(t, now) ==
    LET hb == heartbeats[tasks[t].leased_to]
    IN  hb = 0 \/ hb > now \/ now - hb >= Timeout

StaleLeases(r, now) ==
    {[task |-> t, worker |-> tasks[t].leased_to, v |-> Version(t, tasks[t].leased_to)] :
        t \in {u \in ActiveOf(r) : TaskIsStale(u, now)}}

\* The compare of every version-fenced append.
LeaseUnchanged(c) ==
    /\ tasks[c.task].leased_to = c.worker
    /\ Version(c.task, c.worker) = c.v

-----------------------------------------------------------------------------
(* One resumer.                                                            *)

Goto(s, new) ==
    /\ resume' = [resume EXCEPT ![s] = new]
    /\ UNCHANGED <<clock, crashes>>

\* resume_run: the instant is taken before the ledger is read.
Open(s, r) ==
    /\ resume[s].pc = "idle"
    /\ Goto(s, [Idle EXCEPT !.pc = "snapshot", !.run = r, !.now = clock])
    /\ UNCHANGED ledger

\* reconcile_stale_leases: rebuild_state and the filter of its loop.
Snapshot(s) ==
    /\ resume[s].pc = "snapshot"
    /\ Goto(s, [resume[s] EXCEPT !.pc = "mark",
                                 !.todo = StaleLeases(resume[s].run, resume[s].now)])
    /\ UNCHANGED ledger

\* The loop body up to the Stale mark; a lease that changed is skipped.
Mark(s) ==
    /\ resume[s].pc = "mark"
    /\ \E c \in resume[s].todo :
         LET rest == [resume[s] EXCEPT !.todo = @ \ {c}]
         IN  \/ /\ AppendEventIfLeaseUnchanged(c.task, c.worker, c.v)
                /\ Goto(s, [rest EXCEPT !.pc = "retry", !.cur = [c EXCEPT !.v.seq = @ + 1]])
             \/ /\ ~LeaseUnchanged(c)
                /\ Goto(s, rest)
                /\ UNCHANGED ledger

\* Mutation: the retry budget is compared with <= .
RetryOffByOne(s) ==
    LET c == resume[s].cur
    IN  /\ resume[s].pc = "retry"
        /\ c.v.attempts <= MaxAttempts[c.task]
        /\ Goto(s, [resume[s] EXCEPT !.pc = "mark", !.cur = NoLease])
        /\ IF LeaseUnchanged(c) /\ Leases(c.worker) \subseteq {c.task}
             THEN RestartTaskIfUnchanged(c.task, c.worker, c.v, resume[s].now, RestartRecords)
             ELSE UNCHANGED ledger

\* Mutation: the restart re-reads the task in place of the fenced version.
RetryUnfenced(s) ==
    LET c == resume[s].cur
    IN  /\ resume[s].pc = "retry"
        /\ c.v.attempts < MaxAttempts[c.task]
        /\ Goto(s, [resume[s] EXCEPT !.pc = "mark", !.cur = NoLease])
        /\ IF Leases(c.worker) \subseteq {c.task}
             THEN RestartTaskIfUnchanged(c.task, c.worker, Version(c.task, c.worker),
                                         resume[s].now, RestartRecords)
             ELSE UNCHANGED ledger

\* retry_or_fail within the budget: the replacement lease is stamped with the
\* instant of the resume.
Retry(s) ==
    LET c == resume[s].cur
    IN  /\ resume[s].pc = "retry"
        /\ c.v.attempts < MaxAttempts[c.task]
        /\ Goto(s, [resume[s] EXCEPT !.pc = "mark", !.cur = NoLease])
        /\ IF LeaseUnchanged(c) /\ Leases(c.worker) \subseteq {c.task}
             THEN RestartTaskIfUnchanged(c.task, c.worker, c.v, resume[s].now, RestartRecords)
             ELSE UNCHANGED ledger

\* retry_or_fail beyond the budget.
Fail(s) ==
    LET c == resume[s].cur
    IN  /\ resume[s].pc = "retry"
        /\ c.v.attempts >= MaxAttempts[c.task]
        /\ IF LeaseUnchanged(c)
             THEN /\ AppendFailedIfLeaseUnchanged(c.task, c.worker, c.v)
                  /\ Goto(s, [resume[s] EXCEPT !.pc = "alert", !.channels = Channels])
             ELSE /\ Goto(s, [resume[s] EXCEPT !.pc = "mark", !.cur = NoLease])
                  /\ UNCHANGED ledger

\* record_alerts: one transaction per channel of the policy; one that finds the
\* attempt gone or the alert recorded appends nothing.
RecordAlerts(s) ==
    LET c == resume[s].cur
    IN  /\ resume[s].pc = "alert"
        /\ IF resume[s].channels = {}
             THEN /\ Goto(s, [resume[s] EXCEPT !.pc = "mark", !.cur = NoLease])
                  /\ UNCHANGED ledger
             ELSE \E ch \in resume[s].channels :
                    /\ Goto(s, [resume[s] EXCEPT !.channels = @ \ {ch}])
                    /\ IF /\ tasks[c.task].status = "Failed"
                          /\ tasks[c.task].attempts = c.v.attempts
                          /\ <<c.task, c.v.attempts, ch>> \notin alerts
                         THEN RecordFailedAttemptAlertOnce(c.task, c.worker, c.v.attempts, ch)
                         ELSE UNCHANGED ledger

\* The walk is over and resume_run returns.
Finish(s) ==
    /\ resume[s].pc = "mark"
    /\ resume[s].todo = {}
    /\ Goto(s, Idle)
    /\ UNCHANGED ledger

\* The process dies; everything it had read is gone.
Crash(s) ==
    /\ resume[s].pc # "idle"
    /\ crashes < CrashBound
    /\ crashes' = crashes + 1
    /\ resume' = [resume EXCEPT ![s] = Idle]
    /\ UNCHANGED <<ledger, clock>>

ResumeStep(s) ==
    Snapshot(s) \/ Mark(s) \/ Retry(s) \/ Fail(s) \/ RecordAlerts(s) \/ Finish(s)

-----------------------------------------------------------------------------
(* Everyone else.                                                          *)

Tick ==
    /\ clock < ClockBound
    /\ clock' = clock + 1
    /\ UNCHANGED <<ledger, resume, crashes>>

\* The manager that runs the tasks: a lease (possibly torn after its first
\* record), heartbeats of the leases it drives, outcomes.
ManagerLease == \E t \in Tasks, k \in {1, StartRecords} : \E w \in WorkersOf[RunOf[t]] :
                    StartTaskIfEnqueued(t, w, clock, k)
ManagerHeartbeat == \E w \in Workers :
                    Leases(w) # {} /\ heartbeats[w] # clock /\ Heartbeat(w, clock)
ManagerOutcome == \E t \in Tasks, w \in Workers, o \in {"Completed", "Failed"} :
                    FinalizeTaskAttempt(t, w, tasks[t].attempts, o,
                        IF o = "Completed" THEN "Accepted" ELSE "Rejected")
OperatorCancel == \E t \in Tasks, k \in 1..2 :
                    /\ k = IF tasks[t].leased_to = NoWorker THEN 1 ELSE 2
                    /\ CancelTaskIfActive(t, NoWorker, k)
OperatorRestart == \E t \in Tasks, w \in Workers :
                    RestartTaskIfUnchanged(t, w, Version(t, w), clock, RestartRecords)

Others ==
    /\ ManagerLease \/ ManagerHeartbeat \/ ManagerOutcome \/ OperatorCancel \/ OperatorRestart
    /\ UNCHANGED sched

\* create_run has enqueued the tasks.
SchedInit ==
    /\ tasks      = [t \in Tasks |-> EnqueuedTask]
    /\ latest_seq = [p \in Workers \X Tasks |-> 0]
    /\ heartbeats = [w \in Workers |-> 0]
    /\ receipts   = [t \in Tasks |-> NoReceipt]
    /\ alerts     = {}
    /\ clock      = 1
    /\ resume     = [s \in Resumers |-> Idle]
    /\ crashes    = 0

SchedNext ==
    \/ \E s \in Resumers : ResumeStep(s) \/ Crash(s) \/ \E r \in Runs : Open(s, r)
    \/ Tick
    \/ Others

SchedSpec == SchedInit /\ [][SchedNext]_vars

\* A resume that was started runs on unless it dies, `fleet resume` is issued
\* again and again, and time passes.  Nothing is assumed of the manager or the
\* operator: the manager may be gone.
SchedFairness ==
    /\ WF_vars(Tick)
    /\ \A s \in Resumers : WF_vars(ResumeStep(s))
    /\ \A s \in Resumers, r \in Runs : WF_vars(Open(s, r))

FairSchedSpec == SchedSpec /\ SchedFairness

-----------------------------------------------------------------------------
(* Properties.                                                             *)

\* A resume never opens an attempt beyond the retry budget of the task, also
\* when the operator or another resume restarts the task between its snapshot
\* and its restart.
RecoveryWithinBudget ==
    [][\A t \in Tasks :
         resume' # resume /\ tasks'[t].attempts # tasks[t].attempts
            => tasks'[t].attempts <= MaxAttempts[t]]_vars

\* A resume never touches a task that completed, failed or was cancelled after
\* its snapshot: what it judges by an old replay it changes only while the task
\* is still leased.
RecoveryOnlyTakesLeased ==
    [][\A t \in Tasks :
         resume' # resume /\ tasks'[t] # tasks[t] => tasks[t].status = "Leased"]_vars

\* A lease whose worker is silent is recovered: some resume restarts or fails
\* it, or it makes a sign of life after all.  Deaths of resumers between the
\* Stale mark and the decision do not lose it.
SilentLeaseRecovered ==
    \A t \in Tasks, w \in Workers, a \in 1..AttemptBound :
        /\ HoldsLease(t, w, a)
        /\ clock - heartbeats[w] >= Timeout
        ~> ~HoldsLease(t, w, a) \/ clock - heartbeats[w] < Timeout

\* A task failed by the scheduler (it has no receipt for its attempt) reaches
\* every channel of its alert policy unless it is restarted.
EscalationDelivered ==
    \A t \in Tasks, a \in 1..AttemptBound, ch \in Channels :
        /\ tasks[t].status = "Failed"
        /\ tasks[t].attempts = a
        /\ receipts[t].attempt # a
        ~> <<t, a, ch>> \in alerts \/ tasks[t].attempts # a
=============================================================================
