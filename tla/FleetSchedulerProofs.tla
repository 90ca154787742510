------------------------- MODULE FleetSchedulerProofs -------------------------
(***************************************************************************)
(* Proofs about `fleet resume` for every number of resumers, tasks and     *)
(* workers, every retry budget and every value of the bounds.              *)
(*                                                                         *)
(* The argument: what a resumer remembers of its snapshot is a lease, so   *)
(* each of its appends is a transaction the ledger offers to any client.   *)
(* The ledger's own invariants then hold of the composed system, and the   *)
(* fence of each append gives the two action properties of the recovery.   *)
(***************************************************************************)
EXTENDS FleetScheduler, FleetLedgerProofs

\* What a snapshot may say of a lease it judged stale.
Lease ==
    [task : Tasks, worker : Workers,
     v : [status : {"Leased"}, attempts : Nat, seq : Nat, heartbeat : Nat]]

ResumerState ==
    [pc : {"idle", "snapshot", "mark", "retry", "alert"}, run : Runs \cup {NoWorker},
     now : Nat, todo : SUBSET Lease, cur : Lease \cup {NoLease},
     channels : SUBSET Channels]

\* A resumer under way has a stamp of the ledger's clock, and one that decides
\* a lease or escalates it holds that lease.
ResumerOK(r) ==
    /\ r \in ResumerState
    /\ r.pc # "idle" => r.now \in 1..ClockBound
    /\ r.pc \in {"retry", "alert"} => r.cur \in Lease

\* The inductive invariant: the ledger's, and the shape of what is remembered.
SchedIInv ==
    /\ IInv
    /\ clock \in 1..ClockBound
    /\ resume \in [Resumers -> ResumerState]
    /\ \A s \in Resumers : ResumerOK(resume[s])

USE DEF ledger, vars, sched

-----------------------------------------------------------------------------

LEMMA IdleOK == ResumerOK(Idle)
BY DEF ResumerOK, ResumerState, Idle, NoLease

LEMMA SchedInitIInv == SchedInit => SchedIInv
<1> SUFFICES ASSUME SchedInit PROVE SchedIInv
  OBVIOUS
<1>1. NoReceipt \in Receipt
  BY DEF NoReceipt, Receipt, Results
<1>2. TypeOK
  BY <1>1, EnqueuedTaskType DEF SchedInit, TypeOK
<1>3. OwnershipShape /\ OneLeasePerWorker
  BY EnqueuedTaskType DEF SchedInit, OwnershipShape, OneLeasePerWorker
<1>4. clock \in 1..ClockBound
  BY SchedulerAssumption DEF SchedInit
<1>5. resume \in [Resumers -> ResumerState] /\ \A s \in Resumers : ResumerOK(resume[s])
  BY IdleOK DEF SchedInit, ResumerOK
<1> QED BY <1>2, <1>3, <1>4, <1>5 DEF SchedIInv, IInv

\* A snapshot judges leases only.
LEMMA StaleLeasesAreLeases ==
    ASSUME IInv, NEW r, NEW now
    PROVE  StaleLeases(r, now) \subseteq Lease
<1> SUFFICES ASSUME NEW t \in Tasks, tasks[t].status = "Leased"
             PROVE  [task |-> t, worker |-> tasks[t].leased_to,
                     v |-> Version(t, tasks[t].leased_to)] \in Lease
  BY DEF StaleLeases, ActiveOf
<1>1. tasks[t] \in TaskState /\ tasks[t].leased_to \in Workers
  BY LedgerAssumption DEF IInv, TypeOK, OwnershipShape, TaskState
<1>2. Version(t, tasks[t].leased_to)
        \in [status : {"Leased"}, attempts : Nat, seq : Nat, heartbeat : Nat]
  BY <1>1 DEF Version, LatestSeq, IInv, TypeOK, TaskState
<1> QED BY <1>1, <1>2 DEF Lease

-----------------------------------------------------------------------------
(* Every step is a transaction of the ledger.                                *)

\* A step of a resumer is a transaction any client of the ledger may make, or
\* leaves the ledger alone: its snapshot may be old, its appends are not.
LEMMA ResumeIsTransaction ==
    ASSUME SchedIInv, NEW s \in Resumers, ResumeStep(s)
    PROVE  [LedgerNext]_ledger
<1> USE LedgerAssumption, SchedulerAssumption
<1>1. ResumerOK(resume[s])
  BY DEF SchedIInv
<1>2. CASE Snapshot(s) \/ Finish(s)
  BY <1>2 DEF Snapshot, Finish
<1>3. CASE Mark(s)
  <2>1. PICK c \in resume[s].todo :
            AppendEventIfLeaseUnchanged(c.task, c.worker, c.v) \/ UNCHANGED ledger
    BY <1>3 DEF Mark
  <2>2. c.task \in Tasks /\ c.worker \in Workers
    BY <1>1 DEF ResumerOK, ResumerState, Lease
  <2>3. AppendEventIfLeaseUnchanged(c.task, c.worker, c.v) => MarkStale
    BY <2>2 DEF MarkStale, AppendEventIfLeaseUnchanged
  <2> QED BY <2>1, <2>3 DEF LedgerNext
<1>4. CASE Retry(s) \/ Fail(s) \/ RecordAlerts(s)
  <2> DEFINE c == resume[s].cur
  <2>1. c \in Lease /\ resume[s].now \in Times
    BY <1>1, <1>4 DEF ResumerOK, Retry, Fail, RecordAlerts
  <2>2. c.task \in Tasks /\ c.worker \in Workers
    BY <2>1 DEF Lease
  <2>3. \/ RestartTaskIfUnchanged(c.task, c.worker, c.v, resume[s].now, RestartRecords)
        \/ AppendFailedIfLeaseUnchanged(c.task, c.worker, c.v)
        \/ \E ch \in resume[s].channels :
             RecordFailedAttemptAlertOnce(c.task, c.worker, c.v.attempts, ch)
        \/ UNCHANGED ledger
    BY <1>4 DEF Retry, Fail, RecordAlerts
  <2>4. ASSUME RestartTaskIfUnchanged(c.task, c.worker, c.v, resume[s].now, RestartRecords)
        PROVE  Restart
    <3>1. RestartRecords \in 1..RestartRecords
      BY DEF RestartRecords
    <3>2. Version(c.task, c.worker) = c.v
      BY <2>4 DEF RestartTaskIfUnchanged
    <3>3. RestartTaskIfUnchanged(c.task, c.worker, Version(c.task, c.worker),
                                 resume[s].now, RestartRecords)
      BY <2>4, <3>2
    <3> HIDE DEF c
    <3> QED BY <2>1, <2>2, <3>1, <3>3 DEF Restart
  <2>5. ASSUME AppendFailedIfLeaseUnchanged(c.task, c.worker, c.v)
        PROVE  FailExhausted
    <3>2. Version(c.task, c.worker) = c.v
      BY <2>5 DEF AppendFailedIfLeaseUnchanged
    <3> HIDE DEF c
    <3> QED BY <2>2, <2>5, <3>2 DEF FailExhausted
  <2>6. ASSUME NEW ch \in resume[s].channels,
               RecordFailedAttemptAlertOnce(c.task, c.worker, c.v.attempts, ch)
        PROVE  Alert
    <3>1. ch \in Channels
      BY <1>1 DEF ResumerOK, ResumerState
    <3>2. tasks[c.task].attempts = c.v.attempts
      BY <2>6 DEF RecordFailedAttemptAlertOnce
    <3> HIDE DEF c
    <3> QED BY <2>2, <2>6, <3>1, <3>2 DEF Alert
  <2> HIDE DEF c
  <2> QED BY <2>3, <2>4, <2>5, <2>6 DEF LedgerNext
<1> QED BY <1>2, <1>3, <1>4 DEF ResumeStep

\* So is a step of the manager or of the operator.
LEMMA OthersAreTransactions ==
    ASSUME SchedIInv, Others
    PROVE  [LedgerNext]_ledger
<1> USE LedgerAssumption, SchedulerAssumption
<1>1. clock \in Times
  BY DEF SchedIInv
<1>2. CASE ManagerLease
  <2>1. StartRecords \in 1..StartRecords /\ 1 \in 1..StartRecords
    BY DEF StartRecords
  <2> QED BY <1>1, <1>2, <2>1 DEF ManagerLease, Start, LedgerNext
<1>3. CASE ManagerHeartbeat
  BY <1>1, <1>3 DEF ManagerHeartbeat, LedgerNext
<1>4. CASE ManagerOutcome
  BY <1>4 DEF ManagerOutcome, Finalize, LedgerNext, TerminalStatus, Results
<1>5. CASE OperatorCancel
  BY <1>5 DEF OperatorCancel, Cancel, LedgerNext
<1>6. CASE OperatorRestart
  <2>1. RestartRecords \in 1..RestartRecords
    BY DEF RestartRecords
  <2> QED BY <1>1, <1>6, <2>1 DEF OperatorRestart, Restart, LedgerNext
<1> QED BY <1>2, <1>3, <1>4, <1>5, <1>6 DEF Others

LEMMA SchedStepIsTransaction ==
    ASSUME SchedIInv, [SchedNext]_vars
    PROVE  [LedgerNext]_ledger
<1>1. CASE \E s \in Resumers : ResumeStep(s)
  BY <1>1, ResumeIsTransaction
<1>2. CASE \E s \in Resumers : Crash(s) \/ \E r \in Runs : Open(s, r)
  BY <1>2 DEF Crash, Open
<1>3. CASE Tick \/ UNCHANGED vars
  BY <1>3 DEF Tick
<1>4. CASE Others
  BY <1>4, OthersAreTransactions
<1> QED BY <1>1, <1>2, <1>3, <1>4 DEF SchedNext

-----------------------------------------------------------------------------
(* What a resumer remembers stays well formed.                               *)

LEMMA ResumerStep ==
    ASSUME SchedIInv, NEW s \in Resumers,
           ResumeStep(s) \/ Crash(s) \/ \E r \in Runs : Open(s, r)
    PROVE  /\ \E new : resume' = [resume EXCEPT ![s] = new] /\ ResumerOK(new)
           /\ clock' = clock
<1> USE SchedulerAssumption
<1> DEFINE old == resume[s]
<1>0. ResumerOK(old)
  BY DEF SchedIInv
<1>1. ASSUME NEW r \in Runs, Open(s, r)
      PROVE  \E new : Goto(s, new) /\ ResumerOK(new)
  <2>1. clock \in 1..ClockBound /\ clock \in Nat
    BY DEF SchedIInv
  <2>2. ResumerOK([Idle EXCEPT !.pc = "snapshot", !.run = r, !.now = clock])
    BY <2>1, IdleOK DEF ResumerOK, ResumerState
  <2> QED BY <1>1, <2>2 DEF Open
<1>2. ASSUME Snapshot(s)
      PROVE  \E new : Goto(s, new) /\ ResumerOK(new)
  <2>1. StaleLeases(old.run, old.now) \subseteq Lease
    BY StaleLeasesAreLeases DEF SchedIInv
  <2>2. ResumerOK([old EXCEPT !.pc = "mark", !.todo = StaleLeases(old.run, old.now)])
    BY <1>0, <1>2, <2>1 DEF ResumerOK, ResumerState, Snapshot
  <2> QED BY <1>2, <2>2 DEF Snapshot
<1>3. ASSUME Mark(s)
      PROVE  \E new : Goto(s, new) /\ ResumerOK(new)
  <2>1. PICK c \in old.todo :
          LET rest == [old EXCEPT !.todo = @ \ {c}]
          IN  \/ Goto(s, [rest EXCEPT !.pc = "retry", !.cur = [c EXCEPT !.v.seq = @ + 1]])
              \/ Goto(s, rest)
    BY <1>3 DEF Mark
  <2>2. c \in Lease
    BY <1>0 DEF ResumerOK, ResumerState
  <2>3. [c EXCEPT !.v.seq = @ + 1] \in Lease
    BY <2>2 DEF Lease
  <2> DEFINE rest == [old EXCEPT !.todo = @ \ {c}]
  <2>4. ResumerOK(rest) /\ rest.pc = "mark"
    BY <1>0, <1>3 DEF ResumerOK, ResumerState, Mark
  <2>5. ASSUME NEW d \in Lease
        PROVE  ResumerOK([rest EXCEPT !.pc = "retry", !.cur = d])
    <3> HIDE DEF rest
    <3> QED BY <2>4 DEF ResumerOK, ResumerState
  <2> QED BY <2>1, <2>3, <2>4, <2>5
<1>4. ASSUME Retry(s) \/ Fail(s) \/ RecordAlerts(s)
      PROVE  \E new : Goto(s, new) /\ ResumerOK(new)
  <2>1. old.pc \in {"retry", "alert"}
    BY <1>4 DEF Retry, Fail, RecordAlerts
  <2>2. ResumerOK([old EXCEPT !.pc = "mark", !.cur = NoLease])
    BY <1>0, <2>1 DEF ResumerOK, ResumerState
  <2>3. ResumerOK([old EXCEPT !.pc = "alert", !.channels = Channels])
    BY <1>0, <2>1 DEF ResumerOK, ResumerState
  <2>4. ASSUME NEW ch PROVE ResumerOK([old EXCEPT !.channels = @ \ {ch}])
    BY <1>0, <2>1 DEF ResumerOK, ResumerState
  <2>5. \/ Goto(s, [old EXCEPT !.pc = "mark", !.cur = NoLease])
        \/ Goto(s, [old EXCEPT !.pc = "alert", !.channels = Channels])
        \/ \E ch : Goto(s, [old EXCEPT !.channels = @ \ {ch}])
    BY <1>4 DEF Retry, Fail, RecordAlerts
  <2> HIDE DEF old
  <2> QED BY <2>2, <2>3, <2>4, <2>5
<1>5. ASSUME Finish(s)
      PROVE  \E new : Goto(s, new) /\ ResumerOK(new)
  BY <1>5, IdleOK DEF Finish
<1>6. CASE Crash(s)
  BY <1>6, IdleOK DEF Crash
<1>7. ASSUME NEW new, Goto(s, new), ResumerOK(new)
      PROVE  resume' = [resume EXCEPT ![s] = new] /\ clock' = clock
  BY <1>7 DEF Goto
<1> HIDE DEF old
<1>8. CASE ResumeStep(s)
  <2>1. \E new : Goto(s, new) /\ ResumerOK(new)
    BY <1>2, <1>3, <1>4, <1>5, <1>8 DEF ResumeStep
  <2> QED BY <1>7, <2>1
<1> QED BY <1>1, <1>6, <1>7, <1>8

LEMMA SchedIInvStep == SchedIInv /\ [SchedNext]_vars => SchedIInv'
<1> SUFFICES ASSUME SchedIInv, [SchedNext]_vars PROVE SchedIInv'
  OBVIOUS
<1>1. IInv'
  BY SchedStepIsTransaction, NextIsTaskStep, TypeStep, OwnershipStep, OneLeaseStep
  DEF SchedIInv, IInv
<1>2. CASE \E s \in Resumers : ResumeStep(s) \/ Crash(s) \/ \E r \in Runs : Open(s, r)
  <2>1. PICK s \in Resumers : ResumeStep(s) \/ Crash(s) \/ \E r \in Runs : Open(s, r)
    BY <1>2
  <2>2. clock' = clock
    BY <2>1, ResumerStep
  <2>3. PICK new : resume' = [resume EXCEPT ![s] = new] /\ ResumerOK(new)
    BY <2>1, ResumerStep
  <2>4. new \in ResumerState
    BY <2>3 DEF ResumerOK
  <2>5. resume' \in [Resumers -> ResumerState]
    BY <2>3, <2>4 DEF SchedIInv
  <2>6. ASSUME NEW q \in Resumers PROVE ResumerOK(resume'[q])
    BY <2>3 DEF SchedIInv
  <2> QED BY <1>1, <2>2, <2>5, <2>6 DEF SchedIInv
<1>3. CASE Tick
  BY <1>1, <1>3, SchedulerAssumption DEF Tick, SchedIInv
<1>4. CASE Others \/ UNCHANGED vars
  BY <1>1, <1>4 DEF Others, SchedIInv
<1> QED BY <1>2, <1>3, <1>4 DEF SchedNext

LEMMA SchedIInvHolds == SchedSpec => []SchedIInv
BY SchedInitIInv, SchedIInvStep, PTL DEF SchedSpec

-----------------------------------------------------------------------------
(* Theorems.                                                                 *)

\* Whatever the resumers remember and wherever they die, the composed system
\* moves the ledger by the ledger's own transactions only: a client with an
\* old snapshot does nothing a client with an exact one could not do.
THEOREM ResumeRespectsLedger == SchedSpec => [][LedgerNext]_ledger
BY SchedIInvHolds, SchedStepIsTransaction, PTL DEF SchedSpec

\* Resumes, the manager and the operator together never give a worker two live
\* leases.
THEOREM ResumeKeepsLeaseExclusion == SchedSpec => []OneLeasePerWorker
<1>1. SchedIInv => OneLeasePerWorker
  BY DEF SchedIInv, IInv
<1> QED BY SchedIInvHolds, <1>1, PTL

\* A resume changes a task only while it is leased.
THEOREM RecoveryTakesLeasedOnly == SchedSpec => RecoveryOnlyTakesLeased
<1>1. ASSUME SchedIInv, [SchedNext]_vars, NEW t \in Tasks,
             resume' # resume, tasks'[t] # tasks[t]
      PROVE  tasks[t].status = "Leased"
  <2>1. PICK s \in Resumers : Mark(s) \/ Retry(s) \/ Fail(s) \/ RecordAlerts(s)
    BY <1>1 DEF SchedNext, ResumeStep, Snapshot, Finish, Crash, Open, Tick, Others
  <2>2. ~Mark(s) /\ ~RecordAlerts(s)
    BY <1>1 DEF Mark, RecordAlerts, AppendEventIfLeaseUnchanged, RecordFailedAttemptAlertOnce
  <2> DEFINE c == resume[s].cur
  <2>3. c \in Lease
    BY <1>1, <2>1, <2>2 DEF SchedIInv, ResumerOK, Retry, Fail
  <2>4. LeaseUnchanged(c) /\ \E new : tasks' = [tasks EXCEPT ![c.task] = new]
    BY <1>1, <2>1, <2>2 DEF Retry, Fail, RestartTaskIfUnchanged,
       AppendFailedIfLeaseUnchanged
  <2> HIDE DEF c
  <2>5. t = c.task
    BY <1>1, <2>4 DEF SchedIInv, IInv, TypeOK
  <2>6. Version(c.task, c.worker).status = tasks[t].status
    BY <2>5 DEF Version
  <2> QED BY <2>3, <2>4, <2>6 DEF LeaseUnchanged, Lease
<1>2. SchedIInv /\ [SchedNext]_vars =>
        [\A t \in Tasks :
         resume' # resume /\ tasks'[t] # tasks[t] => tasks[t].status = "Leased"]_vars
  BY <1>1
<1> QED BY SchedIInvHolds, <1>2, PTL DEF SchedSpec, RecoveryOnlyTakesLeased

\* A resume opens no attempt beyond the budget of the task, whoever restarts
\* the task in between.
THEOREM RecoveryKeepsBudget == SchedSpec => RecoveryWithinBudget
<1>1. ASSUME SchedIInv, [SchedNext]_vars, NEW t \in Tasks,
             resume' # resume, tasks'[t].attempts # tasks[t].attempts
      PROVE  tasks'[t].attempts <= MaxAttempts[t]
  <2>1. PICK s \in Resumers : Mark(s) \/ Retry(s) \/ Fail(s) \/ RecordAlerts(s)
    BY <1>1 DEF SchedNext, ResumeStep, Snapshot, Finish, Crash, Open, Tick, Others
  <2>2. ~Mark(s) /\ ~RecordAlerts(s)
    BY <1>1 DEF Mark, RecordAlerts, AppendEventIfLeaseUnchanged, RecordFailedAttemptAlertOnce
  <2> DEFINE c == resume[s].cur
  <2>3. c \in Lease
    BY <1>1, <2>1, <2>2 DEF SchedIInv, ResumerOK, Retry, Fail
  <2>4. \/ tasks' = [tasks EXCEPT ![c.task] = LeasedTask(@, c.worker, resume[s].now)]
           /\ c.v.attempts < MaxAttempts[c.task]
        \/ tasks' = [tasks EXCEPT ![c.task] = TerminalTask(@, c.worker, "Failed")]
    BY <1>1, <2>1, <2>2 DEF Retry, Fail, RestartTaskIfUnchanged,
       AppendFailedIfLeaseUnchanged
  <2>5. LeaseUnchanged(c)
    BY <1>1, <2>1, <2>2 DEF Retry, Fail
  <2> HIDE DEF c
  <2>6. tasks \in [Tasks -> TaskState]
    BY <1>1 DEF SchedIInv, IInv, TypeOK
  <2>7. t = c.task
    BY <1>1, <2>4, <2>6
  <2>8. c.v.attempts = tasks[t].attempts
    BY <2>5, <2>7 DEF LeaseUnchanged, Version
  <2>9. LeasedTask(tasks[t], c.worker, resume[s].now).attempts = tasks[t].attempts + 1
        /\ TerminalTask(tasks[t], c.worker, "Failed").attempts = tasks[t].attempts
    BY DEF LeasedTask, TerminalTask
  <2>10. tasks'[t].attempts = tasks[t].attempts + 1 /\ tasks[t].attempts < MaxAttempts[t]
    BY <1>1, <2>4, <2>6, <2>7, <2>8, <2>9
  <2>11. tasks[t].attempts \in Nat /\ MaxAttempts[t] \in Nat
    BY <2>6, SchedulerAssumption DEF TaskState
  <2> QED BY <2>10, <2>11
<1>2. SchedIInv /\ [SchedNext]_vars =>
        [\A t \in Tasks :
         resume' # resume /\ tasks'[t].attempts # tasks[t].attempts
            => tasks'[t].attempts <= MaxAttempts[t]]_vars
  BY <1>1
<1> QED BY SchedIInvHolds, <1>2, PTL DEF SchedSpec, RecoveryWithinBudget
=============================================================================
