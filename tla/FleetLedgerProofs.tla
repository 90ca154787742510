-------------------------- MODULE FleetLedgerProofs --------------------------
(***************************************************************************)
(* Proofs about FleetLedger for every set of runs, tasks and workers and   *)
(* every value of the bounds.                                              *)
(***************************************************************************)
EXTENDS FleetLedger, FiniteSetTheorems, TLAPS

(* Ownership of a task: a task has made an attempt exactly when it has an    *)
(* owner, the owner is a worker of the task's run, and only a task that was  *)
(* never leased can be queued or absent.                                     *)
OwnershipShape ==
    \A t \in Tasks :
        /\ tasks[t].leased_to = NoWorker \/ tasks[t].leased_to \in WorkersOf[RunOf[t]]
        /\ tasks[t].leased_to = NoWorker => tasks[t].attempts = 0
        /\ tasks[t].status \in {"Absent", "Enqueued"} => tasks[t].leased_to = NoWorker
        /\ tasks[t].status \in {"Leased", "Completed", "Failed"}
             => tasks[t].leased_to # NoWorker
        /\ tasks[t].status = "Absent" => tasks[t].lifecycle_seq = 0

IInv == TypeOK /\ OwnershipShape /\ OneLeasePerWorker

USE DEF ledger

-----------------------------------------------------------------------------
(* Operators on one task keep the type.                                      *)

LEMMA LeasedTaskType ==
    ASSUME NEW task \in TaskState, NEW w \in Workers, NEW ts \in Nat
    PROVE  /\ LeasedTask(task, w, ts) \in TaskState
           /\ LeasedTask(task, w, ts).status = "Leased"
           /\ LeasedTask(task, w, ts).leased_to = w
           /\ LeasedTask(task, w, ts).attempts = task.attempts + 1
           /\ LeasedTask(task, w, ts).lifecycle_seq >= task.lifecycle_seq
           /\ task.status # "Leased" =>
                LeasedTask(task, w, ts).lifecycle_seq > task.lifecycle_seq
BY DEF LeasedTask, TaskState, TaskStatus, TerminalStatus

LEMMA TerminalTaskType ==
    ASSUME NEW task \in TaskState, NEW w \in Workers \cup {NoWorker},
           NEW s \in TerminalStatus
    PROVE  /\ TerminalTask(task, w, s) \in TaskState
           /\ TerminalTask(task, w, s).status = s
           /\ TerminalTask(task, w, s).attempts = task.attempts
           /\ TerminalTask(task, w, s).leased_to
                = (IF w = NoWorker THEN task.leased_to ELSE w)
           /\ TerminalTask(task, w, s).lifecycle_seq >= task.lifecycle_seq
           /\ task.status # s =>
                TerminalTask(task, w, s).lifecycle_seq > task.lifecycle_seq
BY DEF TerminalTask, TaskState, TaskStatus, TerminalStatus

LEMMA FinalTaskType ==
    ASSUME NEW task \in TaskState, NEW w \in Workers,
           NEW o \in TerminalStatus, NEW r \in Results
    PROVE  /\ FinalTask(task, w, o, r) \in TaskState
           /\ FinalTask(task, w, o, r).status \in TerminalStatus
           /\ FinalTask(task, w, o, r).attempts = task.attempts
           /\ FinalTask(task, w, o, r).leased_to = w
           /\ FinalTask(task, w, o, r).lifecycle_seq >= task.lifecycle_seq
           /\ FinalTask(task, w, o, r).status = "Completed" => r = "Accepted"
           /\ task.status \notin TerminalStatus =>
                FinalTask(task, w, o, r).lifecycle_seq > task.lifecycle_seq
<1> DEFINE ended == TerminalTask(task, w, o)
<1>1. "Failed" \in TerminalStatus
  BY DEF TerminalStatus
<1>2. w \in Workers \cup {NoWorker} /\ w # NoWorker
  BY LedgerAssumption
<1>3. /\ ended \in TaskState
      /\ ended.status = o
      /\ ended.attempts = task.attempts
      /\ ended.leased_to = w
      /\ ended.lifecycle_seq >= task.lifecycle_seq
      /\ task.status # o => ended.lifecycle_seq > task.lifecycle_seq
  BY <1>2, TerminalTaskType
<1> HIDE DEF ended
<1> DEFINE failed == TerminalTask(ended, w, "Failed")
<1>4. /\ failed \in TaskState
      /\ failed.status = "Failed"
      /\ failed.attempts = ended.attempts
      /\ failed.leased_to = w
      /\ failed.lifecycle_seq >= ended.lifecycle_seq
  BY <1>1, <1>2, <1>3, TerminalTaskType
<1> HIDE DEF failed
<1>5. FinalTask(task, w, o, r) = IF r = "Rejected" THEN failed ELSE ended
  BY DEF FinalTask, ended, failed
<1>6. /\ task.lifecycle_seq \in Nat
      /\ ended.lifecycle_seq \in Nat
      /\ failed.lifecycle_seq \in Nat
  BY <1>3, <1>4 DEF TaskState
<1>7. r # "Rejected" => r = "Accepted"
  BY DEF Results
<1> QED
  BY <1>1, <1>3, <1>4, <1>5, <1>6, <1>7 DEF TerminalStatus

-----------------------------------------------------------------------------
(* How an action changes tasks, in the three forms the actions share.        *)

\* Task t, free or owned by w, is leased to w while w holds no other lease.
LeaseStep(t, w, ts) ==
    /\ tasks' = [tasks EXCEPT ![t] = LeasedTask(tasks[t], w, ts)]
    /\ Leases(w) \subseteq {t}
    /\ \/ tasks[t].status = "Enqueued" /\ w \in WorkersOf[RunOf[t]]
       \/ tasks[t].leased_to = w
    /\ receipts' = receipts

\* Task t ends in the terminal state new, with its owner and attempt.
EndStep(t, new) ==
    /\ tasks' = [tasks EXCEPT ![t] = new]
    /\ tasks[t].status \in {"Enqueued", "Leased"}
    /\ new \in TaskState
    /\ new.status \in TerminalStatus
    /\ new.status \in {"Completed", "Failed"} => tasks[t].status = "Leased"
    /\ new.attempts = tasks[t].attempts
    /\ new.leased_to = tasks[t].leased_to
    /\ new.lifecycle_seq > tasks[t].lifecycle_seq
    /\ new.status = "Completed" =>
         receipts'[t].attempt = tasks[t].attempts /\ receipts'[t].result = "Accepted"
    /\ \A u \in Tasks \ {t} : receipts'[u] = receipts[u]

\* Task t becomes known.
EnqueueStep(t) ==
    /\ tasks[t].status = "Absent"
    /\ tasks' = [tasks EXCEPT ![t] = EnqueuedTask]
    /\ receipts' = receipts

QuietStep == tasks' = tasks /\ receipts' = receipts

TaskStep ==
    \/ QuietStep
    \/ \E t \in Tasks : EnqueueStep(t)
    \/ \E t \in Tasks, w \in Workers, ts \in Nat : LeaseStep(t, w, ts)
    \/ \E t \in Tasks, new \in TaskState : EndStep(t, new)

\* Every transaction of the ledger is one of the forms above.
LEMMA NextIsTaskStep ==
    ASSUME TypeOK, OwnershipShape, [LedgerNext]_ledger
    PROVE  TaskStep
<1> USE LedgerAssumption
<1>1. CASE \E t \in Tasks : Enqueue(t)
  BY <1>1 DEF Enqueue, TaskStep, EnqueueStep
<1>2. CASE \E w \in Workers, ts \in Times : Heartbeat(w, ts)
  BY <1>2 DEF Heartbeat, TaskStep, QuietStep
<1>3. CASE Start
  <2>1. PICK t \in Tasks, ts \in Times, k \in 1..StartRecords :
             \E w \in WorkersOf[RunOf[t]] : StartTaskIfEnqueued(t, w, ts, k)
    BY <1>3 DEF Start
  <2> PICK w \in WorkersOf[RunOf[t]] : StartTaskIfEnqueued(t, w, ts, k)
    BY <2>1
  <2>2. w \in Workers /\ ts \in Nat
    OBVIOUS
  <2>3. LeaseStep(t, w, ts)
    BY DEF StartTaskIfEnqueued, CanLease, LeaseStep
  <2> QED BY <2>2, <2>3 DEF TaskStep
<1>4. CASE Progress
  BY <1>4 DEF Progress, AppendEventIfLeased, TaskStep, QuietStep
<1>5. CASE MarkStale
  BY <1>5 DEF MarkStale, AppendEventIfLeaseUnchanged, TaskStep, QuietStep
<1>6. CASE FailExhausted
  <2>1. PICK t \in Tasks, w \in Workers :
             AppendFailedIfLeaseUnchanged(t, w, Version(t, w))
    BY <1>6 DEF FailExhausted
  <2> DEFINE new == TerminalTask(tasks[t], w, "Failed")
  <2>2. /\ tasks[t] \in TaskState
        /\ tasks[t].status = "Leased" /\ tasks[t].leased_to = w
        /\ tasks' = [tasks EXCEPT ![t] = new]
        /\ receipts' = receipts
    BY <2>1 DEF AppendFailedIfLeaseUnchanged, TypeOK
  <2>3. /\ new \in TaskState
        /\ new.status = "Failed"
        /\ new.attempts = tasks[t].attempts
        /\ new.leased_to = w
        /\ new.lifecycle_seq > tasks[t].lifecycle_seq
    <3>1. "Failed" \in TerminalStatus /\ w \in Workers \cup {NoWorker} /\ w # NoWorker
      BY DEF TerminalStatus
    <3> QED BY <2>2, <3>1, TerminalTaskType
  <2> HIDE DEF new
  <2>4. EndStep(t, new)
    BY <2>2, <2>3 DEF EndStep, TerminalStatus
  <2> QED BY <2>3, <2>4 DEF TaskStep
<1>7. CASE Finalize
  <2>1. PICK t \in Tasks, w \in Workers, o \in TerminalStatus, r \in Results :
             FinalizeTaskAttempt(t, w, tasks[t].attempts, o, r)
    BY <1>7 DEF Finalize
  <2> DEFINE new == FinalTask(tasks[t], w, o, r)
  <2>2. /\ tasks[t] \in TaskState
        /\ tasks[t].status = "Leased" /\ tasks[t].leased_to = w
        /\ tasks' = [tasks EXCEPT ![t] = new]
        /\ receipts'[t].attempt = tasks[t].attempts
        /\ receipts'[t].result = r
        /\ \A u \in Tasks \ {t} : receipts'[u] = receipts[u]
    BY <2>1 DEF FinalizeTaskAttempt, HoldsLease, TypeOK
  <2>3. /\ new \in TaskState
        /\ new.status \in TerminalStatus
        /\ new.attempts = tasks[t].attempts
        /\ new.leased_to = w
        /\ new.status = "Completed" => r = "Accepted"
        /\ new.lifecycle_seq > tasks[t].lifecycle_seq
    BY <2>2, FinalTaskType DEF TerminalStatus
  <2> HIDE DEF new
  <2>4. EndStep(t, new)
    BY <2>2, <2>3 DEF EndStep
  <2> QED BY <2>3, <2>4 DEF TaskStep
<1>8. CASE Restart
  <2>1. PICK t \in Tasks, w \in Workers, ts \in Times, k \in 1..RestartRecords :
             RestartTaskIfUnchanged(t, w, Version(t, w), ts, k)
    BY <1>8 DEF Restart
  <2>2. ts \in Nat
    OBVIOUS
  <2>3. LeaseStep(t, w, ts)
    BY <2>1 DEF RestartTaskIfUnchanged, LeaseStep
  <2> QED BY <2>2, <2>3 DEF TaskStep
<1>9. CASE Cancel
  <2>1. PICK t \in Tasks, x \in Workers \cup {NoWorker}, k \in 1..2 :
             CancelTaskIfActive(t, x, k)
    BY <1>9 DEF Cancel
  <2> DEFINE owner == tasks[t].leased_to
             new == TerminalTask(tasks[t], owner, "Cancelled")
  <2>2. tasks[t] \in TaskState /\ owner \in Workers \cup {NoWorker}
    BY DEF TypeOK, TaskState
  <2>3. /\ new \in TaskState
        /\ new.status = "Cancelled"
        /\ new.attempts = tasks[t].attempts
        /\ new.leased_to = owner
        /\ tasks[t].status # "Cancelled" => new.lifecycle_seq > tasks[t].lifecycle_seq
    <3>1. "Cancelled" \in TerminalStatus
      BY DEF TerminalStatus
    <3>2. new.leased_to = (IF owner = NoWorker THEN tasks[t].leased_to ELSE owner)
      BY <2>2, <3>1, TerminalTaskType
    <3> QED BY <2>2, <3>1, <3>2, TerminalTaskType
  <2>4. /\ tasks[t].status \in {"Enqueued", "Leased"}
        /\ receipts' = receipts
        /\ tasks' = tasks \/ tasks' = [tasks EXCEPT ![t] = new]
    BY <2>1 DEF CancelTaskIfActive
  <2> HIDE DEF new
  <2>5. CASE tasks' = tasks
    BY <2>4, <2>5 DEF TaskStep, QuietStep
  <2>6. CASE tasks' = [tasks EXCEPT ![t] = new]
    <3>1. EndStep(t, new)
      BY <2>3, <2>4, <2>6 DEF EndStep, TerminalStatus
    <3> QED BY <2>3, <3>1 DEF TaskStep
  <2> QED BY <2>4, <2>5, <2>6
<1>10. CASE Alert
  BY <1>10 DEF Alert, RecordFailedAttemptAlertOnce, TaskStep, QuietStep
<1>11. CASE UNCHANGED ledger
  BY <1>11 DEF TaskStep, QuietStep
<1> QED
  BY <1>1, <1>2, <1>3, <1>4, <1>5, <1>6, <1>7, <1>8, <1>9, <1>10, <1>11 DEF LedgerNext

-----------------------------------------------------------------------------
(* The inductive invariant.                                                  *)

LEMMA EnqueuedTaskType ==
    /\ EnqueuedTask \in TaskState
    /\ EnqueuedTask.status = "Enqueued"
    /\ EnqueuedTask.attempts = 0
    /\ EnqueuedTask.leased_to = NoWorker
    /\ EnqueuedTask.lifecycle_seq = 1
BY DEF EnqueuedTask, AbsentTask, TaskState, TaskStatus

LEMMA InitIInv == Init => IInv
<1> SUFFICES ASSUME Init PROVE IInv
  OBVIOUS
<1>1. AbsentTask \in TaskState /\ NoReceipt \in Receipt
  BY DEF AbsentTask, TaskState, TaskStatus, NoReceipt, Receipt, Results
<1>2. TypeOK
  BY <1>1 DEF Init, TypeOK
<1>3. OwnershipShape
  BY DEF Init, OwnershipShape, AbsentTask
<1>4. OneLeasePerWorker
  BY DEF Init, OneLeasePerWorker, AbsentTask
<1> QED BY <1>2, <1>3, <1>4 DEF IInv

LEMMA TasksTypeStep ==
    ASSUME TypeOK, TaskStep
    PROVE  tasks' \in [Tasks -> TaskState]
<1>1. CASE QuietStep
  BY <1>1 DEF QuietStep, TypeOK
<1>2. CASE \E t \in Tasks : EnqueueStep(t)
  BY <1>2, EnqueuedTaskType DEF EnqueueStep, TypeOK
<1>3. ASSUME NEW t \in Tasks, NEW w \in Workers, NEW ts \in Nat, LeaseStep(t, w, ts)
      PROVE  tasks' \in [Tasks -> TaskState]
  <2>1. LeasedTask(tasks[t], w, ts) \in TaskState
    BY LeasedTaskType DEF TypeOK
  <2> QED BY <1>3, <2>1 DEF LeaseStep, TypeOK
<1>4. CASE \E t \in Tasks, new \in TaskState : EndStep(t, new)
  BY <1>4 DEF EndStep, TypeOK
<1> QED BY <1>1, <1>2, <1>3, <1>4, TaskStep DEF TaskStep

LEMMA TypeStep ==
    ASSUME TypeOK, OwnershipShape, [LedgerNext]_ledger
    PROVE  TypeOK'
<1> USE LedgerAssumption
<1>1. tasks' \in [Tasks -> TaskState]
  BY NextIsTaskStep, TasksTypeStep
<1>2. ASSUME NEW w \in Workers, NEW t \in Tasks, NEW n \in Nat
      PROVE  Bump(w, t, n) \in [Workers \X Tasks -> Nat]
  BY DEF Bump, TypeOK
<1>3. ASSUME NEW w \in Workers, NEW ts \in Times
      PROVE  Beat(w, ts) \in [Workers -> Nat]
  BY DEF Beat, TypeOK
<1>4. CASE \E t \in Tasks : Enqueue(t)
  BY <1>1, <1>4 DEF Enqueue, TypeOK
<1>5. CASE \E w \in Workers, ts \in Times : Heartbeat(w, ts)
  BY <1>1, <1>3, <1>5 DEF Heartbeat, TypeOK
<1>6. CASE Start
  <2>1. PICK t \in Tasks, ts \in Times, k \in 1..StartRecords :
             \E w \in WorkersOf[RunOf[t]] : StartTaskIfEnqueued(t, w, ts, k)
    BY <1>6 DEF Start
  <2>2. PICK w \in Workers : StartTaskIfEnqueued(t, w, ts, k)
    BY <2>1
  <2>3. EventsIn(k, StartRecords) \in Nat
    BY DEF EventsIn, StartRecords
  <2> QED BY <1>1, <1>2, <1>3, <2>2, <2>3 DEF StartTaskIfEnqueued, TypeOK
<1>7. CASE Progress
  <2>1. PICK t \in Tasks, w \in Workers :
             AppendEventIfLeased(t, w, tasks[t].attempts)
    BY <1>7 DEF Progress
  <2> QED BY <1>1, <1>2, <2>1 DEF AppendEventIfLeased, TypeOK
<1>8. CASE MarkStale
  <2>1. PICK t \in Tasks, w \in Workers :
             AppendEventIfLeaseUnchanged(t, w, Version(t, w))
    BY <1>8 DEF MarkStale
  <2> QED BY <1>1, <1>2, <2>1 DEF AppendEventIfLeaseUnchanged, TypeOK
<1>9. CASE FailExhausted
  <2>1. PICK t \in Tasks, w \in Workers :
             AppendFailedIfLeaseUnchanged(t, w, Version(t, w))
    BY <1>9 DEF FailExhausted
  <2>2. latest_seq' \in [Workers \X Tasks -> Nat]
    BY <1>2, <2>1 DEF AppendFailedIfLeaseUnchanged
  <2> QED BY <1>1, <2>1, <2>2 DEF AppendFailedIfLeaseUnchanged, TypeOK
<1>10. CASE Finalize
  <2>1. PICK t \in Tasks, w \in Workers, o \in TerminalStatus, r \in Results :
             FinalizeTaskAttempt(t, w, tasks[t].attempts, o, r)
    BY <1>10 DEF Finalize
  <2>2. [attempt |-> tasks[t].attempts, terminal_seq |-> LatestSeq(w, t) + 1,
         result |-> r] \in Receipt
    BY DEF Receipt, TypeOK, TaskState, LatestSeq
  <2>3. latest_seq' \in [Workers \X Tasks -> Nat]
    BY <1>2, <2>1 DEF FinalizeTaskAttempt
  <2>4. receipts' \in [Tasks -> Receipt]
    BY <2>1, <2>2 DEF FinalizeTaskAttempt, TypeOK
  <2> QED BY <1>1, <2>1, <2>3, <2>4 DEF FinalizeTaskAttempt, TypeOK
<1>11. CASE Restart
  <2>1. PICK t \in Tasks, w \in Workers, ts \in Times, k \in 1..RestartRecords :
             RestartTaskIfUnchanged(t, w, Version(t, w), ts, k)
    BY <1>11 DEF Restart
  <2>2. EventsIn(k, RestartRecords) \in Nat
    BY DEF EventsIn, RestartRecords
  <2> QED BY <1>1, <1>2, <1>3, <2>1, <2>2 DEF RestartTaskIfUnchanged, TypeOK
<1>12. CASE Cancel
  <2>1. PICK t \in Tasks, x \in Workers \cup {NoWorker}, k \in 1..2 :
             CancelTaskIfActive(t, x, k)
    BY <1>12 DEF Cancel
  <2>2. tasks[t].leased_to \in Workers \cup {NoWorker}
    BY DEF TypeOK, TaskState
  <2>3. latest_seq' \in [Workers \X Tasks -> Nat]
    BY <1>2, <2>1, <2>2 DEF CancelTaskIfActive, TypeOK
  <2> QED BY <1>1, <2>1, <2>3 DEF CancelTaskIfActive, TypeOK
<1>13. CASE Alert
  <2>1. PICK t \in Tasks, w \in Workers, c \in Channels :
             RecordFailedAttemptAlertOnce(t, w, tasks[t].attempts, c)
    BY <1>13 DEF Alert
  <2>2. tasks[t].attempts \in Nat
    BY DEF TypeOK, TaskState
  <2>3. latest_seq' \in [Workers \X Tasks -> Nat]
    BY <1>2, <2>1 DEF RecordFailedAttemptAlertOnce
  <2>4. <<t, tasks[t].attempts, c>> \in Tasks \X Nat \X Channels
    BY <2>2
  <2>5. alerts' \subseteq Tasks \X Nat \X Channels
    BY <2>1, <2>4 DEF RecordFailedAttemptAlertOnce, TypeOK
  <2> QED BY <1>1, <2>1, <2>3, <2>5 DEF RecordFailedAttemptAlertOnce, TypeOK
<1>14. CASE UNCHANGED ledger
  BY <1>14 DEF TypeOK
<1> QED
  BY <1>4, <1>5, <1>6, <1>7, <1>8, <1>9, <1>10, <1>11, <1>12, <1>13, <1>14 DEF LedgerNext

LEMMA OwnershipStep ==
    ASSUME TypeOK, OwnershipShape, TaskStep
    PROVE  OwnershipShape'
<1> USE LedgerAssumption
<1>1. CASE QuietStep
  BY <1>1 DEF QuietStep, OwnershipShape
<1>2. ASSUME NEW t \in Tasks, EnqueueStep(t)
      PROVE  OwnershipShape'
  <2>1. tasks'[t] = EnqueuedTask /\ \A u \in Tasks \ {t} : tasks'[u] = tasks[u]
    BY <1>2 DEF EnqueueStep, TypeOK
  <2> QED BY <2>1, EnqueuedTaskType DEF OwnershipShape
<1>3. ASSUME NEW t \in Tasks, NEW w \in Workers, NEW ts \in Nat, LeaseStep(t, w, ts)
      PROVE  OwnershipShape'
  <2>1. /\ tasks'[t].status = "Leased"
        /\ tasks'[t].leased_to = w
        /\ \A u \in Tasks \ {t} : tasks'[u] = tasks[u]
    BY <1>3, LeasedTaskType DEF LeaseStep, TypeOK
  <2>2. w # NoWorker /\ w \in WorkersOf[RunOf[t]]
    BY <1>3 DEF LeaseStep, OwnershipShape
  <2> QED BY <2>1, <2>2 DEF OwnershipShape
<1>4. ASSUME NEW t \in Tasks, NEW new \in TaskState, EndStep(t, new)
      PROVE  OwnershipShape'
  <2>1. tasks'[t] = new /\ \A u \in Tasks \ {t} : tasks'[u] = tasks[u]
    BY <1>4 DEF EndStep, TypeOK
  <2> QED BY <1>4, <2>1 DEF EndStep, OwnershipShape, TerminalStatus
<1> QED BY <1>1, <1>2, <1>3, <1>4 DEF TaskStep

LEMMA OneLeaseStep ==
    ASSUME TypeOK, OwnershipShape, OneLeasePerWorker, TaskStep
    PROVE  OneLeasePerWorker'
<1> USE LedgerAssumption
<1>1. CASE QuietStep
  BY <1>1 DEF QuietStep, OneLeasePerWorker
<1>2. ASSUME NEW t \in Tasks, EnqueueStep(t)
      PROVE  OneLeasePerWorker'
  <2>1. tasks'[t] = EnqueuedTask /\ \A u \in Tasks \ {t} : tasks'[u] = tasks[u]
    BY <1>2 DEF EnqueueStep, TypeOK
  <2> QED BY <2>1, EnqueuedTaskType DEF OneLeasePerWorker
<1>3. ASSUME NEW t \in Tasks, NEW w \in Workers, NEW ts \in Nat, LeaseStep(t, w, ts)
      PROVE  OneLeasePerWorker'
  <2>1. /\ tasks'[t].leased_to = w
        /\ \A u \in Tasks \ {t} : tasks'[u] = tasks[u]
    BY <1>3, LeasedTaskType DEF LeaseStep, TypeOK
  <2>2. \A u \in Tasks \ {t} : ~(tasks[u].status = "Leased" /\ tasks[u].leased_to = w)
    BY <1>3 DEF LeaseStep, Leases
  <2> QED BY <2>1, <2>2 DEF OneLeasePerWorker
<1>4. ASSUME NEW t \in Tasks, NEW new \in TaskState, EndStep(t, new)
      PROVE  OneLeasePerWorker'
  <2>1. tasks'[t] = new /\ \A u \in Tasks \ {t} : tasks'[u] = tasks[u]
    BY <1>4 DEF EndStep, TypeOK
  <2>2. new.status # "Leased"
    BY <1>4 DEF EndStep, TerminalStatus
  <2> QED BY <2>1, <2>2 DEF OneLeasePerWorker
<1> QED BY <1>1, <1>2, <1>3, <1>4 DEF TaskStep

\* The inductive invariant holds throughout.
LEMMA IInvHolds == LedgerSpec => []IInv
<1>1. IInv /\ [LedgerNext]_ledger => IInv'
  BY NextIsTaskStep, TypeStep, OwnershipStep, OneLeaseStep DEF IInv
<1> QED BY InitIInv, <1>1, PTL DEF LedgerSpec

\* Every transaction of every client keeps the types of the replayed state.
THEOREM TypeCorrect == LedgerSpec => []TypeOK
<1>1. IInv => TypeOK
  BY DEF IInv
<1> QED BY IInvHolds, <1>1, PTL

\* A logical worker never holds two live leases, for any number of runs, tasks
\* and workers and however leases, restarts and torn writes interleave.
THEOREM LeaseExclusion == LedgerSpec => []OneLeasePerWorker
<1>1. IInv => OneLeasePerWorker
  BY DEF IInv
<1> QED BY IInvHolds, <1>1, PTL

\* A run never exceeds its capacity although a restart does not check it: the
\* leased tasks of a run inject into the run's workers.
THEOREM CapacityRespected == LedgerSpec => []RunCapacity
<1>1. ASSUME IInv, NEW r \in Runs
      PROVE  Cardinality(ActiveOf(r)) <= MaxActive[r]
  <2> USE LedgerAssumption
  <2> DEFINE owner == [t \in ActiveOf(r) |-> tasks[t].leased_to]
  <2>1. \A t \in ActiveOf(r) : tasks[t].leased_to \in WorkersOf[r]
    BY <1>1 DEF IInv, OwnershipShape, ActiveOf
  <2>2. owner \in [ActiveOf(r) -> WorkersOf[r]]
    BY <2>1
  <2>3. \A t1, t2 \in ActiveOf(r) : owner[t1] = owner[t2] => t1 = t2
    BY <1>1 DEF IInv, OneLeasePerWorker, ActiveOf
  <2>4. owner \in Injection(ActiveOf(r), WorkersOf[r])
    BY <2>2, <2>3 DEF Injection, IsInjective
  <2>5. IsFiniteSet(WorkersOf[r])
    BY FS_Subset
  <2>6. /\ IsFiniteSet(ActiveOf(r))
        /\ Cardinality(ActiveOf(r)) <= Cardinality(WorkersOf[r])
    BY <2>4, <2>5, FS_Injection
  <2>7. /\ Cardinality(ActiveOf(r)) \in Nat
        /\ Cardinality(WorkersOf[r]) \in Nat
        /\ MaxActive[r] \in Nat
        /\ Cardinality(WorkersOf[r]) <= MaxActive[r]
    BY <2>5, <2>6, FS_CardinalityType
  <2> QED BY <2>6, <2>7
<1>2. IInv => RunCapacity
  BY <1>1 DEF RunCapacity
<1> QED BY IInvHolds, <1>2, PTL

\* A Completed status is never published without the accepted receipt of the
\* attempt that completed.
THEOREM CompletionExplained == LedgerSpec => []CompletedHasReceipt
<1>1. Init => CompletedHasReceipt
  BY DEF Init, CompletedHasReceipt, AbsentTask
<1>2. ASSUME IInv, CompletedHasReceipt, [LedgerNext]_ledger
      PROVE  CompletedHasReceipt'
  <2>1. TypeOK /\ TaskStep
    BY <1>2, NextIsTaskStep DEF IInv
  <2>2. CASE QuietStep
    BY <1>2, <2>2 DEF QuietStep, CompletedHasReceipt
  <2>3. ASSUME NEW t \in Tasks, EnqueueStep(t)
        PROVE  CompletedHasReceipt'
    <3>1. tasks'[t] = EnqueuedTask /\ \A u \in Tasks \ {t} : tasks'[u] = tasks[u]
      BY <2>1, <2>3 DEF EnqueueStep, TypeOK
    <3> QED BY <1>2, <2>3, <3>1, EnqueuedTaskType DEF EnqueueStep, CompletedHasReceipt
  <2>4. ASSUME NEW t \in Tasks, NEW w \in Workers, NEW ts \in Nat, LeaseStep(t, w, ts)
        PROVE  CompletedHasReceipt'
    <3>1. tasks'[t].status = "Leased" /\ \A u \in Tasks \ {t} : tasks'[u] = tasks[u]
      BY <2>1, <2>4, LeasedTaskType DEF LeaseStep, TypeOK
    <3> QED BY <1>2, <2>4, <3>1 DEF LeaseStep, CompletedHasReceipt
  <2>5. ASSUME NEW t \in Tasks, NEW new \in TaskState, EndStep(t, new)
        PROVE  CompletedHasReceipt'
    <3>1. tasks'[t] = new /\ \A u \in Tasks \ {t} : tasks'[u] = tasks[u]
      BY <2>1, <2>5 DEF EndStep, TypeOK
    <3> QED BY <1>2, <2>5, <3>1 DEF EndStep, CompletedHasReceipt
  <2> QED BY <2>1, <2>2, <2>3, <2>4, <2>5 DEF TaskStep
<1> QED BY IInvHolds, <1>1, <1>2, PTL DEF LedgerSpec

\* No late completion, cancellation, failure or stream event rewrites a
\* finished task: only a restart leaves it, into the next attempt of its owner.
THEOREM FinishedIsFinal == LedgerSpec => FinishedOnlyRestarts
<1> DEFINE Step(t) ==
        /\ tasks[t].status \in TerminalStatus
        /\ tasks'[t] # tasks[t]
        => /\ tasks'[t].status = "Leased"
           /\ tasks'[t].attempts = tasks[t].attempts + 1
           /\ tasks'[t].leased_to = tasks[t].leased_to
<1>1. ASSUME IInv, [LedgerNext]_ledger, NEW t \in Tasks
      PROVE  Step(t)
  <2>1. TypeOK /\ TaskStep
    BY <1>1, NextIsTaskStep DEF IInv
  <2>2. CASE QuietStep
    BY <2>2 DEF QuietStep
  <2>3. ASSUME NEW u \in Tasks, EnqueueStep(u)
        PROVE  Step(t)
    BY <2>1, <2>3 DEF EnqueueStep, TypeOK, TerminalStatus
  <2>4. ASSUME NEW u \in Tasks, NEW w \in Workers, NEW ts \in Nat, LeaseStep(u, w, ts)
        PROVE  Step(t)
    <3>1. CASE u # t
      BY <2>1, <2>4, <3>1 DEF LeaseStep, TypeOK
    <3>2. CASE u = t
      <4>1. /\ tasks'[t].status = "Leased"
            /\ tasks'[t].leased_to = w
            /\ tasks'[t].attempts = tasks[t].attempts + 1
        BY <2>1, <2>4, <3>2, LeasedTaskType DEF LeaseStep, TypeOK
      <4> QED BY <2>4, <3>2, <4>1 DEF LeaseStep, TerminalStatus
    <3> QED BY <3>1, <3>2
  <2>5. ASSUME NEW u \in Tasks, NEW new \in TaskState, EndStep(u, new)
        PROVE  Step(t)
    BY <2>1, <2>5 DEF EndStep, TypeOK, TerminalStatus
  <2> QED BY <2>1, <2>2, <2>3, <2>4, <2>5 DEF TaskStep
<1>2. IInv /\ [LedgerNext]_ledger => [\A t \in Tasks : Step(t)]_ledger
  BY <1>1
<1> QED BY IInvHolds, <1>2, PTL DEF LedgerSpec, FinishedOnlyRestarts

\* Two different lifecycle states of a task never share an owner sequence.
THEOREM LifecycleIsMonotone == LedgerSpec => LifecycleAdvances
<1> DEFINE Step(t) ==
        /\ tasks'[t].lifecycle_seq >= tasks[t].lifecycle_seq
        /\ tasks'[t].status # tasks[t].status
             => tasks'[t].lifecycle_seq > tasks[t].lifecycle_seq
<1>1. ASSUME IInv, [LedgerNext]_ledger, NEW t \in Tasks
      PROVE  Step(t)
  <2>1. /\ TypeOK /\ TaskStep /\ OwnershipShape
        /\ tasks[t].lifecycle_seq \in Nat
    BY <1>1, NextIsTaskStep DEF IInv, TypeOK, TaskState
  <2>2. CASE QuietStep
    BY <2>1, <2>2 DEF QuietStep
  <2>3. ASSUME NEW u \in Tasks, EnqueueStep(u)
        PROVE  Step(t)
    <3>1. CASE u # t
      BY <2>1, <2>3, <3>1 DEF EnqueueStep, TypeOK
    <3>2. CASE u = t
      <4>1. tasks'[t].lifecycle_seq = 1 /\ tasks[t].lifecycle_seq = 0
        BY <2>1, <2>3, <3>2, EnqueuedTaskType DEF EnqueueStep, TypeOK, OwnershipShape
      <4> QED BY <4>1
    <3> QED BY <3>1, <3>2
  <2>4. ASSUME NEW u \in Tasks, NEW w \in Workers, NEW ts \in Nat, LeaseStep(u, w, ts)
        PROVE  Step(t)
    <3>1. CASE u # t
      BY <2>1, <2>4, <3>1 DEF LeaseStep, TypeOK
    <3>2. CASE u = t
      BY <2>1, <2>4, <3>2, LeasedTaskType DEF LeaseStep, TypeOK
    <3> QED BY <3>1, <3>2
  <2>5. ASSUME NEW u \in Tasks, NEW new \in TaskState, EndStep(u, new)
        PROVE  Step(t)
    <3>1. CASE u # t
      BY <2>1, <2>5, <3>1 DEF EndStep, TypeOK
    <3>2. CASE u = t
      <4>1. tasks'[t] = new /\ new.lifecycle_seq > tasks[t].lifecycle_seq
        BY <2>1, <2>5, <3>2 DEF EndStep, TypeOK
      <4>2. new.lifecycle_seq \in Nat
        BY DEF TaskState
      <4> QED BY <2>1, <4>1, <4>2
    <3> QED BY <3>1, <3>2
  <2> QED BY <2>1, <2>2, <2>3, <2>4, <2>5 DEF TaskStep
<1>2. IInv /\ [LedgerNext]_ledger => [\A t \in Tasks : Step(t)]_ledger
  BY <1>1
<1> QED BY IInvHolds, <1>2, PTL DEF LedgerSpec, LifecycleAdvances

-----------------------------------------------------------------------------
(* The event sequences, the receipts and the alerts.                         *)

\* A task keeps the owner it once had, and its attempts never go back; a Failed
\* task stays Failed within its attempt.
LEMMA OwnerStable ==
    ASSUME TypeOK, OwnershipShape, TaskStep, NEW t \in Tasks
    PROVE  /\ tasks[t].leased_to # NoWorker => tasks'[t].leased_to = tasks[t].leased_to
           /\ tasks'[t].attempts >= tasks[t].attempts
           /\ tasks[t].status = "Failed" =>
                tasks'[t].status = "Failed" \/ tasks'[t].attempts > tasks[t].attempts
<1>0. tasks[t].attempts \in Nat /\ tasks'[t].attempts \in Nat
  BY TasksTypeStep DEF TypeOK, TaskState
<1>1. CASE tasks'[t] = tasks[t]
  BY <1>0, <1>1
<1>2. CASE EnqueueStep(t)
  <2>1. tasks'[t] = EnqueuedTask /\ tasks[t].status = "Absent"
    BY <1>2 DEF EnqueueStep, TypeOK
  <2>2. tasks[t].leased_to = NoWorker /\ tasks[t].attempts = 0
    BY <2>1 DEF OwnershipShape
  <2> QED BY <2>1, <2>2, EnqueuedTaskType
<1>3. ASSUME NEW w \in Workers, NEW ts \in Nat, LeaseStep(t, w, ts)
      PROVE  /\ tasks[t].leased_to # NoWorker => tasks'[t].leased_to = tasks[t].leased_to
             /\ tasks'[t].attempts > tasks[t].attempts
  <2>1. tasks'[t].leased_to = w /\ tasks'[t].attempts = tasks[t].attempts + 1
    BY <1>3, LeasedTaskType DEF LeaseStep, TypeOK
  <2>2. tasks[t].leased_to # NoWorker => tasks[t].leased_to = w
    BY <1>3 DEF LeaseStep, OwnershipShape
  <2> QED BY <1>0, <2>1, <2>2
<1>4. ASSUME NEW new \in TaskState, EndStep(t, new)
      PROVE  /\ tasks'[t].leased_to = tasks[t].leased_to
             /\ tasks'[t].attempts = tasks[t].attempts
             /\ tasks[t].status # "Failed"
  BY <1>4 DEF EndStep, TypeOK
<1>5. \/ tasks'[t] = tasks[t]
      \/ EnqueueStep(t)
      \/ \E w \in Workers, ts \in Nat : LeaseStep(t, w, ts)
      \/ \E new \in TaskState : EndStep(t, new)
  <2>1. ASSUME NEW u \in Tasks, u # t, NEW new, tasks' = [tasks EXCEPT ![u] = new]
        PROVE  tasks'[t] = tasks[t]
    BY <2>1 DEF TypeOK
  <2>2. CASE QuietStep
    BY <2>2 DEF QuietStep
  <2>3. ASSUME NEW u \in Tasks, EnqueueStep(u)
        PROVE  tasks'[t] = tasks[t] \/ EnqueueStep(t)
    BY <2>1, <2>3 DEF EnqueueStep
  <2>4. ASSUME NEW u \in Tasks, NEW w \in Workers, NEW ts \in Nat, LeaseStep(u, w, ts)
        PROVE  tasks'[t] = tasks[t] \/ LeaseStep(t, w, ts)
    BY <2>1, <2>4 DEF LeaseStep
  <2>5. ASSUME NEW u \in Tasks, NEW new \in TaskState, EndStep(u, new)
        PROVE  tasks'[t] = tasks[t] \/ EndStep(t, new)
    BY <2>1, <2>5 DEF EndStep
  <2> QED BY <2>2, <2>3, <2>4, <2>5 DEF TaskStep
<1> QED BY <1>0, <1>1, <1>2, <1>3, <1>4, <1>5

\* A transaction that appends events appends them for the owner of one task.
AppendsFor(t, w, n) == latest_seq' = Bump(w, t, n) /\ tasks'[t].leased_to = w

LEMMA SeqStep ==
    ASSUME TypeOK, OwnershipShape, TaskStep, [LedgerNext]_ledger
    PROVE  \/ latest_seq' = latest_seq
           \/ \E t \in Tasks, w \in Workers, n \in Nat : AppendsFor(t, w, n)
<1> USE LedgerAssumption
<1>1. ASSUME NEW t \in Tasks, NEW w \in Workers, tasks[t].leased_to = w
      PROVE  tasks'[t].leased_to = w
  BY <1>1, OwnerStable
<1>2. ASSUME NEW t \in Tasks, NEW w \in Workers, NEW ts \in Nat,
             tasks' = [tasks EXCEPT ![t] = LeasedTask(@, w, ts)]
      PROVE  tasks'[t].leased_to = w
  BY <1>2, LeasedTaskType DEF TypeOK
<1>3. CASE \/ \E t \in Tasks : Enqueue(t)
           \/ \E w \in Workers, ts \in Times : Heartbeat(w, ts)
           \/ UNCHANGED ledger
  BY <1>3 DEF Enqueue, Heartbeat
<1>4. CASE Start
  <2>1. PICK t \in Tasks, ts \in Times, k \in 1..StartRecords :
             \E w \in WorkersOf[RunOf[t]] : StartTaskIfEnqueued(t, w, ts, k)
    BY <1>4 DEF Start
  <2>2. PICK w \in Workers : StartTaskIfEnqueued(t, w, ts, k)
    BY <2>1
  <2>3. EventsIn(k, StartRecords) \in Nat
    BY DEF EventsIn, StartRecords
  <2>4. AppendsFor(t, w, EventsIn(k, StartRecords))
    BY <1>2, <2>2 DEF StartTaskIfEnqueued, AppendsFor
  <2> QED BY <2>3, <2>4
<1>5. CASE Progress
  <2>1. PICK t \in Tasks, w \in Workers : AppendEventIfLeased(t, w, tasks[t].attempts)
    BY <1>5 DEF Progress
  <2>2. AppendsFor(t, w, 1)
    BY <1>1, <2>1 DEF AppendEventIfLeased, HoldsLease, AppendsFor
  <2> QED BY <2>2
<1>6. CASE MarkStale
  <2>1. PICK t \in Tasks, w \in Workers : AppendEventIfLeaseUnchanged(t, w, Version(t, w))
    BY <1>6 DEF MarkStale
  <2>2. AppendsFor(t, w, 1)
    BY <1>1, <2>1 DEF AppendEventIfLeaseUnchanged, AppendsFor
  <2> QED BY <2>2
<1>7. CASE FailExhausted
  <2>1. PICK t \in Tasks, w \in Workers : AppendFailedIfLeaseUnchanged(t, w, Version(t, w))
    BY <1>7 DEF FailExhausted
  <2>2. AppendsFor(t, w, 1)
    BY <1>1, <2>1 DEF AppendFailedIfLeaseUnchanged, AppendsFor
  <2> QED BY <2>2
<1>8. CASE Finalize
  <2>1. PICK t \in Tasks, w \in Workers, o \in TerminalStatus, r \in Results :
             FinalizeTaskAttempt(t, w, tasks[t].attempts, o, r)
    BY <1>8 DEF Finalize
  <2>2. AppendsFor(t, w, 1)
    BY <1>1, <2>1 DEF FinalizeTaskAttempt, HoldsLease, AppendsFor
  <2> QED BY <2>2
<1>9. CASE Restart
  <2>1. PICK t \in Tasks, w \in Workers, ts \in Times, k \in 1..RestartRecords :
             RestartTaskIfUnchanged(t, w, Version(t, w), ts, k)
    BY <1>9 DEF Restart
  <2>2. EventsIn(k, RestartRecords) \in Nat
    BY DEF EventsIn, RestartRecords
  <2>3. AppendsFor(t, w, EventsIn(k, RestartRecords))
    BY <1>1, <2>1 DEF RestartTaskIfUnchanged, AppendsFor
  <2> QED BY <2>2, <2>3
<1>10. CASE Cancel
  <2>1. PICK t \in Tasks, x \in Workers \cup {NoWorker}, k \in 1..2 : CancelTaskIfActive(t, x, k)
    BY <1>10 DEF Cancel
  <2>2. tasks[t].leased_to \in Workers \cup {NoWorker}
    BY DEF TypeOK, TaskState
  <2>3. CASE tasks[t].leased_to = NoWorker
    BY <2>1, <2>3 DEF CancelTaskIfActive
  <2>4. CASE tasks[t].leased_to # NoWorker
    <3>1. AppendsFor(t, tasks[t].leased_to, k)
      BY <1>1, <2>1, <2>2, <2>4 DEF CancelTaskIfActive, AppendsFor
    <3> QED BY <2>2, <2>4, <3>1
  <2> QED BY <2>3, <2>4
<1>11. CASE Alert
  <2>1. PICK t \in Tasks, w \in Workers, c \in Channels :
             RecordFailedAttemptAlertOnce(t, w, tasks[t].attempts, c)
    BY <1>11 DEF Alert
  <2>2. AppendsFor(t, w, 1)
    BY <1>1, <2>1 DEF RecordFailedAttemptAlertOnce, AppendsFor
  <2> QED BY <2>2
<1> QED
  BY <1>3, <1>4, <1>5, <1>6, <1>7, <1>8, <1>9, <1>10, <1>11 DEF LedgerNext

\* What that does to one sequence.
LEMMA SeqFacts ==
    ASSUME TypeOK, OwnershipShape, TaskStep, [LedgerNext]_ledger,
           NEW t \in Tasks, NEW w \in Workers
    PROVE  /\ LatestSeq(w, t) \in Nat /\ LatestSeq(w, t)' \in Nat
           /\ LatestSeq(w, t)' >= LatestSeq(w, t)
           /\ LatestSeq(w, t)' > LatestSeq(w, t) => tasks'[t].leased_to = w
<1>1. latest_seq \in [Workers \X Tasks -> Nat] /\ <<w, t>> \in Workers \X Tasks
  BY DEF TypeOK
<1>2. CASE latest_seq' = latest_seq
  BY <1>1, <1>2 DEF LatestSeq
<1>3. ASSUME NEW u \in Tasks, NEW v \in Workers, NEW n \in Nat, AppendsFor(u, v, n)
      PROVE  /\ LatestSeq(w, t) \in Nat /\ LatestSeq(w, t)' \in Nat
             /\ LatestSeq(w, t)' >= LatestSeq(w, t)
             /\ LatestSeq(w, t)' > LatestSeq(w, t) => tasks'[t].leased_to = w
  <2>1. latest_seq' = [latest_seq EXCEPT ![<<v, u>>] = @ + n] /\ tasks'[u].leased_to = v
    BY <1>3 DEF AppendsFor, Bump
  <2>2. CASE <<w, t>> = <<v, u>>
    BY <1>1, <2>1, <2>2 DEF LatestSeq
  <2>3. CASE <<w, t>> # <<v, u>>
    BY <1>1, <2>1, <2>3 DEF LatestSeq
  <2> QED BY <2>2, <2>3
<1> QED BY <1>2, <1>3, SeqStep

\* The events of a task belong to the worker that owns it, whoever appends
\* them: the sequence the fenced appends compare is a version of the task.
THEOREM EventsAreOwned == LedgerSpec => []EventsBelongToOwner
<1>1. Init => EventsBelongToOwner
  BY DEF Init, EventsBelongToOwner, LatestSeq
<1>2. ASSUME IInv, EventsBelongToOwner, [LedgerNext]_ledger
      PROVE  EventsBelongToOwner'
  <2>1. TypeOK /\ OwnershipShape /\ TaskStep
    BY <1>2, NextIsTaskStep DEF IInv
  <2> SUFFICES ASSUME NEW t \in Tasks, NEW w \in Workers, LatestSeq(w, t)' > 0
               PROVE  tasks'[t].leased_to = w
    BY DEF EventsBelongToOwner
  <2>2. CASE LatestSeq(w, t)' > LatestSeq(w, t)
    BY <1>2, <2>1, <2>2, SeqFacts
  <2>3. CASE LatestSeq(w, t)' = LatestSeq(w, t)
    <3>1. tasks[t].leased_to = w
      BY <1>2, <2>3 DEF EventsBelongToOwner
    <3> QED BY <2>1, <3>1, OwnerStable, LedgerAssumption
  <2>4. /\ LatestSeq(w, t) \in Nat /\ LatestSeq(w, t)' \in Nat
        /\ LatestSeq(w, t)' >= LatestSeq(w, t)
    BY <1>2, <2>1, SeqFacts
  <2> QED BY <2>2, <2>3, <2>4
<1> QED BY IInvHolds, <1>1, <1>2, PTL DEF LedgerSpec

\* A receipt never runs ahead of the ledger: finalize writes it with the
\* terminal event it names, and nothing takes the attempt or the event back.
THEOREM ReceiptsAreBacked == LedgerSpec => []ReceiptWithinHistory
<1>1. Init => ReceiptWithinHistory
  BY DEF Init, ReceiptWithinHistory, NoReceipt
<1>2. ASSUME IInv, ReceiptWithinHistory, [LedgerNext]_ledger
      PROVE  ReceiptWithinHistory'
  <2>1. TypeOK /\ OwnershipShape /\ TaskStep /\ TypeOK'
    BY <1>2, NextIsTaskStep, TypeStep DEF IInv
  <2> SUFFICES ASSUME NEW t \in Tasks, receipts'[t].attempt > 0
               PROVE  /\ receipts'[t].attempt <= tasks'[t].attempts
                      /\ tasks'[t].leased_to # NoWorker
                      /\ receipts'[t].terminal_seq <= LatestSeq(tasks[t].leased_to, t)'
    BY DEF ReceiptWithinHistory
  <2>2. /\ tasks[t].attempts \in Nat /\ tasks'[t].attempts \in Nat
        /\ receipts[t].attempt \in Nat /\ receipts[t].terminal_seq \in Nat
        /\ tasks[t].leased_to \in Workers \cup {NoWorker}
    BY <2>1 DEF TypeOK, TaskState, Receipt
  <2>3. ASSUME receipts'[t] = receipts[t]
        PROVE  /\ receipts'[t].attempt <= tasks'[t].attempts
               /\ tasks'[t].leased_to # NoWorker
               /\ receipts'[t].terminal_seq <= LatestSeq(tasks[t].leased_to, t)'
    <3>1. /\ receipts[t].attempt <= tasks[t].attempts
          /\ tasks[t].leased_to # NoWorker
          /\ receipts[t].terminal_seq <= LatestSeq(tasks[t].leased_to, t)
      BY <1>2, <2>3 DEF ReceiptWithinHistory
    <3>2. /\ tasks'[t].leased_to = tasks[t].leased_to
          /\ tasks'[t].attempts >= tasks[t].attempts
      BY <2>1, <3>1, OwnerStable
    <3> DEFINE w == tasks[t].leased_to
    <3>3. w \in Workers
      BY <2>2, <3>1
    <3>4. latest_seq[<<w, t>>] \in Nat /\ latest_seq'[<<w, t>>] \in Nat
          /\ latest_seq'[<<w, t>>] >= latest_seq[<<w, t>>]
      <4> HIDE DEF w
      <4> QED BY <1>2, <2>1, <3>3, SeqFacts DEF LatestSeq
    <3> QED BY <2>2, <2>3, <3>1, <3>2, <3>4 DEF LatestSeq
  <2>4. ASSUME NEW w \in Workers, NEW o \in TerminalStatus, NEW r \in Results,
               FinalizeTaskAttempt(t, w, tasks[t].attempts, o, r)
        PROVE  /\ receipts'[t].attempt <= tasks'[t].attempts
               /\ tasks'[t].leased_to # NoWorker
               /\ receipts'[t].terminal_seq <= LatestSeq(tasks[t].leased_to, t)'
    <3>1. /\ tasks[t].leased_to = w /\ latest_seq' = [latest_seq EXCEPT ![<<w, t>>] = @ + 1]
          /\ receipts'[t].attempt = tasks[t].attempts
          /\ receipts'[t].terminal_seq = latest_seq[<<w, t>>] + 1
      BY <2>1, <2>4 DEF FinalizeTaskAttempt, HoldsLease, TypeOK, Bump, LatestSeq
    <3>2. tasks'[t].leased_to = w /\ tasks'[t].attempts >= tasks[t].attempts /\ w # NoWorker
      BY <2>1, <3>1, OwnerStable, LedgerAssumption
    <3>3. latest_seq'[<<w, t>>] = latest_seq[<<w, t>>] + 1 /\ latest_seq[<<w, t>>] \in Nat
      BY <2>1, <3>1 DEF TypeOK
    <3> QED BY <2>2, <3>1, <3>2, <3>3 DEF LatestSeq
  <2>5. \/ receipts'[t] = receipts[t]
        \/ \E w \in Workers, o \in TerminalStatus, r \in Results :
               FinalizeTaskAttempt(t, w, tasks[t].attempts, o, r)
    <3>1. CASE Finalize
      <4>1. PICK u \in Tasks, w \in Workers, o \in TerminalStatus, r \in Results :
                 FinalizeTaskAttempt(u, w, tasks[u].attempts, o, r)
        BY <3>1 DEF Finalize
      <4> QED BY <2>1, <4>1 DEF FinalizeTaskAttempt, TypeOK
    <3>2. CASE ~Finalize
      BY <1>2, <3>2 DEF LedgerNext, Enqueue, Heartbeat, Start, StartTaskIfEnqueued, Progress,
         AppendEventIfLeased, MarkStale, AppendEventIfLeaseUnchanged, FailExhausted,
         AppendFailedIfLeaseUnchanged, Restart, RestartTaskIfUnchanged, Cancel,
         CancelTaskIfActive, Alert, RecordFailedAttemptAlertOnce
    <3> QED BY <3>1, <3>2
  <2> QED BY <2>3, <2>4, <2>5
<1> QED BY IInvHolds, <1>1, <1>2, PTL DEF LedgerSpec

\* The attempt an alert names stays Failed until a restart opens the next one.
THEOREM AlertsAreTrue == LedgerSpec => []AlertedAttemptFailed
<1>1. Init => AlertedAttemptFailed
  BY DEF Init, AlertedAttemptFailed
<1>2. ASSUME IInv, AlertedAttemptFailed, [LedgerNext]_ledger
      PROVE  AlertedAttemptFailed'
  <2>1. TypeOK /\ OwnershipShape /\ TaskStep /\ TypeOK'
    BY <1>2, NextIsTaskStep, TypeStep DEF IInv
  <2> SUFFICES ASSUME NEW a \in alerts'
               PROVE  \/ a[2] < tasks'[a[1]].attempts
                      \/ a[2] = tasks'[a[1]].attempts /\ tasks'[a[1]].status = "Failed"
    BY DEF AlertedAttemptFailed
  <2>2. a[1] \in Tasks /\ a[2] \in Nat
    BY <2>1 DEF TypeOK
  <2>3. tasks[a[1]].attempts \in Nat /\ tasks'[a[1]].attempts \in Nat
    BY <2>1, <2>2 DEF TypeOK, TaskState
  <2>4. CASE a \in alerts
    <3>1. \/ a[2] < tasks[a[1]].attempts
          \/ a[2] = tasks[a[1]].attempts /\ tasks[a[1]].status = "Failed"
      BY <1>2, <2>4 DEF AlertedAttemptFailed
    <3>2. /\ tasks'[a[1]].attempts >= tasks[a[1]].attempts
          /\ tasks[a[1]].status = "Failed" => \/ tasks'[a[1]].status = "Failed"
                                              \/ tasks'[a[1]].attempts > tasks[a[1]].attempts
      BY <2>1, <2>2, OwnerStable
    <3> QED BY <2>2, <2>3, <3>1, <3>2
  <2>5. CASE a \notin alerts
    <3>1. Alert
      BY <1>2, <2>5 DEF LedgerNext, Enqueue, Heartbeat, Start, StartTaskIfEnqueued, Progress,
         AppendEventIfLeased, MarkStale, AppendEventIfLeaseUnchanged, FailExhausted,
         AppendFailedIfLeaseUnchanged, Finalize, FinalizeTaskAttempt, Restart,
         RestartTaskIfUnchanged, Cancel, CancelTaskIfActive
    <3>2. PICK t \in Tasks, w \in Workers, c \in Channels :
               RecordFailedAttemptAlertOnce(t, w, tasks[t].attempts, c)
      BY <3>1 DEF Alert
    <3>3. a = <<t, tasks[t].attempts, c>> /\ tasks' = tasks /\ tasks[t].status = "Failed"
      BY <2>5, <3>2 DEF RecordFailedAttemptAlertOnce
    <3> QED BY <3>3
  <2> QED BY <2>4, <2>5
<1> QED BY IInvHolds, <1>1, <1>2, PTL DEF LedgerSpec
=============================================================================
