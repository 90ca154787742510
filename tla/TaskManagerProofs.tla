-------------------------- MODULE TaskManagerProofs --------------------------
(***************************************************************************)
(* Proofs about TaskManager for every set of tasks and workers and every   *)
(* number of crashes and failed writes: its safety properties, and that it *)
(* implements TaskBoard.                                                   *)
(***************************************************************************)
EXTENDS TaskManager, QueueProofs, FiniteSetTheorems, TLAPS

-----------------------------------------------------------------------------
(* Orders.                                                                 *)

(* An order of a set of tasks names each of them, once.                      *)
LEMMA OrdersFacts ==
    ASSUME NEW S \in SUBSET Tasks, NEW s \in Orders(S)
    PROVE  s \in Seq(Tasks) /\ Elements(s) = S /\ Distinct(s)
<1> DEFINE n == Cardinality(S)
<1>1. IsFiniteSet(S) /\ n \in Nat
  BY TaskManagerAssumption, FS_Subset, FS_CardinalityType
<1>2. s \in [1..n -> S] /\ \A i, j \in 1..n : s[i] = s[j] => i = j
  BY DEF Orders
<1>3. s \in Surjection(1..n, S)
  <2>1. s \in Injection(1..n, S)
    BY <1>2 DEF Injection, IsInjective
  <2>2. IsFiniteSet(1..n) /\ Cardinality(1..n) = n
    BY <1>1, FS_Interval
  <2> HIDE DEF n
  <2> QED BY <2>1, <2>2, <1>1, FS_Injection DEF n
<1> HIDE DEF n
<1>4. s \in Seq(Tasks) /\ Len(s) = n
  BY <1>1, <1>2
<1>5. Elements(s) = S
  BY <1>2, <1>3, <1>4 DEF Elements, Surjection
<1> QED BY <1>2, <1>4, <1>5 DEF Distinct

-----------------------------------------------------------------------------
(* The type invariant, and what the mutex holds.                           *)

USE DEF memory, disk, history, vars

LockShape ==
    /\ lock.op = "free" => lock = Free
    /\ lock.op # "free" => up
    /\ lock.op \notin {"free", "boot", "finish"} => lock.task \in Tasks
    /\ lock.op \in {"start", "finish"} => lock.worker \in Workers

LEMMA FreeFacts ==
    /\ Free \in LockState
    /\ Free.op = "free" /\ Free.todo = {} /\ ~Free.queue
    /\ Free.task = NoTask /\ Free.worker = NoWorker
BY DEF Lock, Free, LockState

LEMMA LockType ==
    ASSUME NEW op \in {"add", "start", "finish", "forced", "requested", "finished", "boot"},
           NEW t \in Tasks \cup {NoTask}, NEW w \in Workers \cup {NoWorker},
           NEW save \in SUBSET Tasks
    PROVE  /\ Lock(op, t, w, save) \in LockState
           /\ Lock(op, t, w, save).op = op /\ Lock(op, t, w, save).task = t
           /\ Lock(op, t, w, save).worker = w /\ Lock(op, t, w, save).todo = save
           /\ Lock(op, t, w, save).queue
BY DEF Lock, LockState

LEMMA LockUpdate ==
    ASSUME NEW l \in LockState, NEW t
    PROVE  /\ [l EXCEPT !.queue = FALSE] \in LockState
           /\ [l EXCEPT !.queue = FALSE].op = l.op
           /\ [l EXCEPT !.queue = FALSE].task = l.task
           /\ [l EXCEPT !.queue = FALSE].worker = l.worker
           /\ [l EXCEPT !.queue = FALSE].todo = l.todo
           /\ [l EXCEPT !.todo = @ \ {t}] \in LockState
           /\ [l EXCEPT !.todo = @ \ {t}].op = l.op
           /\ [l EXCEPT !.todo = @ \ {t}].task = l.task
           /\ [l EXCEPT !.todo = @ \ {t}].worker = l.worker
           /\ [l EXCEPT !.todo = @ \ {t}].todo = l.todo \ {t}
BY DEF LockState

LEMMA GotoFacts ==
    ASSUME NEW f \in [Workers -> WorkerState], NEW w \in Workers,
           NEW pc \in {"loop", "wait", "parked", "exec"}
    PROVE  /\ [f EXCEPT ![w].pc = pc] \in [Workers -> WorkerState]
           /\ [f EXCEPT ![w].pc = pc][w].pc = pc
           /\ [f EXCEPT ![w].pc = pc][w].task = f[w].task
           /\ \A v \in Workers \ {w} : [f EXCEPT ![w].pc = pc][v] = f[v]
BY DEF WorkerState

LEMMA AssignFacts ==
    ASSUME NEW f \in [Workers -> WorkerState], NEW w \in Workers, NEW t \in Tasks \cup {NoTask},
           NEW pc \in {"loop", "starting"}
    PROVE  /\ [f EXCEPT ![w] = [pc |-> pc, task |-> t]] \in [Workers -> WorkerState]
           /\ [f EXCEPT ![w] = [pc |-> pc, task |-> t]][w] = [pc |-> pc, task |-> t]
           /\ \A v \in Workers \ {w} : [f EXCEPT ![w] = [pc |-> pc, task |-> t]][v] = f[v]
BY DEF WorkerState

LEMMA StaleType == \A new : Stale(new) \in SUBSET Tasks
BY DEF Stale

LEMMA TypeInit == Init => TypeOK /\ LockShape
<1> SUFFICES ASSUME Init PROVE TypeOK /\ LockShape
  OBVIOUS
<1>1. worker \in [Workers -> WorkerState]
  BY DEF Init, Idle, WorkerState
<1>2. lock = Free /\ lock \in LockState
  BY FreeFacts DEF Init
<1>3. tasks \in [Tasks -> Status] /\ diskTask \in [Tasks -> Status] /\ started \in [Tasks -> Nat]
  BY DEF Init, Status
<1>4. queue \in Seq(Tasks) /\ diskQueue \in Seq(Tasks)
  BY DEF Init
<1>5. token \in [Tasks -> {"none", "live", "cancelled"}]
  BY DEF Init
<1>6. TypeOK
  BY <1>1, <1>2, <1>3, <1>4, <1>5 DEF Init, TypeOK
<1>7. LockShape
  BY <1>2, FreeFacts DEF LockShape
<1> QED BY <1>6, <1>7

LEMMA TypeStep ==
    TypeOK /\ LockShape /\ [Next]_vars => TypeOK' /\ LockShape'
<1> SUFFICES ASSUME TypeOK, LockShape, [Next]_vars PROVE TypeOK' /\ LockShape'
  OBVIOUS
<1>1. ASSUME NEW t \in Tasks, AddTask(t) PROVE TypeOK' /\ LockShape'
  <2>1. lock' = Lock("add", t, NoWorker, {})
    BY <1>1 DEF AddTask
  <2>2. lock' \in LockState /\ lock'.op = "add" /\ lock'.task = t
    BY <2>1, LockType
  <2>3. TypeOK'
    BY <1>1, <2>2 DEF AddTask, TypeOK
  <2>4. up'
    BY <1>1 DEF AddTask, Acquire
  <2> QED BY <2>2, <2>3, <2>4 DEF LockShape
<1>2. ASSUME NEW t \in Tasks, NotifyOne(t) PROVE TypeOK' /\ LockShape'
  <2>1. worker' = worker \/ \E w \in Workers : worker' = [worker EXCEPT ![w].pc = "loop"]
    BY <1>2 DEF NotifyOne
  <2>2. worker' \in [Workers -> WorkerState]
    <3>1. worker \in [Workers -> WorkerState]
      BY DEF TypeOK
    <3>2. ASSUME NEW w \in Workers, worker' = [worker EXCEPT ![w].pc = "loop"]
          PROVE  worker' \in [Workers -> WorkerState]
      BY <3>1, <3>2, GotoFacts
    <3> QED BY <2>1, <3>1, <3>2
  <2>3. permit' \in BOOLEAN
    BY <1>2 DEF NotifyOne, TypeOK
  <2>4. TypeOK'
    BY <1>2, <2>2, <2>3 DEF NotifyOne, TypeOK
  <2> QED BY <1>2, <2>4 DEF NotifyOne, LockShape
<1>3. ASSUME NEW t \in Tasks, Update(t) PROVE TypeOK' /\ LockShape'
  <2>1. TypeOK'
    BY <1>3 DEF Update, TypeOK
  <2> QED BY <1>3, <2>1 DEF Update, LockShape
<1>4. ASSUME NEW t \in Tasks, CancelQueued(t) PROVE TypeOK' /\ LockShape'
  <2>1. lock' = Lock("forced", t, NoWorker, Stale([tasks EXCEPT ![t] = "Canceled"]))
    BY <1>4 DEF CancelQueued
  <2>2. lock' \in LockState /\ lock'.op = "forced" /\ lock'.task = t
    BY <2>1, LockType, StaleType
  <2>3. queue' \in Seq(Tasks)
    BY <1>4, RetainFacts DEF CancelQueued, TypeOK
  <2>4. tasks' \in [Tasks -> Status]
    BY <1>4 DEF CancelQueued, TypeOK, Status, Outcome
  <2>5. TypeOK'
    BY <1>4, <2>2, <2>3, <2>4 DEF CancelQueued, TypeOK
  <2>6. up'
    BY <1>4 DEF CancelQueued, Acquire
  <2> QED BY <2>2, <2>5, <2>6 DEF LockShape
<1>5. ASSUME NEW t \in Tasks, CancelRunning(t) PROVE TypeOK' /\ LockShape'
  <2>1. lock' = Lock("requested", t, NoWorker, Stale(tasks))
    BY <1>5 DEF CancelRunning
  <2>2. lock' \in LockState /\ lock'.op = "requested" /\ lock'.task = t
    BY <2>1, LockType, StaleType
  <2>3. token' \in [Tasks -> {"none", "live", "cancelled"}]
    BY <1>5 DEF CancelRunning, TypeOK
  <2>4. TypeOK'
    BY <1>5, <2>2, <2>3 DEF CancelRunning, TypeOK
  <2>5. up'
    BY <1>5 DEF CancelRunning, Acquire
  <2> QED BY <2>2, <2>4, <2>5 DEF LockShape
<1>6. ASSUME NEW t \in Tasks, CancelFinished(t) PROVE TypeOK' /\ LockShape'
  <2>1. lock' = Lock("finished", t, NoWorker, Stale(tasks))
    BY <1>6 DEF CancelFinished
  <2>2. lock' \in LockState /\ lock'.op = "finished" /\ lock'.task = t
    BY <2>1, LockType, StaleType
  <2>3. TypeOK'
    BY <1>6, <2>2 DEF CancelFinished, TypeOK
  <2>4. up'
    BY <1>6 DEF CancelFinished, Acquire
  <2> QED BY <2>2, <2>3, <2>4 DEF LockShape
<1>7. ASSUME NEW w \in Workers, PopNone(w) PROVE TypeOK' /\ LockShape'
  <2>1. worker' \in [Workers -> WorkerState]
    BY <1>7, GotoFacts DEF PopNone, Goto, TypeOK
  <2>2. queue' \in Seq(Tasks) /\ diskQueue' \in Seq(Tasks)
    BY <1>7, TailFacts DEF PopNone, TypeOK
  <2>3. TypeOK'
    BY <1>7, <2>1, <2>2 DEF PopNone, TypeOK
  <2> QED BY <1>7, <2>3 DEF PopNone, LockShape
<1>8. ASSUME NEW w \in Workers, Pop(w) PROVE TypeOK' /\ LockShape'
  <2>1. Head(queue) \in Tasks /\ Tail(queue) \in Seq(Tasks)
    BY <1>8, TailFacts DEF Pop, TypeOK
  <2>2. /\ worker' = [worker EXCEPT ![w] = [pc |-> "starting", task |-> Head(queue)]]
        /\ lock' = Lock("start", Head(queue), w, Stale([tasks EXCEPT ![Head(queue)] = "Running"]))
    BY <1>8 DEF Pop
  <2>3. worker' \in [Workers -> WorkerState]
    BY <2>1, <2>2, AssignFacts DEF TypeOK
  <2>4. lock' \in LockState /\ lock'.op = "start" /\ lock'.task = Head(queue) /\ lock'.worker = w
    BY <2>1, <2>2, LockType, StaleType
  <2>5. tasks' \in [Tasks -> Status] /\ token' \in [Tasks -> {"none", "live", "cancelled"}]
    BY <1>8 DEF Pop, TypeOK, Status
  <2>6. TypeOK'
    BY <1>8, <2>1, <2>3, <2>4, <2>5 DEF Pop, TypeOK
  <2>7. up'
    BY <1>8 DEF Pop, Acquire
  <2> QED BY <2>1, <2>4, <2>6, <2>7 DEF LockShape
<1>9. ASSUME NEW w \in Workers, Poll(w) PROVE TypeOK' /\ LockShape'
  <2>1. PICK pc \in {"loop", "parked"} : worker' = [worker EXCEPT ![w].pc = pc]
    BY <1>9 DEF Poll, Goto
  <2>2. worker' \in [Workers -> WorkerState]
    BY <2>1, GotoFacts DEF TypeOK
  <2>3. TypeOK'
    BY <1>9, <2>2 DEF Poll, TypeOK
  <2> QED BY <1>9, <2>3 DEF Poll, LockShape
<1>10. ASSUME NEW w \in Workers, NEW o \in Outcome, Finish(w, o) PROVE TypeOK' /\ LockShape'
  <2> DEFINE t == worker[w].task
  <2>1. t \in Tasks \cup {NoTask} /\ FinalOutcome(t, o) \in Outcome
    BY DEF WorkerState, FinalOutcome, Outcome, TypeOK
  <2>2. lock' = Lock("finish", t, w, Stale([tasks EXCEPT ![t] = FinalOutcome(t, o)]))
    BY <1>10 DEF Finish
  <2>3. lock' \in LockState /\ lock'.op = "finish" /\ lock'.task = t /\ lock'.worker = w
    BY <2>1, <2>2, LockType, StaleType
  <2>4. tasks' \in [Tasks -> Status] /\ token' \in [Tasks -> {"none", "live", "cancelled"}]
    BY <1>10, <2>1 DEF Finish, Status, TypeOK
  <2>5. TypeOK'
    BY <1>10, <2>3, <2>4 DEF Finish, TypeOK
  <2>6. up'
    BY <1>10 DEF Finish, Acquire
  <2> QED BY <2>3, <2>5, <2>6 DEF LockShape
<1>11. CASE SaveQueue
  <2>1. lock' \in LockState /\ lock'.op = lock.op /\ lock'.task = lock.task /\ lock'.worker = lock.worker
    BY <1>11, LockUpdate DEF SaveQueue, TypeOK
  <2>2. TypeOK'
    BY <1>11, <2>1 DEF SaveQueue, TypeOK
  <2>3. lock.op # "free"
    BY <1>11, FreeFacts DEF SaveQueue, LockShape
  <2> QED BY <1>11, <2>1, <2>2, <2>3 DEF SaveQueue, LockShape
<1>12. ASSUME NEW t \in Tasks, SaveTask(t) PROVE TypeOK' /\ LockShape'
  <2>1. lock' \in LockState /\ lock'.op = lock.op /\ lock'.task = lock.task /\ lock'.worker = lock.worker
    BY <1>12, LockUpdate DEF SaveTask, TypeOK
  <2>2. TypeOK'
    BY <1>12, <2>1 DEF SaveTask, TypeOK
  <2>3. lock.op # "free"
    BY <1>12, FreeFacts DEF SaveTask, LockShape
  <2> QED BY <1>12, <2>1, <2>2, <2>3 DEF SaveTask, LockShape
<1>13. CASE QueueAdd
  <2>1. lock' \in LockState /\ lock'.op = lock.op /\ lock'.task = lock.task /\ lock'.worker = lock.worker
    BY <1>13, LockUpdate DEF QueueAdd, TypeOK
  <2>2. lock.task \in Tasks /\ lock.op = "add"
    BY <1>13 DEF QueueAdd, LockShape
  <2>3. diskQueue' \in Seq(Tasks)
    BY <1>13, <2>2, AppendFacts DEF QueueAdd, TypeOK
  <2>4. TypeOK'
    BY <1>13, <2>1, <2>3 DEF QueueAdd, TypeOK
  <2> QED BY <1>13, <2>1, <2>2, <2>4 DEF QueueAdd, LockShape
<1>14. ASSUME lock' = Free, TypeOK' PROVE LockShape'
  BY <1>14, FreeFacts DEF LockShape
<1>15. CASE QueueAddFails
  <2>1. TypeOK'
    BY <1>15, FreeFacts DEF QueueAddFails, Fault, TypeOK
  <2> QED BY <1>15, <2>1, <1>14 DEF QueueAddFails
<1>16. CASE Promote
  <2>1. lock.task \in Tasks
    BY <1>16 DEF Promote, LockShape
  <2>2. queue' \in Seq(Tasks)
    BY <1>16, <2>1, AppendFacts DEF Promote, TypeOK
  <2>3. tasks' \in [Tasks -> Status] /\ diskTask' \in [Tasks -> Status]
    BY <1>16 DEF Promote, TypeOK, Status
  <2>4. TypeOK'
    BY <1>16, <2>1, <2>2, <2>3, FreeFacts DEF Promote, TypeOK
  <2> QED BY <1>16, <2>4, <1>14 DEF Promote
<1>17. CASE PromoteFails
  <2>1. TypeOK'
    BY <1>17, FreeFacts DEF PromoteFails, Fault, TypeOK
  <2> QED BY <1>17, <2>1, <1>14 DEF PromoteFails
<1>18. CASE RunTask
  <2>1. worker' \in [Workers -> WorkerState]
    <3>1. lock.worker \in Workers /\ worker' = [worker EXCEPT ![lock.worker].pc = "exec"]
      BY <1>18 DEF RunTask, Goto, LockShape
    <3>2. worker \in [Workers -> WorkerState]
      BY DEF TypeOK
    <3> QED BY <3>1, <3>2, GotoFacts
  <2>2. faults' \in Nat
    BY <1>18 DEF RunTask, Persisted, Fault, TypeOK
  <2>3. started' \in [Tasks -> Nat] /\ unsaved' \subseteq Tasks
    BY <1>18 DEF RunTask, TypeOK, LockShape
  <2>4. TypeOK'
    BY <1>18, <2>1, <2>2, <2>3, FreeFacts DEF RunTask, TypeOK
  <2> QED BY <1>18, <2>4, <1>14 DEF RunTask
<1>19. CASE Finished
  <2>1. worker' \in [Workers -> WorkerState]
    <3>1. /\ lock.worker \in Workers
          /\ worker' = [worker EXCEPT ![lock.worker] = [pc |-> "loop", task |-> NoTask]]
      BY <1>19 DEF Finished, LockShape
    <3>2. worker \in [Workers -> WorkerState]
      BY DEF TypeOK
    <3> QED BY <3>1, <3>2, AssignFacts
  <2>2. faults' \in Nat
    BY <1>19 DEF Finished, Persisted, Fault, TypeOK
  <2>3. TypeOK'
    BY <1>19, <2>1, <2>2, FreeFacts DEF Finished, TypeOK
  <2> QED BY <1>19, <2>3, <1>14 DEF Finished
<1>20. CASE CancelAnswered
  <2>1. faults' \in Nat
    BY <1>20 DEF CancelAnswered, Persisted, Fault, TypeOK
  <2>2. canceled' \subseteq Tasks /\ requested' \subseteq Tasks
    BY <1>20 DEF CancelAnswered, TypeOK, LockShape
  <2>3. TypeOK'
    BY <1>20, <2>1, <2>2, FreeFacts DEF CancelAnswered, TypeOK
  <2> QED BY <1>20, <2>3, <1>14 DEF CancelAnswered
<1>21. CASE Booted
  <2>1. worker' \in [Workers -> WorkerState]
    BY <1>21 DEF Booted, WorkerState
  <2>2. faults' = faults
    BY <1>21 DEF Booted, Persisted
  <2>3. TypeOK'
    BY <1>21, <2>1, <2>2, FreeFacts DEF Booted, TypeOK
  <2> QED BY <1>21, <2>3, <1>14 DEF Booted
<1>22. ASSUME Down, faults' \in Nat, crashes' \in Nat PROVE TypeOK' /\ LockShape'
  <2>1. worker' \in [Workers -> WorkerState]
    BY <1>22 DEF Down, WorkerState, Idle
  <2>2. tasks' \in [Tasks -> Status] /\ token' \in [Tasks -> {"none", "live", "cancelled"}]
    BY <1>22 DEF Down, Status
  <2>3. queue' \in Seq(Tasks)
    BY <1>22 DEF Down
  <2>4. TypeOK'
    BY <1>22, <2>1, <2>2, <2>3, FreeFacts DEF Down, TypeOK
  <2> QED BY <1>22, <2>4, <1>14 DEF Down
<1>23. CASE BootFails
  <2>1. faults' \in Nat
    BY <1>23 DEF BootFails, Persisted, Fault, TypeOK
  <2> QED BY <1>22, <1>23, <2>1 DEF BootFails, TypeOK
<1>24. CASE Boot
  <2> DEFINE loaded == Recovered(diskTask)
             queued == {t \in Tasks : loaded[t] = "Queued"}
             known  == {diskQueue[i] : i \in 1..Len(diskQueue)}
  <2>1. PICK missing \in Orders(queued \ known) : queue' = Retain(diskQueue, queued) \o missing
    BY <1>24 DEF Boot
  <2>2. queue' \in Seq(Tasks)
    <3>1. queued \ known \in SUBSET Tasks
      OBVIOUS
    <3>2. diskQueue \in Seq(Tasks)
      BY DEF TypeOK
    <3> HIDE DEF queued, known
    <3>3. missing \in Seq(Tasks)
      BY <3>1, OrdersFacts
    <3>4. Retain(diskQueue, queued) \in Seq(Tasks)
      BY <3>2, RetainFacts
    <3> QED BY <2>1, <3>3, <3>4
  <2>3. tasks' \in [Tasks -> Status]
    BY <1>24 DEF Boot, Recovered, TypeOK, Status, Outcome
  <2>4. lock' = Lock("boot", NoTask, NoWorker, Stale(loaded))
    BY <1>24 DEF Boot
  <2>5. lock' \in LockState /\ lock'.op = "boot"
    BY <2>4, LockType, StaleType
  <2>6. TypeOK'
    BY <1>24, <2>2, <2>3, <2>5 DEF Boot, TypeOK
  <2> QED BY <1>24, <2>5, <2>6 DEF Boot, LockShape
<1>25. CASE Crash
  <2>1. crashes' \in Nat
    BY <1>25 DEF Crash, TypeOK
  <2> QED BY <1>22, <1>25, <2>1 DEF Crash, TypeOK
<1>26. CASE UNCHANGED vars
  BY <1>26 DEF TypeOK, LockShape
<1> QED
  BY <1>1, <1>2, <1>3, <1>4, <1>5, <1>6, <1>7, <1>8, <1>9, <1>10, <1>11, <1>12, <1>13,
     <1>15, <1>16, <1>17, <1>18, <1>19, <1>20, <1>21, <1>23, <1>24, <1>25, <1>26
  DEF Next, TaskStep, WorkerStep, LockStep

(* Every variable keeps its type, whatever crashes and failed writes do to    *)
(* queue, records and workers of the manager.                                *)
THEOREM TypeCorrect == Spec => []TypeOK
<1>1. Init => TypeOK /\ LockShape
  BY TypeInit
<1>2. (TypeOK /\ LockShape) /\ [Next]_vars => (TypeOK /\ LockShape)'
  BY TypeStep
<1> QED BY <1>1, <1>2, PTL DEF Spec

-----------------------------------------------------------------------------
(* What each kind of step does to the mutex.                               *)

LEMMA Acquired ==
    ASSUME TypeOK
    PROVE  /\ \A t \in Tasks : AddTask(t) =>
                /\ up /\ lock.op = "free"
                /\ lock'.op = "add" /\ lock'.task = t /\ lock'.todo = {}
           /\ \A t \in Tasks : CancelQueued(t) =>
                /\ up /\ lock.op = "free"
                /\ lock'.op = "forced" /\ lock'.task = t /\ lock'.todo = Stale(tasks')
           /\ \A t \in Tasks : CancelRunning(t) =>
                /\ up /\ lock.op = "free"
                /\ lock'.op = "requested" /\ lock'.task = t /\ lock'.todo = Stale(tasks')
           /\ \A t \in Tasks : CancelFinished(t) =>
                /\ up /\ lock.op = "free"
                /\ lock'.op = "finished" /\ lock'.task = t /\ lock'.todo = Stale(tasks')
           /\ \A w \in Workers : Pop(w) =>
                /\ up /\ lock.op = "free" /\ Head(queue) \in Tasks
                /\ lock'.op = "start" /\ lock'.task = Head(queue)
                /\ lock'.worker = w /\ lock'.todo = Stale(tasks')
           /\ \A w \in Workers, o \in Outcome : Finish(w, o) =>
                /\ up /\ lock.op = "free"
                /\ lock'.op = "finish" /\ lock'.task = worker[w].task
                /\ lock'.worker = w /\ lock'.todo = Stale(tasks')
           /\ Boot => lock'.op = "boot" /\ lock'.todo = Stale(tasks')
<1>1. ASSUME NEW t \in Tasks, AddTask(t)
      PROVE  up /\ lock.op = "free" /\ lock'.op = "add" /\ lock'.task = t /\ lock'.todo = {}
  BY <1>1, FreeFacts DEF AddTask, Acquire, Lock
<1>2. ASSUME NEW t \in Tasks, CancelQueued(t)
      PROVE  /\ up /\ lock.op = "free"
             /\ lock'.op = "forced" /\ lock'.task = t /\ lock'.todo = Stale(tasks')
  <2>1. lock' = Lock("forced", t, NoWorker, Stale(tasks'))
    BY <1>2 DEF CancelQueued
  <2> QED BY <1>2, <2>1, FreeFacts DEF CancelQueued, Acquire, Lock
<1>3. ASSUME NEW t \in Tasks, CancelRunning(t)
      PROVE  /\ up /\ lock.op = "free"
             /\ lock'.op = "requested" /\ lock'.task = t /\ lock'.todo = Stale(tasks')
  <2>1. lock' = Lock("requested", t, NoWorker, Stale(tasks'))
    BY <1>3 DEF CancelRunning
  <2> QED BY <1>3, <2>1, FreeFacts DEF CancelRunning, Acquire, Lock
<1>4. ASSUME NEW t \in Tasks, CancelFinished(t)
      PROVE  /\ up /\ lock.op = "free"
             /\ lock'.op = "finished" /\ lock'.task = t /\ lock'.todo = Stale(tasks')
  <2>1. lock' = Lock("finished", t, NoWorker, Stale(tasks'))
    BY <1>4 DEF CancelFinished
  <2> QED BY <1>4, <2>1, FreeFacts DEF CancelFinished, Acquire, Lock
<1>5. ASSUME NEW w \in Workers, Pop(w)
      PROVE  /\ up /\ lock.op = "free" /\ Head(queue) \in Tasks
             /\ lock'.op = "start" /\ lock'.task = Head(queue)
             /\ lock'.worker = w /\ lock'.todo = Stale(tasks')
  <2>1. lock' = Lock("start", Head(queue), w, Stale(tasks'))
    BY <1>5 DEF Pop
  <2>2. Head(queue) \in Tasks
    BY <1>5, TailFacts DEF Pop, TypeOK
  <2> QED BY <1>5, <2>1, <2>2, FreeFacts DEF Pop, Acquire, Lock
<1>6. ASSUME NEW w \in Workers, NEW o \in Outcome, Finish(w, o)
      PROVE  /\ up /\ lock.op = "free"
             /\ lock'.op = "finish" /\ lock'.task = worker[w].task
             /\ lock'.worker = w /\ lock'.todo = Stale(tasks')
  <2>1. lock' = Lock("finish", worker[w].task, w, Stale(tasks'))
    BY <1>6 DEF Finish
  <2> QED BY <1>6, <2>1, FreeFacts DEF Finish, Acquire, Lock
<1>7. ASSUME Boot PROVE lock'.op = "boot" /\ lock'.todo = Stale(tasks')
  <2>1. lock' = Lock("boot", NoTask, NoWorker, Stale(tasks'))
    BY <1>7 DEF Boot
  <2> QED BY <2>1 DEF Lock
<1> QED BY <1>1, <1>2, <1>3, <1>4, <1>5, <1>6, <1>7

LEMMA Written ==
    ASSUME TypeOK, LockShape
    PROVE  /\ SaveQueue \/ QueueAdd =>
                /\ lock.op # "free" /\ lock'.op = lock.op /\ lock'.task = lock.task
                /\ lock'.worker = lock.worker /\ lock'.todo = lock.todo
           /\ \A t \in Tasks : SaveTask(t) =>
                /\ lock.op # "free" /\ lock'.op = lock.op /\ lock'.task = lock.task
                /\ lock'.worker = lock.worker /\ lock'.todo = lock.todo \ {t}
<1>1. ASSUME SaveQueue \/ QueueAdd
      PROVE  /\ lock.op # "free" /\ lock'.op = lock.op /\ lock'.task = lock.task
             /\ lock'.worker = lock.worker /\ lock'.todo = lock.todo
  <2>1. lock' = [lock EXCEPT !.queue = FALSE] /\ lock.queue
    BY <1>1 DEF SaveQueue, QueueAdd
  <2>2. lock.op # "free"
    BY <2>1, FreeFacts DEF LockShape
  <2>3. lock \in LockState
    BY DEF TypeOK
  <2> QED BY <2>1, <2>2, <2>3 DEF LockState
<1>2. ASSUME NEW t \in Tasks, SaveTask(t)
      PROVE  /\ lock.op # "free" /\ lock'.op = lock.op /\ lock'.task = lock.task
             /\ lock'.worker = lock.worker /\ lock'.todo = lock.todo \ {t}
  <2>1. lock' = [lock EXCEPT !.todo = @ \ {t}] /\ t \in lock.todo
    BY <1>2 DEF SaveTask
  <2>2. lock.op # "free"
    BY <2>1, FreeFacts DEF LockShape
  <2> QED BY <2>1, <2>2, LockUpdate DEF TypeOK
<1> QED BY <1>1, <1>2

LEMMA Released ==
    ASSUME \/ QueueAddFails \/ Promote \/ PromoteFails \/ RunTask \/ Finished
           \/ CancelAnswered \/ Booted \/ BootFails \/ Crash
    PROVE  lock' = Free /\ lock'.op = "free" /\ lock'.todo = {}
<1>1. lock' = Free
  BY DEF QueueAddFails, Promote, PromoteFails, RunTask, Finished, CancelAnswered,
         Booted, BootFails, Crash, Down
<1> QED BY <1>1, FreeFacts

-----------------------------------------------------------------------------
(* Who executes what.  A worker that has a task has it alone, and the task   *)
(* is Running until the worker has the mutex to finish it.                   *)

Exclusive ==
    /\ ~up => \A w \in Workers : worker[w].task = NoTask
    /\ \A w \in Workers : worker[w].pc \in {"starting", "exec"} => worker[w].task \in Tasks
    /\ \A w \in Workers :
         \/ worker[w].task = NoTask
         \/ lock.op = "finish" /\ lock.worker = w
         \/ tasks[worker[w].task] = "Running"
    /\ \A v, w \in Workers :
         v # w => worker[v].task = NoTask \/ worker[v].task # worker[w].task
    /\ lock.op = "start" =>
         worker[lock.worker].pc = "starting" /\ worker[lock.worker].task = lock.task
    /\ lock.op = "finish" =>
         /\ lock.task \in Tasks /\ worker[lock.worker].task = lock.task
         /\ tasks[lock.task] \in Outcome
    /\ lock.op = "boot" => \A w \in Workers : worker[w].task = NoTask
    /\ lock.op = "add" => tasks[lock.task] = "Absent"

Typed == TypeOK /\ LockShape

LEMMA ExclusiveStep ==
    ASSUME Typed, Typed', Exclusive, [Next]_vars
    PROVE  Exclusive'
<1> USE DEF Typed
<1>0. /\ worker \in [Workers -> WorkerState] /\ tasks \in [Tasks -> Status]
      /\ \A w \in Workers : worker[w].task \in Tasks \cup {NoTask}
  BY DEF TypeOK, WorkerState
<1>1. ASSUME NEW t \in Tasks, AddTask(t) PROVE Exclusive'
  <2>1. up /\ lock.op = "free" /\ lock'.op = "add" /\ lock'.task = t
    BY <1>1, Acquired
  <2> QED BY <1>1, <2>1 DEF AddTask, Exclusive
<1>2. ASSUME worker' = worker \/ \E w \in Workers, pc \in {"loop", "wait", "parked"} :
                                   /\ worker[w].pc \notin {"starting", "exec"}
                                   /\ worker' = [worker EXCEPT ![w].pc = pc],
             up' = up, tasks' = tasks, lock' = lock
      PROVE  Exclusive'
  <2>1. CASE worker' = worker
    BY <1>2, <2>1 DEF Exclusive
  <2>2. ASSUME NEW w \in Workers, NEW pc \in {"loop", "wait", "parked"},
               worker[w].pc \notin {"starting", "exec"}, worker' = [worker EXCEPT ![w].pc = pc]
        PROVE  Exclusive'
    <3>1. /\ \A v \in Workers : worker'[v].task = worker[v].task
          /\ \A v \in Workers \ {w} : worker'[v].pc = worker[v].pc
          /\ worker'[w].pc = pc
      BY <1>0, <2>2, GotoFacts
    <3>2. lock.op = "start" => lock.worker \in Workers \ {w}
      BY <2>2 DEF Exclusive, LockShape
    <3>3. lock.op \in {"start", "finish"} => lock.worker \in Workers
      BY DEF LockShape
    <3> QED BY <1>2, <3>1, <3>2, <3>3 DEF Exclusive
  <2> QED BY <1>2, <2>1, <2>2
<1>3. ASSUME NEW t \in Tasks, NotifyOne(t) PROVE Exclusive'
  BY <1>2, <1>3 DEF NotifyOne
<1>4. ASSUME NEW t \in Tasks, Update(t) PROVE Exclusive'
  BY <1>2, <1>4 DEF Update
<1>5. ASSUME NEW t \in Tasks, CancelQueued(t) PROVE Exclusive'
  <2>1. up /\ lock.op = "free" /\ lock'.op = "forced"
    BY <1>5, Acquired
  <2>2. tasks[t] = "Queued" /\ \A u \in Tasks \ {t} : tasks'[u] = tasks[u]
    BY <1>0, <1>5 DEF CancelQueued
  <2>3. up' = up /\ worker' = worker
    BY <1>5 DEF CancelQueued
  <2> QED BY <1>0, <2>1, <2>2, <2>3 DEF Exclusive
<1>6. ASSUME NEW t \in Tasks, CancelRunning(t) PROVE Exclusive'
  <2>1. up /\ lock.op = "free" /\ lock'.op = "requested"
    BY <1>6, Acquired
  <2> QED BY <1>6, <2>1 DEF CancelRunning, Exclusive
<1>7. ASSUME NEW t \in Tasks, CancelFinished(t) PROVE Exclusive'
  <2>1. up /\ lock.op = "free" /\ lock'.op = "finished"
    BY <1>7, Acquired
  <2> QED BY <1>7, <2>1 DEF CancelFinished, Exclusive
<1>8. ASSUME NEW w \in Workers, PopNone(w) \/ Poll(w) PROVE Exclusive'
  BY <1>2, <1>8 DEF PopNone, Poll, Goto
<1>9. ASSUME NEW w \in Workers, Pop(w) PROVE Exclusive'
  <2> DEFINE t == Head(queue)
  <2>1. /\ up /\ lock.op = "free" /\ t \in Tasks
        /\ lock'.op = "start" /\ lock'.task = t /\ lock'.worker = w
    BY <1>9, Acquired
  <2>2. /\ tasks[t] = "Queued" /\ tasks' = [tasks EXCEPT ![t] = "Running"]
        /\ worker' = [worker EXCEPT ![w] = [pc |-> "starting", task |-> t]]
        /\ worker[w].pc = "loop" /\ up' = up
    BY <1>9 DEF Pop
  <2> HIDE DEF t
  <2>3. tasks'[t] = "Running" /\ \A u \in Tasks \ {t} : tasks'[u] = tasks[u]
    BY <1>0, <2>1, <2>2
  <2>4. /\ worker'[w].pc = "starting" /\ worker'[w].task = t
        /\ \A v \in Workers \ {w} : worker'[v] = worker[v]
    BY <1>0, <2>1, <2>2, AssignFacts
  <2>5. \A v \in Workers : worker[v].task # t
    BY <1>0, <2>1, <2>2, TaskManagerAssumption DEF Exclusive
  <2> QED BY <1>0, <2>1, <2>2, <2>3, <2>4, <2>5, TaskManagerAssumption DEF Exclusive
<1>10. ASSUME NEW w \in Workers, NEW o \in Outcome, Finish(w, o) PROVE Exclusive'
  <2> DEFINE t == worker[w].task
  <2>1. up /\ lock.op = "free" /\ lock'.op = "finish" /\ lock'.task = t /\ lock'.worker = w
    BY <1>10, Acquired
  <2>2. t \in Tasks
    BY <1>10 DEF Finish, Exclusive
  <2>3. tasks'[t] \in Outcome /\ \A u \in Tasks \ {t} : tasks'[u] = tasks[u]
    BY <1>0, <1>10, <2>2 DEF Finish, FinalOutcome, Outcome
  <2>4. up' = up /\ worker' = worker
    BY <1>10 DEF Finish
  <2> QED BY <1>0, <2>1, <2>2, <2>3, <2>4, TaskManagerAssumption DEF Exclusive
<1>11. ASSUME SaveQueue \/ QueueAdd \/ \E t \in Tasks : SaveTask(t) PROVE Exclusive'
  <2>1. lock'.op = lock.op /\ lock'.task = lock.task /\ lock'.worker = lock.worker
    BY <1>11, Written
  <2>2. up' = up /\ worker' = worker /\ tasks' = tasks
    BY <1>11 DEF SaveQueue, QueueAdd, SaveTask
  <2> QED BY <2>1, <2>2 DEF Exclusive
<1>12. ASSUME QueueAddFails \/ PromoteFails \/ CancelAnswered PROVE Exclusive'
  <2>1. lock'.op = "free" /\ lock.op \notin {"free", "finish"}
    BY <1>12, Released DEF QueueAddFails, PromoteFails, CancelAnswered
  <2>2. up' = up /\ worker' = worker /\ tasks' = tasks
    BY <1>12 DEF QueueAddFails, PromoteFails, CancelAnswered
  <2> QED BY <2>1, <2>2 DEF Exclusive
<1>13. CASE Promote
  <2>1. lock'.op = "free" /\ lock.op = "add" /\ lock.task \in Tasks
    BY <1>13, Released DEF Promote, LockShape
  <2>2. up' = up /\ worker' = worker /\ tasks' = [tasks EXCEPT ![lock.task] = "Queued"]
    BY <1>13 DEF Promote
  <2> QED BY <1>0, <2>1, <2>2 DEF Exclusive
<1>14. CASE RunTask
  <2>1. lock'.op = "free" /\ lock.op = "start" /\ lock.worker \in Workers
    BY <1>14, Released DEF RunTask, LockShape
  <2>2. up' = up /\ tasks' = tasks /\ worker' = [worker EXCEPT ![lock.worker].pc = "exec"]
    BY <1>14 DEF RunTask, Goto
  <2>3. /\ \A v \in Workers : worker'[v].task = worker[v].task
        /\ \A v \in Workers \ {lock.worker} : worker'[v].pc = worker[v].pc
    BY <1>0, <2>1, <2>2, GotoFacts
  <2> QED BY <2>1, <2>2, <2>3 DEF Exclusive
<1>15. CASE Finished
  <2>1. lock'.op = "free" /\ lock.op = "finish" /\ lock.worker \in Workers
    BY <1>15, Released DEF Finished, LockShape
  <2>2. /\ up' = up /\ tasks' = tasks
        /\ worker' = [worker EXCEPT ![lock.worker] = [pc |-> "loop", task |-> NoTask]]
    BY <1>15 DEF Finished
  <2>3. /\ worker'[lock.worker].pc = "loop" /\ worker'[lock.worker].task = NoTask
        /\ \A v \in Workers \ {lock.worker} : worker'[v] = worker[v]
    BY <1>0, <2>1, <2>2, AssignFacts
  <2> QED BY <2>1, <2>2, <2>3 DEF Exclusive
<1>16. ASSUME Booted \/ BootFails \/ Crash PROVE Exclusive'
  <2>1. lock'.op = "free"
    BY <1>16, Released
  <2>2. \A w \in Workers : worker'[w].task = NoTask /\ worker'[w].pc \in {"off", "loop"}
    <3>1. CASE Booted
      BY <3>1 DEF Booted
    <3>2. CASE Down
      BY <3>2 DEF Down, Idle
    <3> QED BY <1>16, <3>1, <3>2 DEF BootFails, Crash
  <2> QED BY <2>1, <2>2 DEF Exclusive
<1>17. CASE Boot
  <2>1. lock'.op = "boot" /\ ~up /\ up' /\ worker' = worker
    BY <1>17, Acquired DEF Boot
  <2> QED BY <1>17, <2>1 DEF Exclusive
<1>18. CASE UNCHANGED vars
  BY <1>18 DEF Exclusive
<1> QED
  BY <1>1, <1>3, <1>4, <1>5, <1>6, <1>7, <1>8, <1>9, <1>10, <1>11, <1>12, <1>13, <1>14,
     <1>15, <1>16, <1>17, <1>18
  DEF Next, TaskStep, WorkerStep, LockStep

-----------------------------------------------------------------------------
(* The records on disk follow those in memory: what is not up to date is on  *)
(* the way to it, by a move that TaskBoard allows.                           *)

Moves(a, b) ==
    \/ a = b
    \/ a = "Queued" /\ b = "Running"
    \/ a \in {"Queued", "Running"} /\ b \in Outcome

Records ==
    /\ up => \A t \in Tasks : tasks[t] = "Absent" <=> diskTask[t] = "Absent"
    /\ up /\ lock.op # "boot" => \A t \in Tasks : Moves(diskTask[t], tasks[t])
    /\ lock.op = "boot" =>
         \A t \in Tasks : tasks[t] = IF diskTask[t] = "Running" THEN "Failed" ELSE diskTask[t]
    /\ lock.op \notin {"free", "add"} =>
         \A t \in Tasks : t \in lock.todo \/ tasks[t] = diskTask[t]
    /\ \A t \in Tasks : t \in lock.todo => tasks[t] # "Absent"

LEMMA RecordsStep ==
    ASSUME Typed, Typed', Exclusive, Records, [Next]_vars
    PROVE  Records'
<1> USE DEF Typed
<1>0. tasks \in [Tasks -> Status] /\ diskTask \in [Tasks -> Status]
  BY DEF TypeOK
<1>1. ASSUME NEW t \in Tasks, AddTask(t) PROVE Records'
  <2>1. up /\ lock.op = "free" /\ lock'.op = "add" /\ lock'.todo = {}
    BY <1>1, Acquired
  <2>2. up' = up /\ tasks' = tasks /\ diskTask' = diskTask
    BY <1>1 DEF AddTask
  <2> QED BY <2>1, <2>2 DEF Records
<1>2. ASSUME up' = up, tasks' = tasks, diskTask' = diskTask, lock' = lock PROVE Records'
  BY <1>2 DEF Records
<1>3. ASSUME NEW t \in Tasks, NotifyOne(t) PROVE Records'
  BY <1>2, <1>3 DEF NotifyOne
<1>4. ASSUME NEW t \in Tasks, Update(t) PROVE Records'
  <2>1. lock.op = "free" /\ lock' = lock /\ lock.todo = {} /\ up' = up /\ tasks' = tasks
    BY <1>4, FreeFacts DEF Update, Acquire
  <2>2. /\ tasks[t] # "Absent" /\ diskTask'[t] = tasks[t]
        /\ \A u \in Tasks \ {t} : diskTask'[u] = diskTask[u]
    BY <1>0, <1>4 DEF Update, Stale
  <2> QED BY <2>1, <2>2 DEF Records, Moves
<1>5. ASSUME up', lock'.op \notin {"free", "add", "boot"}, up, lock.op = "free",
             lock'.todo = Stale(tasks'), diskTask' = diskTask,
             NEW t \in Tasks, \A u \in Tasks \ {t} : tasks'[u] = tasks[u],
             Moves(diskTask[t], tasks'[t]), tasks'[t] = "Absent" <=> diskTask[t] = "Absent"
      PROVE  Records'
  <2>1. \A u \in Tasks : u \in Stale(tasks') <=> tasks'[u] # "Absent" /\ diskTask[u] # tasks'[u]
    BY DEF Stale
  <2> QED BY <1>5, <2>1 DEF Records
<1>6. ASSUME NEW t \in Tasks, CancelQueued(t) PROVE Records'
  <2>1. up /\ lock.op = "free" /\ lock'.op = "forced" /\ lock'.todo = Stale(tasks')
    BY <1>6, Acquired
  <2>2. /\ tasks[t] = "Queued" /\ tasks'[t] = "Canceled"
        /\ \A u \in Tasks \ {t} : tasks'[u] = tasks[u]
    BY <1>0, <1>6 DEF CancelQueued
  <2>3. up' = up /\ diskTask' = diskTask
    BY <1>6 DEF CancelQueued
  <2>4. diskTask[t] = "Queued"
    BY <2>1, <2>2 DEF Records, Moves, Outcome
  <2> QED BY <1>5, <2>1, <2>2, <2>3, <2>4 DEF Moves, Outcome
<1>7. ASSUME NEW t \in Tasks, CancelRunning(t) \/ CancelFinished(t) PROVE Records'
  <2>1. /\ up /\ lock.op = "free" /\ lock'.op \in {"requested", "finished"}
        /\ lock'.todo = Stale(tasks')
    BY <1>7, Acquired
  <2>2. up' = up /\ diskTask' = diskTask /\ tasks' = tasks
    BY <1>7 DEF CancelRunning, CancelFinished
  <2>3. Moves(diskTask[t], tasks[t]) /\ (tasks[t] = "Absent" <=> diskTask[t] = "Absent")
    BY <2>1 DEF Records
  <2> QED BY <1>5, <2>1, <2>2, <2>3
<1>8. ASSUME NEW w \in Workers, PopNone(w) \/ Poll(w) PROVE Records'
  BY <1>2, <1>8 DEF PopNone, Poll
<1>9. ASSUME NEW w \in Workers, Pop(w) PROVE Records'
  <2> DEFINE t == Head(queue)
  <2>1. /\ up /\ lock.op = "free" /\ t \in Tasks
        /\ lock'.op = "start" /\ lock'.todo = Stale(tasks')
    BY <1>9, Acquired
  <2>2. tasks[t] = "Queued" /\ tasks' = [tasks EXCEPT ![t] = "Running"]
    BY <1>9 DEF Pop
  <2>3. up' = up /\ diskTask' = diskTask
    BY <1>9 DEF Pop
  <2> HIDE DEF t
  <2>4. diskTask[t] = "Queued"
    BY <2>1, <2>2 DEF Records, Moves, Outcome
  <2>5. tasks'[t] = "Running" /\ \A u \in Tasks \ {t} : tasks'[u] = tasks[u]
    BY <1>0, <2>1, <2>2
  <2> QED BY <1>5, <2>1, <2>3, <2>4, <2>5 DEF Moves
<1>10. ASSUME NEW w \in Workers, NEW o \in Outcome, Finish(w, o) PROVE Records'
  <2> DEFINE t == worker[w].task
  <2>1. up /\ lock.op = "free" /\ lock'.op = "finish" /\ lock'.todo = Stale(tasks')
    BY <1>10, Acquired
  <2>2. t \in Tasks /\ tasks[t] = "Running"
    BY <1>10, <2>1, TaskManagerAssumption DEF Finish, Exclusive
  <2>3. tasks'[t] \in Outcome /\ \A u \in Tasks \ {t} : tasks'[u] = tasks[u]
    BY <1>0, <1>10, <2>2 DEF Finish, FinalOutcome, Outcome
  <2>4. up' = up /\ diskTask' = diskTask
    BY <1>10 DEF Finish
  <2> HIDE DEF t
  <2>5. diskTask[t] \in {"Queued", "Running"}
    BY <2>1, <2>2 DEF Records, Moves, Outcome
  <2> QED BY <1>5, <2>1, <2>2, <2>3, <2>4, <2>5 DEF Moves, Outcome
<1>11. ASSUME SaveQueue \/ QueueAdd PROVE Records'
  <2>1. lock'.op = lock.op /\ lock'.todo = lock.todo
    BY <1>11, Written
  <2>2. up' = up /\ tasks' = tasks /\ diskTask' = diskTask
    BY <1>11 DEF SaveQueue, QueueAdd
  <2> QED BY <2>1, <2>2 DEF Records
<1>12. ASSUME NEW t \in Tasks, SaveTask(t) PROVE Records'
  <2>1. lock'.op = lock.op /\ lock'.todo = lock.todo \ {t} /\ t \in lock.todo
    BY <1>12, Written DEF SaveTask
  <2>2. /\ up' = up /\ tasks' = tasks /\ diskTask'[t] = tasks[t]
        /\ \A u \in Tasks \ {t} : diskTask'[u] = diskTask[u]
    BY <1>0, <1>12 DEF SaveTask
  <2> QED BY <2>1, <2>2 DEF Records, Moves
<1>13. ASSUME QueueAddFails \/ PromoteFails \/ CancelAnswered \/ RunTask \/ Finished PROVE Records'
  <2>1. lock'.op = "free" /\ lock'.todo = {} /\ lock.op # "boot"
    BY <1>13, Released DEF QueueAddFails, PromoteFails, CancelAnswered, RunTask, Finished
  <2>2. up' = up /\ tasks' = tasks /\ diskTask' = diskTask
    BY <1>13 DEF QueueAddFails, PromoteFails, CancelAnswered, RunTask, Finished
  <2> QED BY <2>1, <2>2 DEF Records
<1>14. CASE Promote
  <2>1. lock'.op = "free" /\ lock'.todo = {} /\ lock.op = "add" /\ lock.task \in Tasks
    BY <1>14, Released DEF Promote, LockShape
  <2>2. /\ up' = up
        /\ tasks' = [tasks EXCEPT ![lock.task] = "Queued"]
        /\ diskTask' = [diskTask EXCEPT ![lock.task] = "Queued"]
    BY <1>14 DEF Promote
  <2> QED BY <1>0, <2>1, <2>2 DEF Records, Moves
<1>15. CASE Booted
  <2>1. lock'.op = "free" /\ lock'.todo = {} /\ lock.op = "boot" /\ lock.todo = {}
    BY <1>15, Released DEF Booted, Persisted
  <2>2. up' = up /\ tasks' = tasks /\ diskTask' = diskTask
    BY <1>15 DEF Booted
  <2> QED BY <2>1, <2>2 DEF Records, Moves
<1>16. ASSUME BootFails \/ Crash PROVE Records'
  <2>1. lock'.op = "free" /\ lock'.todo = {} /\ ~up'
    BY <1>16, Released DEF BootFails, Crash, Down
  <2> QED BY <2>1 DEF Records
<1>17. CASE Boot
  <2>1. lock'.op = "boot" /\ lock'.todo = Stale(tasks')
    BY <1>17, Acquired
  <2>2. tasks' = Recovered(diskTask) /\ diskTask' = diskTask
    BY <1>17 DEF Boot
  <2>3. \A t \in Tasks : tasks'[t] = IF diskTask[t] = "Running" THEN "Failed" ELSE diskTask[t]
    BY <2>2 DEF Recovered
  <2>4. \A t \in Tasks : t \in Stale(tasks') <=> tasks'[t] # "Absent" /\ diskTask[t] # tasks'[t]
    BY DEF Stale
  <2> QED BY <2>1, <2>2, <2>3, <2>4 DEF Records
<1>18. CASE UNCHANGED vars
  BY <1>2, <1>18
<1> QED
  BY <1>1, <1>3, <1>4, <1>6, <1>7, <1>8, <1>9, <1>10, <1>11, <1>12, <1>13, <1>14, <1>15,
     <1>16, <1>17, <1>18
  DEF Next, TaskStep, WorkerStep, LockStep

-----------------------------------------------------------------------------
(* How a record on disk may change, and that the records implement the       *)
(* abstract board.                                                           *)

LEMMA DiskStep ==
    ASSUME Typed, Exclusive, Records, [Next]_vars
    PROVE  \/ diskTask' = diskTask
           \/ /\ Promote /\ lock.task \in Tasks /\ diskTask[lock.task] = "Absent"
              /\ diskTask' = [diskTask EXCEPT ![lock.task] = "Queued"]
           \/ \E t \in Tasks :
                /\ up /\ up' = up /\ tasks' = tasks /\ lock'.op = lock.op
                /\ tasks[t] # "Absent"
                /\ diskTask' = [diskTask EXCEPT ![t] = tasks[t]]
<1> USE DEF Typed
<1>1. ASSUME NEW t \in Tasks, SaveTask(t) PROVE \E u \in Tasks :
                /\ up /\ up' = up /\ tasks' = tasks /\ lock'.op = lock.op
                /\ tasks[u] # "Absent"
                /\ diskTask' = [diskTask EXCEPT ![u] = tasks[u]]
  <2>1. lock.op # "free" /\ lock'.op = lock.op
    BY <1>1, Written
  <2>2. up /\ t \in lock.todo /\ tasks[t] # "Absent"
    BY <1>1, <2>1 DEF SaveTask, LockShape, Records
  <2> QED BY <1>1, <2>1, <2>2 DEF SaveTask
<1>2. ASSUME NEW t \in Tasks, Update(t) PROVE \E u \in Tasks :
                /\ up /\ up' = up /\ tasks' = tasks /\ lock'.op = lock.op
                /\ tasks[u] # "Absent"
                /\ diskTask' = [diskTask EXCEPT ![u] = tasks[u]]
  BY <1>2 DEF Update, Acquire, Stale
<1>3. CASE Promote
  <2>1. lock.op = "add" /\ up /\ lock.task \in Tasks /\ tasks[lock.task] = "Absent"
    BY <1>3 DEF Promote, LockShape, Exclusive
  <2> QED BY <1>3, <2>1 DEF Promote, Records
<1>4. ASSUME NEW t \in Tasks, AddTask(t) \/ NotifyOne(t) \/ CancelQueued(t) \/ CancelRunning(t)
                              \/ CancelFinished(t)
      PROVE  diskTask' = diskTask
  BY <1>4 DEF AddTask, NotifyOne, CancelQueued, CancelRunning, CancelFinished
<1>5. ASSUME NEW w \in Workers, PopNone(w) \/ Pop(w) \/ Poll(w) \/ \E o \in Outcome : Finish(w, o)
      PROVE  diskTask' = diskTask
  BY <1>5 DEF PopNone, Pop, Poll, Finish
<1>6. ASSUME \/ SaveQueue \/ QueueAdd \/ QueueAddFails \/ PromoteFails \/ RunTask \/ Finished
             \/ CancelAnswered \/ Booted \/ BootFails \/ Boot \/ Crash \/ UNCHANGED vars
      PROVE  diskTask' = diskTask
  BY <1>6 DEF SaveQueue, QueueAdd, QueueAddFails, PromoteFails, RunTask, Finished,
              CancelAnswered, Booted, BootFails, Boot, Crash, Down
<1> QED
  BY <1>1, <1>2, <1>3, <1>4, <1>5, <1>6 DEF Next, TaskStep, WorkerStep, LockStep

(* A record that has an outcome keeps it, one that has begun stays begun, and *)
(* none disappears.                                                          *)
Begun == {"Running"} \cup Outcome

LEMMA DiskMoves ==
    ASSUME Typed, Exclusive, Records, [Next]_vars, NEW t \in Tasks
    PROVE  /\ diskTask[t] \in Outcome => diskTask'[t] = diskTask[t]
           /\ diskTask[t] \in Begun => diskTask'[t] \in Begun
           /\ diskTask[t] # "Absent" => diskTask'[t] # "Absent"
<1>1. diskTask \in [Tasks -> Status] /\ tasks \in [Tasks -> Status]
  BY DEF Typed, TypeOK
<1>2. CASE diskTask' = diskTask
  BY <1>2
<1>3. CASE /\ Promote /\ lock.task \in Tasks /\ diskTask[lock.task] = "Absent"
           /\ diskTask' = [diskTask EXCEPT ![lock.task] = "Queued"]
  BY <1>1, <1>3 DEF Begun, Outcome
<1>4. ASSUME NEW u \in Tasks, up, tasks[u] # "Absent",
             diskTask' = [diskTask EXCEPT ![u] = tasks[u]]
      PROVE  /\ diskTask[t] \in Outcome => diskTask'[t] = diskTask[t]
             /\ diskTask[t] \in Begun => diskTask'[t] \in Begun
             /\ diskTask[t] # "Absent" => diskTask'[t] # "Absent"
  <2>1. CASE lock.op # "boot"
    BY <1>1, <1>4, <2>1 DEF Records, Moves, Begun, Outcome
  <2>2. CASE lock.op = "boot"
    BY <1>1, <1>4, <2>2 DEF Records, Begun, Outcome
  <2> QED BY <2>1, <2>2
<1> QED BY <1>2, <1>3, <1>4, DiskStep

-----------------------------------------------------------------------------
(* The safety invariants that follow the record of a task.                   *)

Core == Typed /\ Exclusive /\ Records

LEMMA CoreInit == Init => Core
<1> SUFFICES ASSUME Init PROVE Core
  OBVIOUS
<1>1. Typed
  BY TypeInit DEF Typed
<1>2. lock.op = "free" /\ lock.todo = {} /\ ~up
  BY FreeFacts DEF Init
<1>3. Exclusive
  BY <1>2 DEF Init, Exclusive, Idle
<1>4. Records
  BY <1>2 DEF Records
<1> QED BY <1>1, <1>3, <1>4 DEF Core

LEMMA CoreStep == Core /\ [Next]_vars => Core'
<1> SUFFICES ASSUME Core, [Next]_vars PROVE Core'
  OBVIOUS
<1>1. Typed'
  BY TypeStep DEF Core, Typed
<1> QED BY <1>1, ExclusiveStep, RecordsStep DEF Core

(* An add that left the mutex has promoted its record.                       *)
Promised == \A t \in notifying \cup accepted : diskTask[t] # "Absent"

LEMMA PromisedStep == ASSUME Core, Promised, [Next]_vars PROVE Promised'
<1>1. /\ notifying \in SUBSET Tasks /\ accepted \in SUBSET Tasks
      /\ diskTask \in [Tasks -> Status]
  BY DEF Core, Typed, TypeOK
<1>2. ASSUME notifying' \cup accepted' \subseteq notifying \cup accepted PROVE Promised'
  BY <1>1, <1>2, DiskMoves DEF Core, Promised
<1>3. CASE Promote
  <2>1. lock.task \in Tasks
    BY <1>3 DEF Promote, Core, Typed, LockShape
  <2>2. notifying' = notifying \cup {lock.task} /\ accepted' = accepted
    BY <1>3 DEF Promote
  <2>3. diskTask' = [diskTask EXCEPT ![lock.task] = "Queued"]
    BY <1>3 DEF Promote
  <2> QED BY <1>1, <2>1, <2>2, <2>3 DEF Promised
<1>4. ASSUME NEW t \in Tasks, AddTask(t) \/ Update(t) \/ CancelQueued(t) \/ CancelRunning(t)
                              \/ CancelFinished(t) \/ SaveTask(t)
      PROVE  Promised'
  BY <1>2, <1>4 DEF AddTask, Update, CancelQueued, CancelRunning, CancelFinished, SaveTask
<1>5. ASSUME NEW t \in Tasks, NotifyOne(t) PROVE Promised'
  <2>1. t \in notifying /\ notifying' = notifying \ {t} /\ accepted' = accepted \cup {t}
    BY <1>5 DEF NotifyOne
  <2> QED BY <1>2, <2>1
<1>6. ASSUME NEW w \in Workers, PopNone(w) \/ Pop(w) \/ Poll(w) \/ \E o \in Outcome : Finish(w, o)
      PROVE  Promised'
  BY <1>2, <1>6 DEF PopNone, Pop, Poll, Finish
<1>7. ASSUME \/ SaveQueue \/ QueueAdd \/ QueueAddFails \/ PromoteFails \/ RunTask \/ Finished
             \/ CancelAnswered \/ Booted \/ BootFails \/ Boot \/ Crash \/ UNCHANGED vars
      PROVE  Promised'
  BY <1>2, <1>7 DEF SaveQueue, QueueAdd, QueueAddFails, PromoteFails, RunTask, Finished,
                    CancelAnswered, Booted, BootFails, Boot, Crash, Down
<1> QED
  BY <1>3, <1>4, <1>5, <1>6, <1>7 DEF Next, TaskStep, WorkerStep, LockStep

(* A task that has begun, with its start written, has begun once, and no     *)
(* worker is about to start it.                                              *)
StartedOnce ==
    \A t \in Tasks :
       started[t] > 0 /\ t \notin unsaved =>
          /\ started[t] = 1
          /\ diskTask[t] \in Begun
          /\ ~(lock.op = "start" /\ lock.task = t)

LEMMA StartedStep == ASSUME Core, Core', StartedOnce, [Next]_vars PROVE StartedOnce'
<1>1. started \in [Tasks -> Nat]
  BY DEF Core, Typed, TypeOK
<1>2. ASSUME started' = started, unsaved' = unsaved,
             lock'.op # "start" \/ (lock'.op = lock.op /\ lock'.task = lock.task)
      PROVE  StartedOnce'
  BY <1>2, DiskMoves DEF Core, StartedOnce
<1>3. ASSUME NEW w \in Workers, Pop(w) PROVE StartedOnce'
  <2> DEFINE t == Head(queue)
  <2>1. t \in Tasks /\ up /\ lock.op = "free" /\ lock'.task = t
    BY <1>3, Acquired DEF Core, Typed
  <2>2. /\ tasks[t] = "Queued" /\ diskTask' = diskTask /\ started' = started
        /\ unsaved' = unsaved
    BY <1>3 DEF Pop
  <2> HIDE DEF t
  <2>3. diskTask[t] = "Queued"
    BY <2>1, <2>2 DEF Core, Records, Moves, Outcome
  <2>4. diskTask[t] \notin Begun
    BY <2>3 DEF Begun, Outcome
  <2> QED BY <2>1, <2>2, <2>4 DEF StartedOnce
<1>4. CASE RunTask
  <2>1. lock'.op = "free" /\ lock.op = "start" /\ lock.task \in Tasks
    BY <1>4, Released DEF RunTask, Core, Typed, LockShape
  <2>2. /\ started' = [started EXCEPT ![lock.task] = @ + 1]
        /\ unsaved' = IF diskTask[lock.task] = "Running" THEN unsaved ELSE unsaved \cup {lock.task}
        /\ diskTask' = diskTask
    BY <1>4 DEF RunTask
  <2>3. started'[lock.task] = started[lock.task] + 1 /\ started[lock.task] \in Nat
    BY <1>1, <2>1, <2>2
  <2>4. \A t \in Tasks \ {lock.task} : started'[t] = started[t]
    BY <1>1, <2>2
  <2>5. ASSUME lock.task \notin unsaved'
        PROVE  started'[lock.task] = 1 /\ diskTask'[lock.task] \in Begun
    <3>1. lock.task \notin unsaved /\ diskTask[lock.task] = "Running"
      BY <2>2, <2>5
    <3>2. started[lock.task] = 0
      BY <2>1, <2>3, <3>1 DEF StartedOnce
    <3> QED BY <2>2, <2>3, <3>1, <3>2 DEF Begun
  <2> QED BY <2>1, <2>2, <2>4, <2>5 DEF StartedOnce
<1>5. ASSUME NEW t \in Tasks, AddTask(t) \/ CancelQueued(t) \/ CancelRunning(t) \/ CancelFinished(t)
      PROVE  StartedOnce'
  <2>1. lock'.op # "start"
    BY <1>5, Acquired DEF Core, Typed
  <2> QED BY <1>2, <1>5, <2>1 DEF AddTask, CancelQueued, CancelRunning, CancelFinished
<1>6. ASSUME NEW t \in Tasks, NotifyOne(t) \/ Update(t) PROVE StartedOnce'
  BY <1>2, <1>6 DEF NotifyOne, Update
<1>7. ASSUME NEW w \in Workers, PopNone(w) \/ Poll(w) PROVE StartedOnce'
  BY <1>2, <1>7 DEF PopNone, Poll
<1>8. ASSUME NEW w \in Workers, NEW o \in Outcome, Finish(w, o) PROVE StartedOnce'
  <2>1. lock'.op # "start"
    BY <1>8, Acquired DEF Core, Typed
  <2> QED BY <1>2, <1>8, <2>1 DEF Finish
<1>9. ASSUME SaveQueue \/ QueueAdd \/ \E t \in Tasks : SaveTask(t) PROVE StartedOnce'
  <2>1. lock'.op = lock.op /\ lock'.task = lock.task
    BY <1>9, Written DEF Core, Typed
  <2> QED BY <1>2, <1>9, <2>1 DEF SaveQueue, QueueAdd, SaveTask
<1>10. ASSUME \/ QueueAddFails \/ Promote \/ PromoteFails \/ Finished \/ CancelAnswered
              \/ Booted \/ BootFails \/ Crash
       PROVE  StartedOnce'
  <2>1. lock'.op # "start"
    BY <1>10, Released
  <2> QED BY <1>2, <1>10, <2>1 DEF QueueAddFails, Promote, PromoteFails, Finished,
                                   CancelAnswered, Booted, BootFails, Crash, Down
<1>11. CASE Boot
  <2>1. lock'.op # "start"
    BY <1>11, Acquired DEF Core, Typed
  <2> QED BY <1>2, <1>11, <2>1 DEF Boot
<1>12. CASE UNCHANGED vars
  BY <1>2, <1>12
<1> QED
  BY <1>3, <1>4, <1>5, <1>6, <1>7, <1>8, <1>9, <1>10, <1>11, <1>12
  DEF Next, TaskStep, WorkerStep, LockStep

(* CanceledStays, and the status a forced cancellation under way has set.    *)
Forced ==
    /\ CanceledStays
    /\ lock.op = "forced" => tasks[lock.task] = "Canceled"

LEMMA ForcedStep == ASSUME Core, Core', Forced, [Next]_vars PROVE Forced'
<1> USE DEF Core, Typed
<1>1. /\ canceled \in SUBSET Tasks /\ worker \in [Workers -> WorkerState]
      /\ tasks \in [Tasks -> Status]
  BY DEF TypeOK
<1>2. \A t \in canceled : diskTask'[t] = "Canceled"
  BY <1>1, DiskMoves DEF Forced, CanceledStays, Outcome
<1>3. ASSUME canceled' = canceled, \A w \in Workers : worker'[w].task \in {worker[w].task, NoTask},
             \/ lock'.op # "forced"
             \/ lock'.op = lock.op /\ lock'.task = lock.task /\ tasks' = tasks
      PROVE  Forced'
  BY <1>1, <1>2, <1>3, TaskManagerAssumption DEF Forced, CanceledStays
<1>4. ASSUME NEW t \in Tasks, CancelQueued(t) PROVE Forced'
  <2>1. lock'.task = t
    BY <1>4, Acquired
  <2>2. tasks'[t] = "Canceled" /\ worker' = worker /\ canceled' = canceled
    BY <1>1, <1>4 DEF CancelQueued
  <2> QED BY <1>2, <2>1, <2>2 DEF Forced, CanceledStays
<1>5. ASSUME NEW w \in Workers, Pop(w) PROVE Forced'
  <2> DEFINE t == Head(queue)
  <2>1. t \in Tasks /\ up /\ lock.op = "free" /\ lock'.op = "start"
    BY <1>5, Acquired
  <2>2. /\ tasks[t] = "Queued" /\ canceled' = canceled
        /\ worker' = [worker EXCEPT ![w] = [pc |-> "starting", task |-> t]]
    BY <1>5 DEF Pop
  <2> HIDE DEF t
  <2>3. diskTask[t] = "Queued"
    BY <2>1, <2>2 DEF Records, Moves, Outcome
  <2>4. worker'[w].task = t /\ \A v \in Workers \ {w} : worker'[v] = worker[v]
    BY <1>1, <2>1, <2>2, AssignFacts
  <2> QED BY <1>2, <2>1, <2>2, <2>3, <2>4 DEF Forced, CanceledStays
<1>6. CASE CancelAnswered
  <2>1. lock'.op = "free" /\ lock.op \in {"forced", "requested", "finished"} /\ worker' = worker
    BY <1>6, Released DEF CancelAnswered
  <2>2. CASE canceled' = canceled
    BY <1>3, <2>1, <2>2
  <2>3. ASSUME canceled' # canceled PROVE Forced'
    <3>1. lock.op = "forced" /\ canceled' = canceled \cup {lock.task} /\ lock.todo = {}
      BY <1>6, <2>3 DEF CancelAnswered, Persisted
    <3>2. lock.task \in Tasks /\ tasks[lock.task] = "Canceled" /\ diskTask' = diskTask
      BY <1>6, <3>1 DEF Forced, LockShape, CancelAnswered
    <3>3. diskTask[lock.task] = "Canceled"
      BY <3>1, <3>2 DEF Records
    <3>4. \A w \in Workers : worker[w].task # lock.task
      BY <3>1, <3>2, TaskManagerAssumption DEF Exclusive
    <3> QED BY <1>2, <2>1, <3>1, <3>2, <3>3, <3>4 DEF Forced, CanceledStays
  <2> QED BY <2>2, <2>3
<1>7. ASSUME NEW t \in Tasks, AddTask(t) \/ CancelRunning(t) \/ CancelFinished(t) PROVE Forced'
  <2>1. lock'.op # "forced"
    BY <1>7, Acquired
  <2> QED BY <1>3, <1>7, <2>1 DEF AddTask, CancelRunning, CancelFinished
<1>8. ASSUME NEW w \in Workers, NEW pc \in {"loop", "wait", "parked", "exec"},
             worker' = [worker EXCEPT ![w].pc = pc], canceled' = canceled,
             lock' = lock \/ lock'.op = "free", tasks' = tasks
      PROVE  Forced'
  <2>1. \A v \in Workers : worker'[v].task = worker[v].task
    BY <1>1, <1>8, GotoFacts
  <2> QED BY <1>3, <1>8, <2>1
<1>9. ASSUME NEW t \in Tasks, NotifyOne(t) PROVE Forced'
  <2>1. CASE worker' = worker
    BY <1>3, <1>9, <2>1 DEF NotifyOne
  <2> QED BY <1>8, <1>9, <2>1 DEF NotifyOne
<1>10. ASSUME NEW t \in Tasks, Update(t) PROVE Forced'
  BY <1>3, <1>10 DEF Update
<1>11. ASSUME NEW w \in Workers, PopNone(w) \/ Poll(w) PROVE Forced'
  BY <1>8, <1>11 DEF PopNone, Poll, Goto
<1>12. ASSUME NEW w \in Workers, NEW o \in Outcome, Finish(w, o) PROVE Forced'
  <2>1. lock'.op # "forced"
    BY <1>12, Acquired
  <2> QED BY <1>3, <1>12, <2>1 DEF Finish
<1>13. ASSUME SaveQueue \/ QueueAdd \/ \E t \in Tasks : SaveTask(t) PROVE Forced'
  <2>1. lock'.op = lock.op /\ lock'.task = lock.task
    BY <1>13, Written
  <2> QED BY <1>3, <1>13, <2>1 DEF SaveQueue, QueueAdd, SaveTask
<1>14. CASE RunTask
  <2>1. lock'.op = "free" /\ lock.worker \in Workers
    BY <1>14, Released DEF RunTask, LockShape
  <2> QED BY <1>8, <1>14, <2>1 DEF RunTask, Goto
<1>15. CASE Finished
  <2>1. lock'.op = "free" /\ lock.worker \in Workers
    BY <1>15, Released DEF Finished, LockShape
  <2>2. /\ worker' = [worker EXCEPT ![lock.worker] = [pc |-> "loop", task |-> NoTask]]
        /\ canceled' = canceled
    BY <1>15 DEF Finished
  <2>3. \A v \in Workers : worker'[v].task \in {worker[v].task, NoTask}
    BY <1>1, <2>1, <2>2, AssignFacts
  <2> QED BY <1>3, <2>1, <2>2, <2>3
<1>16. ASSUME QueueAddFails \/ Promote \/ PromoteFails PROVE Forced'
  <2>1. lock'.op # "forced"
    BY <1>16, Released
  <2> QED BY <1>3, <1>16, <2>1 DEF QueueAddFails, Promote, PromoteFails
<1>17. ASSUME Booted \/ BootFails \/ Crash PROVE Forced'
  <2>1. lock'.op # "forced"
    BY <1>17, Released
  <2>2. \A w \in Workers : worker'[w].task = NoTask
    <3>1. CASE Booted
      BY <3>1 DEF Booted
    <3>2. CASE Down
      BY <3>2 DEF Down, Idle
    <3> QED BY <1>17, <3>1, <3>2 DEF BootFails, Crash
  <2>3. canceled' = canceled
    BY <1>17 DEF Booted, BootFails, Crash, Down
  <2> QED BY <1>3, <2>1, <2>2, <2>3
<1>18. CASE Boot
  <2>1. lock'.op # "forced"
    BY <1>18, Acquired
  <2> QED BY <1>3, <1>18, <2>1 DEF Boot
<1>19. CASE UNCHANGED vars
  BY <1>3, <1>19
<1> QED
  BY <1>4, <1>5, <1>6, <1>7, <1>9, <1>10, <1>11, <1>12, <1>13, <1>14, <1>15, <1>16, <1>17,
     <1>18, <1>19
  DEF Next, TaskStep, WorkerStep, LockStep

(* A task whose cancellation was requested has begun and has not completed,  *)
(* and while it runs its token is cancelled, which finish_task will read.    *)
Stopped == {"Running", "Failed", "Canceled"}

Requested ==
    /\ \A t \in Tasks : tasks[t] = "Running" => token[t] # "none"
    /\ lock.op = "requested" =>
         tasks[lock.task] = "Running" /\ token[lock.task] = "cancelled"
    /\ \A t \in requested :
         /\ diskTask[t] \in Stopped
         /\ tasks[t] \in Stopped \cup {"Absent"}
         /\ tasks[t] = "Running" => token[t] = "cancelled"

LEMMA RequestedStep == ASSUME Core, Core', Requested, [Next]_vars PROVE Requested'
<1> USE DEF Core, Typed
<1>1. /\ requested \in SUBSET Tasks /\ tasks \in [Tasks -> Status]
      /\ token \in [Tasks -> {"none", "live", "cancelled"}] /\ diskTask \in [Tasks -> Status]
  BY DEF TypeOK
<1>2. \A t \in requested : diskTask'[t] \in Stopped
  <2> SUFFICES ASSUME NEW t \in requested PROVE diskTask'[t] \in Stopped
    OBVIOUS
  <2>1. CASE diskTask' = diskTask
    BY <2>1 DEF Requested
  <2>2. CASE /\ lock.task \in Tasks /\ diskTask[lock.task] = "Absent"
             /\ diskTask' = [diskTask EXCEPT ![lock.task] = "Queued"]
    <3>1. lock.task # t
      BY <2>2 DEF Requested, Stopped
    <3> QED BY <1>1, <2>2, <3>1 DEF Requested
  <2>3. ASSUME NEW u \in Tasks, tasks[u] # "Absent", diskTask' = [diskTask EXCEPT ![u] = tasks[u]]
        PROVE  diskTask'[t] \in Stopped
    BY <1>1, <2>3 DEF Requested
  <2> QED BY <2>1, <2>2, <2>3, DiskStep
<1>3. ASSUME tasks' = tasks, token' = token, requested' = requested,
             lock'.op # "requested" \/ (lock'.op = lock.op /\ lock'.task = lock.task)
      PROVE  Requested'
  BY <1>2, <1>3 DEF Requested
<1>4. ASSUME NEW t \in Tasks, tasks' = [tasks EXCEPT ![t] = "Queued"]
                               \/ tasks' = [tasks EXCEPT ![t] = "Canceled"],
             tasks[t] \in {"Absent", "Queued"}, up,
             token' = token, requested' = requested, lock'.op # "requested"
      PROVE  Requested'
  <2>1. t \notin requested
    BY <1>4 DEF Requested, Stopped, Records
  <2>2. tasks'[t] \in {"Queued", "Canceled"} /\ \A u \in Tasks \ {t} : tasks'[u] = tasks[u]
    BY <1>1, <1>4
  <2> QED BY <1>1, <1>2, <1>4, <2>1, <2>2 DEF Requested
<1>5. ASSUME NEW t \in Tasks, CancelQueued(t) PROVE Requested'
  <2>1. up /\ lock'.op # "requested"
    BY <1>5, Acquired
  <2>2. tasks' = [tasks EXCEPT ![t] = "Canceled"] /\ tasks[t] = "Queued"
    BY <1>5 DEF CancelQueued
  <2> QED BY <1>4, <1>5, <2>1, <2>2 DEF CancelQueued
<1>6. CASE Promote
  <2>1. up /\ lock'.op # "requested" /\ lock.task \in Tasks /\ tasks[lock.task] = "Absent"
    BY <1>6, Released DEF Promote, LockShape, Exclusive
  <2>2. tasks' = [tasks EXCEPT ![lock.task] = "Queued"]
    BY <1>6 DEF Promote
  <2> QED BY <1>4, <1>6, <2>1, <2>2 DEF Promote
<1>7. ASSUME NEW w \in Workers, Pop(w) PROVE Requested'
  <2> DEFINE t == Head(queue)
  <2>1. t \in Tasks /\ lock'.op = "start"
    BY <1>7, Acquired
  <2>2. /\ tasks[t] = "Queued" /\ tasks' = [tasks EXCEPT ![t] = "Running"]
        /\ token' = [token EXCEPT ![t] = "live"] /\ requested' = requested
    BY <1>7 DEF Pop
  <2> HIDE DEF t
  <2>3. t \notin requested
    BY <2>2 DEF Requested, Stopped
  <2>4. /\ token'[t] = "live"
        /\ \A u \in Tasks \ {t} : tasks'[u] = tasks[u] /\ token'[u] = token[u]
    BY <1>1, <2>1, <2>2
  <2> QED BY <1>1, <1>2, <2>1, <2>2, <2>3, <2>4 DEF Requested
<1>8. ASSUME NEW w \in Workers, NEW o \in Outcome, Finish(w, o) PROVE Requested'
  <2> DEFINE t == worker[w].task
  <2>1. lock.op = "free" /\ lock'.op = "finish"
    BY <1>8, Acquired
  <2>2. t \in Tasks /\ tasks[t] = "Running"
    BY <1>8, <2>1, TaskManagerAssumption DEF Finish, Exclusive
  <2>3. /\ tasks' = [tasks EXCEPT ![t] = FinalOutcome(t, o)]
        /\ token' = [token EXCEPT ![t] = "none"] /\ requested' = requested
    BY <1>8 DEF Finish
  <2> HIDE DEF t
  <2>4. /\ tasks'[t] = FinalOutcome(t, o)
        /\ \A u \in Tasks \ {t} : tasks'[u] = tasks[u] /\ token'[u] = token[u]
    BY <1>1, <2>2, <2>3
  <2>5. tasks'[t] # "Running" /\ (token[t] = "cancelled" => tasks'[t] \in Stopped)
    BY <1>8, <2>4 DEF FinalOutcome, Outcome, Stopped
  <2> QED BY <1>1, <1>2, <2>1, <2>2, <2>3, <2>4, <2>5 DEF Requested
<1>9. ASSUME NEW t \in Tasks, CancelRunning(t) PROVE Requested'
  <2>1. lock'.task = t
    BY <1>9, Acquired
  <2>2. /\ tasks[t] = "Running" /\ tasks' = tasks /\ requested' = requested
        /\ token' = [token EXCEPT ![t] = IF @ = "none" THEN @ ELSE "cancelled"]
    BY <1>9 DEF CancelRunning
  <2>3. token'[t] = "cancelled" /\ \A u \in Tasks \ {t} : token'[u] = token[u]
    BY <1>1, <2>2 DEF Requested
  <2> QED BY <1>1, <1>2, <2>1, <2>2, <2>3 DEF Requested
<1>10. CASE CancelAnswered
  <2>1. lock'.op = "free" /\ lock.op \in {"forced", "requested", "finished"}
    BY <1>10, Released DEF CancelAnswered
  <2>2. tasks' = tasks /\ token' = token /\ diskTask' = diskTask
    BY <1>10 DEF CancelAnswered
  <2>3. CASE requested' = requested
    BY <1>3, <2>1, <2>2, <2>3
  <2>4. ASSUME requested' # requested PROVE Requested'
    <3>1. lock.op = "requested" /\ requested' = requested \cup {lock.task} /\ lock.todo = {}
      BY <1>10, <2>4 DEF CancelAnswered, Persisted
    <3>2. /\ lock.task \in Tasks /\ tasks[lock.task] = "Running"
          /\ token[lock.task] = "cancelled"
      BY <3>1 DEF Requested, LockShape
    <3>3. diskTask[lock.task] = "Running"
      BY <3>1, <3>2 DEF Records
    <3> QED BY <2>1, <2>2, <3>1, <3>2, <3>3 DEF Requested, Stopped
  <2> QED BY <2>3, <2>4
<1>11. ASSUME NEW t \in Tasks, AddTask(t) \/ CancelFinished(t) PROVE Requested'
  <2>1. lock'.op # "requested"
    BY <1>11, Acquired
  <2> QED BY <1>3, <1>11, <2>1 DEF AddTask, CancelFinished
<1>12. ASSUME NEW t \in Tasks, NotifyOne(t) \/ Update(t) PROVE Requested'
  BY <1>3, <1>12 DEF NotifyOne, Update
<1>13. ASSUME NEW w \in Workers, PopNone(w) \/ Poll(w) PROVE Requested'
  BY <1>3, <1>13 DEF PopNone, Poll
<1>14. ASSUME SaveQueue \/ QueueAdd \/ \E t \in Tasks : SaveTask(t) PROVE Requested'
  <2>1. lock'.op = lock.op /\ lock'.task = lock.task
    BY <1>14, Written
  <2> QED BY <1>3, <1>14, <2>1 DEF SaveQueue, QueueAdd, SaveTask
<1>15. ASSUME QueueAddFails \/ PromoteFails \/ RunTask \/ Finished \/ Booted PROVE Requested'
  <2>1. lock'.op # "requested"
    BY <1>15, Released
  <2> QED BY <1>3, <1>15, <2>1 DEF QueueAddFails, PromoteFails, RunTask, Finished, Booted
<1>16. ASSUME BootFails \/ Crash PROVE Requested'
  <2>1. lock'.op # "requested"
    BY <1>16, Released
  <2>2. requested' = requested /\ \A t \in Tasks : tasks'[t] = "Absent"
    BY <1>16 DEF BootFails, Crash, Down
  <2> QED BY <1>1, <1>2, <2>1, <2>2 DEF Requested
<1>17. CASE Boot
  <2>1. lock'.op # "requested"
    BY <1>17, Acquired
  <2>2. tasks' = Recovered(diskTask) /\ diskTask' = diskTask /\ requested' = requested
    BY <1>17 DEF Boot
  <2>3. \A t \in Tasks : tasks'[t] = IF diskTask[t] = "Running" THEN "Failed" ELSE diskTask[t]
    BY <2>2 DEF Recovered
  <2> QED BY <1>1, <1>2, <2>1, <2>2, <2>3 DEF Requested, Stopped
<1>18. CASE UNCHANGED vars
  BY <1>3, <1>18
<1> QED
  BY <1>5, <1>6, <1>7, <1>8, <1>9, <1>10, <1>11, <1>12, <1>13, <1>14, <1>15, <1>16, <1>17,
     <1>18
  DEF Next, TaskStep, WorkerStep, LockStep

(* The queue against the records in memory.                                  *)
QueuedIn(new) == {t \in Tasks : new[t] = "Queued"}

LEMMA QueueForm ==
    QueueIsQueued <=> (up => Distinct(queue) /\ Elements(queue) = QueuedIn(tasks))
BY DEF QueueIsQueued, Distinct, Elements, QueuedIn

LEMMA QueueFormNext ==
    QueueIsQueued' <=> (up' => Distinct(queue') /\ Elements(queue') = QueuedIn(tasks'))
BY DEF QueueIsQueued, Distinct, Elements, QueuedIn

(* load_state keeps what queue.json repeats, so that nothing may be repeated *)
(* there.                                                                    *)
QueueFile == Distinct(diskQueue)

LEMMA QueueFileStep == ASSUME Core, QueueIsQueued, QueueFile, [Next]_vars PROVE QueueFile'
<1> USE DEF Core, Typed
<1>1. /\ queue \in Seq(Tasks) /\ tasks \in [Tasks -> Status]
      /\ (up => Distinct(queue) /\ Elements(queue) = QueuedIn(tasks))
  BY QueueForm DEF TypeOK
<1>2. ASSUME diskQueue' = diskQueue \/ (up /\ diskQueue' = queue) PROVE QueueFile'
  BY <1>1, <1>2 DEF QueueFile
<1>3. CASE SaveQueue
  <2>1. up
    BY <1>3, FreeFacts DEF SaveQueue, LockShape
  <2> QED BY <1>2, <1>3, <2>1 DEF SaveQueue
<1>4. CASE QueueAdd
  <2>1. lock.task \in Tasks /\ tasks[lock.task] = "Absent" /\ up
    BY <1>4 DEF QueueAdd, LockShape, Exclusive
  <2>2. lock.task \notin Elements(queue)
    BY <1>1, <2>1 DEF QueuedIn
  <2> QED BY <1>1, <1>4, <2>1, <2>2, AppendFacts DEF QueueAdd, QueueFile
<1>5. CASE PromoteFails
  <2>1. up
    BY <1>5 DEF PromoteFails, LockShape
  <2> QED BY <1>2, <1>5, <2>1 DEF PromoteFails
<1>6. ASSUME NEW w \in Workers, PopNone(w) PROVE QueueFile'
  <2>1. CASE queue = <<>>
    BY <1>2, <1>6, <2>1 DEF PopNone
  <2>2. CASE queue # <<>>
    <3>1. diskQueue' = Tail(queue) /\ up
      BY <1>6, <2>2 DEF PopNone, Acquire
    <3> QED BY <1>1, <2>2, <3>1, TailFacts DEF QueueFile
  <2> QED BY <2>1, <2>2
<1>7. ASSUME NEW t \in Tasks, AddTask(t) \/ NotifyOne(t) \/ Update(t) \/ CancelQueued(t)
                              \/ CancelRunning(t) \/ CancelFinished(t) \/ SaveTask(t)
      PROVE  QueueFile'
  BY <1>2, <1>7 DEF AddTask, NotifyOne, Update, CancelQueued, CancelRunning, CancelFinished,
                    SaveTask
<1>8. ASSUME NEW w \in Workers, Pop(w) \/ Poll(w) \/ \E o \in Outcome : Finish(w, o)
      PROVE  QueueFile'
  BY <1>2, <1>8 DEF Pop, Poll, Finish
<1>9. ASSUME \/ QueueAddFails \/ Promote \/ RunTask \/ Finished \/ CancelAnswered \/ Booted
             \/ BootFails \/ Boot \/ Crash \/ UNCHANGED vars
      PROVE  QueueFile'
  BY <1>2, <1>9 DEF QueueAddFails, Promote, RunTask, Finished, CancelAnswered, Booted,
                    BootFails, Boot, Crash, Down
<1> QED
  BY <1>3, <1>4, <1>5, <1>6, <1>7, <1>8, <1>9 DEF Next, TaskStep, WorkerStep, LockStep

LEMMA QueueStep ==
    ASSUME Core, Core', QueueIsQueued, QueueFile, [Next]_vars PROVE QueueIsQueued'
<1> USE DEF Core, Typed
<1>1. /\ queue \in Seq(Tasks) /\ diskQueue \in Seq(Tasks) /\ tasks \in [Tasks -> Status]
      /\ (up => Distinct(queue) /\ Elements(queue) = QueuedIn(tasks))
  BY QueueForm DEF TypeOK
<1>2. ASSUME up' = up, queue' = queue, QueuedIn(tasks') = QueuedIn(tasks) PROVE QueueIsQueued'
  BY <1>1, <1>2, QueueFormNext
<1>3. ASSUME up' = up, queue' = queue, tasks' = tasks PROVE QueueIsQueued'
  BY <1>2, <1>3
<1>4. ASSUME NEW t \in Tasks, AddTask(t) \/ NotifyOne(t) \/ Update(t) \/ CancelRunning(t)
                              \/ CancelFinished(t) \/ SaveTask(t)
      PROVE  QueueIsQueued'
  BY <1>3, <1>4 DEF AddTask, NotifyOne, Update, CancelRunning, CancelFinished, SaveTask
<1>5. ASSUME \/ SaveQueue \/ QueueAdd \/ QueueAddFails \/ PromoteFails \/ RunTask \/ Finished
             \/ CancelAnswered \/ Booted \/ UNCHANGED vars
      PROVE  QueueIsQueued'
  BY <1>3, <1>5 DEF SaveQueue, QueueAdd, QueueAddFails, PromoteFails, RunTask, Finished,
                    CancelAnswered, Booted
<1>6. ASSUME BootFails \/ Crash PROVE QueueIsQueued'
  BY <1>6 DEF BootFails, Crash, Down, QueueIsQueued
<1>7. ASSUME NEW t \in Tasks, CancelQueued(t) PROVE QueueIsQueued'
  <2>1. /\ queue' = Retain(queue, Tasks \ {t}) /\ up' = up /\ up
        /\ tasks' = [tasks EXCEPT ![t] = "Canceled"]
    BY <1>7 DEF CancelQueued, Acquire
  <2>2. QueuedIn(tasks') = QueuedIn(tasks) \cap (Tasks \ {t})
    BY <1>1, <2>1 DEF QueuedIn
  <2>3. Distinct(queue') /\ Elements(queue') = Elements(queue) \cap (Tasks \ {t})
    BY <1>1, <2>1, RetainFacts
  <2> QED BY <1>1, <2>1, <2>2, <2>3, QueueFormNext
<1>8. ASSUME NEW w \in Workers, PopNone(w) PROVE QueueIsQueued'
  <2>1. queue = <<>>
    <3> SUFFICES ASSUME queue # <<>> PROVE FALSE
      OBVIOUS
    <3>1. tasks[Head(queue)] # "Queued" /\ up
      BY <1>8 DEF PopNone, Acquire
    <3>2. Head(queue) \in Elements(queue)
      BY <1>1, TailFacts
    <3> QED BY <1>1, <3>1, <3>2 DEF QueuedIn
  <2> QED BY <1>3, <1>8, <2>1 DEF PopNone
<1>9. ASSUME NEW w \in Workers, Poll(w) PROVE QueueIsQueued'
  BY <1>3, <1>9 DEF Poll
<1>10. ASSUME NEW w \in Workers, Pop(w) PROVE QueueIsQueued'
  <2> DEFINE t == Head(queue)
  <2>1. /\ queue # <<>> /\ queue' = Tail(queue) /\ up' = up /\ up
        /\ tasks' = [tasks EXCEPT ![t] = "Running"]
    BY <1>10 DEF Pop, Acquire
  <2>2. /\ t \in Tasks /\ Distinct(queue') /\ Elements(queue') = Elements(queue) \ {t}
    BY <1>1, <2>1, TailFacts
  <2> HIDE DEF t
  <2>3. QueuedIn(tasks') = QueuedIn(tasks) \ {t}
    BY <1>1, <2>1, <2>2 DEF QueuedIn
  <2> QED BY <1>1, <2>1, <2>2, <2>3, QueueFormNext
<1>11. ASSUME NEW w \in Workers, NEW o \in Outcome, Finish(w, o) PROVE QueueIsQueued'
  <2> DEFINE t == worker[w].task
  <2>1. lock.op = "free"
    BY <1>11, Acquired
  <2>2. t \in Tasks /\ tasks[t] = "Running"
    BY <1>11, <2>1, TaskManagerAssumption DEF Finish, Exclusive
  <2>3. /\ tasks' = [tasks EXCEPT ![t] = FinalOutcome(t, o)] /\ queue' = queue /\ up' = up
    BY <1>11 DEF Finish
  <2>4. FinalOutcome(t, o) # "Queued"
    BY DEF FinalOutcome, Outcome
  <2> HIDE DEF t
  <2>5. QueuedIn(tasks') = QueuedIn(tasks)
    BY <1>1, <2>2, <2>3, <2>4 DEF QueuedIn
  <2> QED BY <1>2, <2>3, <2>5
<1>12. CASE Promote
  <2>1. lock.task \in Tasks /\ tasks[lock.task] = "Absent" /\ up
    BY <1>12 DEF Promote, LockShape, Exclusive
  <2>2. /\ queue' = Append(queue, lock.task) /\ up' = up
        /\ tasks' = [tasks EXCEPT ![lock.task] = "Queued"]
    BY <1>12 DEF Promote
  <2>3. QueuedIn(tasks') = QueuedIn(tasks) \cup {lock.task} /\ lock.task \notin QueuedIn(tasks)
    BY <1>1, <2>1, <2>2 DEF QueuedIn
  <2>4. Distinct(queue') /\ Elements(queue') = Elements(queue) \cup {lock.task}
    BY <1>1, <2>1, <2>2, <2>3, AppendFacts
  <2> QED BY <1>1, <2>1, <2>2, <2>3, <2>4, QueueFormNext
<1>13. CASE Boot
  <2> DEFINE queued == QueuedIn(tasks')
             known == Elements(diskQueue)
  <2>1. /\ tasks' = Recovered(diskTask)
        /\ \E missing \in Orders(queued \ known) : queue' = Retain(diskQueue, queued) \o missing
    BY <1>13 DEF Boot, QueuedIn, Elements
  <2>2. queued \in SUBSET Tasks
    BY DEF QueuedIn
  <2> HIDE DEF queued
  <2>3. PICK missing \in Orders(queued \ known) : queue' = Retain(diskQueue, queued) \o missing
    BY <2>1
  <2>4. missing \in Seq(Tasks) /\ Elements(missing) = queued \ known /\ Distinct(missing)
    BY <2>2, <2>3, OrdersFacts
  <2>5. /\ Retain(diskQueue, queued) \in Seq(Tasks) /\ Distinct(Retain(diskQueue, queued))
        /\ Elements(Retain(diskQueue, queued)) = known \cap queued
    BY <1>1, RetainFacts DEF QueueFile
  <2> HIDE DEF known
  <2>6. /\ Elements(queue') = (known \cap queued) \cup (queued \ known)
        /\ Distinct(queue')
    <3>1. Elements(Retain(diskQueue, queued)) \cap Elements(missing) = {}
      BY <2>4, <2>5
    <3> QED BY <2>3, <2>4, <2>5, <3>1, ConcatFacts
  <2> QED BY <2>6, QueueFormNext DEF queued
<1> QED
  BY <1>4, <1>5, <1>6, <1>7, <1>8, <1>9, <1>10, <1>11, <1>12, <1>13
  DEF Next, TaskStep, WorkerStep, LockStep

-----------------------------------------------------------------------------
(* Every safety property of the runs, for every instance.                    *)

IInv ==
    /\ Core /\ Promised /\ StartedOnce /\ Forced /\ Requested
    /\ QueueIsQueued /\ QueueFile

LEMMA InvInit == Init => IInv
<1> SUFFICES ASSUME Init PROVE IInv
  OBVIOUS
<1>1. Core
  BY CoreInit
<1>2. lock.op = "free" /\ ~up
  BY FreeFacts DEF Init
<1>3. Promised /\ StartedOnce
  BY <1>2 DEF Init, Promised, StartedOnce
<1>4. Forced /\ Requested
  BY <1>2 DEF Init, Forced, CanceledStays, Requested
<1>5. QueueIsQueued /\ QueueFile
  BY <1>2 DEF Init, QueueIsQueued, QueueFile, Distinct
<1> QED BY <1>1, <1>3, <1>4, <1>5 DEF IInv

LEMMA InvStep == IInv /\ [Next]_vars => IInv'
<1> SUFFICES ASSUME IInv, [Next]_vars PROVE IInv'
  OBVIOUS
<1>1. Core'
  BY CoreStep DEF IInv
<1>2. Promised' /\ StartedOnce'
  BY <1>1, PromisedStep, StartedStep DEF IInv
<1>3. Forced' /\ Requested'
  BY <1>1, ForcedStep, RequestedStep DEF IInv
<1>4. QueueIsQueued' /\ QueueFile'
  BY <1>1, QueueStep, QueueFileStep DEF IInv
<1> QED BY <1>1, <1>2, <1>3, <1>4 DEF IInv

(* The strengthened invariant is inductive; the theorems below read their    *)
(* property off it.                                                          *)
THEOREM Invariant == Spec => []IInv
BY InvInit, InvStep, PTL DEF Spec

(* No queued task is stranded: the queue of a running manager and the queued *)
(* records in memory are the same set (add_task, cancel_task, worker_loop,   *)
(* load_state).                                                              *)
THEOREM QueueMatches == Spec => []QueueIsQueued
<1>1. IInv => QueueIsQueued
  BY DEF IInv
<1> QED BY <1>1, Invariant, PTL

(* A restart never executes again a task whose start was written             *)
(* (worker_loop, load_state).                                                *)
THEOREM NoReexecution == Spec => []ExecutedOnce
<1>1. IInv => ExecutedOnce
  BY DEF IInv, Core, Typed, TypeOK, StartedOnce, ExecutedOnce
<1> QED BY <1>1, Invariant, PTL

(* What add_task answered is on disk, and in memory while a manager runs.    *)
THEOREM AcceptedSurvives == Spec => []AcceptedKept
<1>1. IInv => AcceptedKept
  BY DEF IInv, Core, Typed, TypeOK, Records, Promised, AcceptedKept
<1> QED BY <1>1, Invariant, PTL

(* A forced cancellation is never undone (cancel_task).                      *)
THEOREM CancellationStays == Spec => []CanceledStays
<1>1. IInv => CanceledStays
  BY DEF IInv, Forced
<1> QED BY <1>1, Invariant, PTL

(* A task whose cancellation was answered Requested never completes          *)
(* (cancel_task, finish_task).                                               *)
THEOREM RequestHonoured == Spec => []RequestedNeverCompletes
<1>1. IInv => RequestedNeverCompletes
  BY DEF IInv, Requested, Stopped, RequestedNeverCompletes
<1> QED BY <1>1, Invariant, PTL

-----------------------------------------------------------------------------
(* The manager implements the abstract board.                                *)

(* The step of the board that a step of the manager makes: Accept for the    *)
(* promotion of a staged record, Begin or End for a write that brings a      *)
(* record up to date, Interrupt for the death of the process, and none for   *)
(* everything else, the writes of a booting manager included.                *)
LEMMA BoardStep ==
    ASSUME Core, Core', [Next]_vars
    PROVE  [Board!BoardNext]_Durable
<1> USE DEF Core, Typed
<1>1. diskTask \in [Tasks -> Status] /\ diskTask' \in [Tasks -> Status]
  BY DEF TypeOK
<1>2. ASSUME up, lock.op # "boot", up', lock'.op # "boot" PROVE [Board!BoardNext]_Durable
  <2>1. Durable = diskTask /\ Durable' = diskTask'
    BY <1>2 DEF Durable
  <2>2. CASE diskTask' = diskTask
    BY <2>1, <2>2
  <2>3. CASE /\ Promote /\ lock.task \in Tasks /\ diskTask[lock.task] = "Absent"
             /\ diskTask' = [diskTask EXCEPT ![lock.task] = "Queued"]
    BY <2>1, <2>3 DEF Board!BoardNext, Board!Accept
  <2>4. ASSUME NEW t \in Tasks, diskTask' = [diskTask EXCEPT ![t] = tasks[t]]
        PROVE  [Board!BoardNext]_Durable
    <3>1. Moves(diskTask[t], tasks[t])
      BY <1>2 DEF Records
    <3>2. CASE diskTask[t] = tasks[t]
      BY <1>1, <2>1, <2>4, <3>2
    <3>3. CASE diskTask[t] = "Queued" /\ tasks[t] = "Running"
      BY <2>1, <2>4, <3>3 DEF Board!BoardNext, Board!Begin
    <3>4. CASE diskTask[t] \in {"Queued", "Running"} /\ tasks[t] \in Outcome
      BY <2>1, <2>4, <3>4 DEF Board!BoardNext, Board!End, Board!Outcome, Outcome
    <3> QED BY <3>1, <3>2, <3>3, <3>4 DEF Moves
  <2> QED BY <2>2, <2>3, <2>4, DiskStep
<1>3. ASSUME diskTask' = diskTask, ~up' PROVE [Board!BoardNext]_Durable
  <2>1. Durable' = Recovered(diskTask)
    BY <1>3 DEF Durable, Recovered
  <2>2. Recovered(Recovered(diskTask)) = Recovered(diskTask)
    BY DEF Recovered
  <2>3. Durable' = Recovered(Durable)
    BY <2>1, <2>2 DEF Durable
  <2>4. Recovered(Durable) = Board!Recovered(Durable)
    BY DEF Recovered, Board!Recovered
  <2> QED BY <2>3, <2>4 DEF Board!BoardNext, Board!Interrupt
<1>4. ASSUME ~up \/ lock.op = "boot", up', lock'.op = "boot" PROVE [Board!BoardNext]_Durable
  <2>1. Durable = Recovered(diskTask) /\ Durable' = Recovered(diskTask)'
    BY <1>4 DEF Durable
  <2>2. CASE diskTask' = diskTask
    BY <2>1, <2>2 DEF Recovered
  <2>3. ASSUME NEW t \in Tasks, diskTask' = [diskTask EXCEPT ![t] = tasks[t]], up
        PROVE  [Board!BoardNext]_Durable
    <3>1. tasks[t] = IF diskTask[t] = "Running" THEN "Failed" ELSE diskTask[t]
      BY <1>4, <2>3 DEF Records
    <3>2. Recovered(diskTask)' = Recovered(diskTask)
      BY <1>1, <2>3, <3>1 DEF Recovered
    <3> QED BY <2>1, <3>2
  <2>4. ~Promote
    BY <1>4 DEF Promote, LockShape
  <2> QED BY <2>2, <2>3, <2>4, DiskStep
<1>5. ASSUME Booted PROVE [Board!BoardNext]_Durable
  <2>1. lock.op = "boot" /\ lock'.op = "free" /\ lock.todo = {} /\ diskTask' = diskTask
    BY <1>5, Released DEF Booted, Persisted
  <2>2. \A t \in Tasks : diskTask[t] # "Running"
    BY <2>1 DEF Records
  <2>3. Recovered(diskTask) = diskTask
    BY <1>1, <2>2 DEF Recovered
  <2>4. Durable = diskTask /\ Durable' = diskTask'
    BY <2>1, <2>3 DEF Durable, Recovered
  <2> QED BY <2>1, <2>4
<1>6. ASSUME UNCHANGED <<up, diskTask, lock>> PROVE [Board!BoardNext]_Durable
  BY <1>6 DEF Durable, Recovered
<1>7. ASSUME Boot PROVE [Board!BoardNext]_Durable
  BY <1>4, <1>7, Acquired DEF Boot
<1>8. ASSUME BootFails \/ Crash PROVE [Board!BoardNext]_Durable
  BY <1>3, <1>8 DEF BootFails, Crash, Down
<1>9. ASSUME NEW t \in Tasks, AddTask(t) \/ CancelQueued(t) \/ CancelRunning(t) \/ CancelFinished(t)
      PROVE  [Board!BoardNext]_Durable
  <2>1. up /\ lock.op # "boot" /\ lock'.op # "boot"
    BY <1>9, Acquired
  <2>2. up' = up
    BY <1>9 DEF AddTask, CancelQueued, CancelRunning, CancelFinished
  <2> QED BY <1>2, <2>1, <2>2
<1>10. ASSUME NEW w \in Workers, Pop(w) \/ \E o \in Outcome : Finish(w, o)
       PROVE  [Board!BoardNext]_Durable
  <2>1. up /\ lock.op # "boot" /\ lock'.op # "boot"
    BY <1>10, Acquired
  <2>2. up' = up
    BY <1>10 DEF Pop, Finish
  <2> QED BY <1>2, <2>1, <2>2
<1>11. ASSUME NEW t \in Tasks, NotifyOne(t) PROVE [Board!BoardNext]_Durable
  BY <1>6, <1>11 DEF NotifyOne
<1>12. ASSUME NEW w \in Workers, PopNone(w) \/ Poll(w) PROVE [Board!BoardNext]_Durable
  BY <1>6, <1>12 DEF PopNone, Poll
<1>13. ASSUME NEW t \in Tasks, Update(t) PROVE [Board!BoardNext]_Durable
  <2>1. up /\ up' /\ lock.op # "boot" /\ lock'.op # "boot"
    BY <1>13, FreeFacts DEF Update, Acquire
  <2> QED BY <1>2, <2>1
<1>14. ASSUME SaveQueue \/ QueueAdd \/ \E t \in Tasks : SaveTask(t)
       PROVE  [Board!BoardNext]_Durable
  <2>1. lock'.op = lock.op /\ lock.op # "free"
    BY <1>14, Written
  <2>2. up /\ up'
    BY <2>1 DEF LockShape
  <2> QED BY <1>2, <1>4, <2>1, <2>2
<1>15. ASSUME \/ QueueAddFails \/ Promote \/ PromoteFails \/ RunTask \/ Finished
              \/ CancelAnswered
       PROVE  [Board!BoardNext]_Durable
  <2>1. lock.op \notin {"free", "boot"} /\ lock'.op = "free"
    BY <1>15, Released DEF QueueAddFails, Promote, PromoteFails, RunTask, Finished,
                           CancelAnswered
  <2>2. up /\ up' = up
    BY <1>15, <2>1 DEF LockShape, QueueAddFails, Promote, PromoteFails, RunTask, Finished,
                       CancelAnswered
  <2> QED BY <1>2, <2>1, <2>2
<1>16. CASE UNCHANGED vars
  BY <1>6, <1>16
<1> QED
  BY <1>5, <1>7, <1>8, <1>9, <1>10, <1>11, <1>12, <1>13, <1>14, <1>15, <1>16
  DEF Next, TaskStep, WorkerStep, LockStep

(* Whatever crashes, failed writes and the order of writes do, the durable   *)
(* records behave as TaskBoard: they only move forward, an outcome is final, *)
(* and a restart fails exactly the running tasks (TaskManager's writes and   *)
(* load_state).                                                              *)
THEOREM Implements == Spec => RecordsMoveForward
<1>1. Init => Board!BoardInit
  BY DEF Init, Durable, Recovered, Board!BoardInit
<1>2. Core /\ Core' /\ [Next]_vars => [Board!BoardNext]_Durable
  BY BoardStep
<1>3. IInv => Core
  BY DEF IInv
<1> QED BY <1>1, <1>2, <1>3, Invariant, PTL DEF Spec, RecordsMoveForward, Board!BoardSpec
=============================================================================
