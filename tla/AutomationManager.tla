-------------------------- MODULE AutomationManager --------------------------
(***************************************************************************)
(* Scheduled automations over the task manager.                            *)
(*                                                                         *)
(* One scheduler loop per process: a tick collects the due slots under the *)
(* manager mutex, enqueues a task for each without it, and takes it again  *)
(* to save the run and then the automation; a pass over the pending runs   *)
(* follows in the same three phases.  Callers of the API create, pause,    *)
(* resume and delete automations and run them at once, between any two     *)
(* phases, and the process may die between any two writes.                 *)
(*                                                                         *)
(* The schedule has a slot at every tick of the clock: next_after(x) is    *)
(* x + 1.  The durable records of the tasks are those of TaskBoard, which  *)
(* TaskManager implements; its answers come from its memory, which is      *)
(* ahead of the records when a write of theirs failed.  A run has at most  *)
(* one task, so the task of a run bears the number of the run.             *)
(***************************************************************************)
EXTENDS TaskBoard, Naturals, FiniteSets

CONSTANTS
    Automations,
    NoAutomation,
    SlotWindow,      \* the 25 newest runs that collect_due_runs looks at
    PendingWindow,   \* the 100 newest runs that collect_pending_runs looks at
    ClockBound,      \* bound of the model: last slot
    RunBound,        \* bound of the model: runs created
    MishapBound      \* bound of the model: crashes, failed writes, failed enqueues

ASSUME AutomationAssumption ==
    /\ Tasks = 1..RunBound
    /\ NoAutomation \notin Automations /\ IsFiniteSet(Automations)
    /\ SlotWindow \in Nat /\ PendingWindow \in Nat
    /\ ClockBound \in Nat /\ RunBound \in Nat /\ MishapBound \in Nat

VARIABLES
    tasks,      \* ManagerState.tasks: the status get_task answers for each task
    clock,
    auto,       \* automations/<id>.json
    runs,       \* runs/<automation>/<stamp>-<id>.json, by order of creation
    made,       \* runs created so far
    sched,      \* the scheduler loop
    manual,     \* one caller of run_now
    mutex,      \* the holder of the manager mutex between two of its writes
    slotOf,     \* history: the slot each task was enqueued for
    forgotten,  \* history: tasks whose outcome was in memory only when the process died
    mishaps

board == <<status, tasks, forgotten>>
vars  == <<board, clock, auto, runs, made, sched, manual, mutex, slotOf, mishaps>>

RunIds == Tasks   \* in the order of creation
NoSlot == 0    \* next_run_at None, and the slot of a manual run
Slots  == 0..(ClockBound + 1)

NoRun == [auto |-> NoAutomation, slot |-> NoSlot, status |-> "Absent",
          task |-> FALSE, id |-> 0]

\* new_run_record
NewRun(id, a, s) ==
    [auto |-> a, slot |-> s, status |-> "Queued", task |-> FALSE, id |-> id]

Idle      == [pc |-> "idle", due |-> {}, run |-> NoRun]
NotCalled == [pc |-> "idle", run |-> NoRun]

-----------------------------------------------------------------------------
(* Reading the store.                                                      *)

RunsOf(a) == {r \in RunIds : runs[r].auto = a}

\* list_runs with a limit
Newest(a, limit) ==
    {r \in RunsOf(a) : Cardinality({q \in RunsOf(a) : q > r}) < limit}

\* Mutation: a slot is not looked up before it is enqueued.
HasRunUnchecked(a, s) == FALSE

HasRun(a, s) == \E r \in Newest(a, SlotWindow) : runs[r].slot = s

\* Mutation: only runs that are Running are followed.
PendingRunning ==
    {runs[r] : r \in {q \in UNION {Newest(a, PendingWindow) : a \in Automations} :
        runs[q].status = "Running" /\ runs[q].task
        /\ auto[runs[q].auto].state \notin {"Absent", "Deleted"}}}

\* collect_pending_runs, over the automations that still exist
Pending ==
    {runs[r] : r \in {q \in UNION {Newest(a, PendingWindow) : a \in Automations} :
        runs[q].status \in {"Queued", "Running"} /\ runs[q].task
        /\ auto[runs[q].auto].state \notin {"Absent", "Deleted"}}}

\* Mutation: every task that ended has completed.
AppliedCompleted(r) ==
    [r EXCEPT !.status = IF tasks[r.id] \in Outcome THEN "Completed" ELSE tasks[r.id]]

\* get_task, which reads memory, and apply_task_status
Applied(r) == [r EXCEPT !.status = tasks[r.id]]

-----------------------------------------------------------------------------
(* The scheduler loop.                                                     *)

\* Mutation: a slot is due only when it is over.
DueLate(a) == auto[a].state = "Active" /\ auto[a].next # NoSlot /\ auto[a].next < clock

Due(a) == auto[a].state = "Active" /\ auto[a].next # NoSlot /\ auto[a].next <= clock

\* Mutation: the slot is advanced when it is collected.
BookkeptAtOnce(a) ==
    CASE auto[a].state = "Active" /\ auto[a].next = NoSlot -> [auto[a] EXCEPT !.next = clock + 1]
      [] Due(a) -> [auto[a] EXCEPT !.next = @ + 1]
      [] OTHER  -> auto[a]

\* What the sweep of collect_due_runs saves: a first slot, or the slot after one
\* that has its run.
Bookkept(a) ==
    CASE auto[a].state = "Active" /\ auto[a].next = NoSlot -> [auto[a] EXCEPT !.next = clock + 1]
      [] Due(a) /\ HasRun(a, auto[a].next) -> [auto[a] EXCEPT !.next = @ + 1]
      [] OTHER -> auto[a]

\* collect_due_runs.  The automations are swept in one hold of the mutex, and
\* what it saves for one does not depend on the others.
Collect ==
    LET due   == {a \in Automations : Due(a) /\ ~HasRun(a, auto[a].next)}
        fresh == IF made + Cardinality(due) <= RunBound THEN due ELSE {}
    IN  /\ sched.pc = "idle" /\ mutex = "free"
        /\ \E number \in [fresh -> (made + 1)..(made + Cardinality(fresh))] :
             /\ \A a, b \in fresh : number[a] = number[b] => a = b
             /\ sched' = [Idle EXCEPT !.pc = "enqueue",
                                      !.due = {NewRun(number[a], a, auto[a].next) : a \in fresh}]
        /\ auto' = [a \in Automations |-> Bookkept(a)]
        /\ made' = made + Cardinality(fresh)
        /\ UNCHANGED <<board, clock, runs, manual, mutex, slotOf, mishaps>>

Mishap == mishaps < MishapBound /\ mishaps' = mishaps + 1

\* A save of the sweep failed: what it saved before stays, and nothing is
\* enqueued.
CollectFails ==
    /\ sched.pc = "idle" /\ mutex = "free"
    /\ Mishap
    /\ \E saved \in SUBSET Automations :
         auto' = [a \in Automations |-> IF a \in saved THEN Bookkept(a) ELSE auto[a]]
    /\ sched' = [Idle EXCEPT !.pc = "reconcile"]
    /\ UNCHANGED <<board, clock, runs, made, manual, mutex, slotOf>>

\* enqueue_run_task: add_task, and what it answered folded into the run.
Added(r)  == [r EXCEPT !.status = "Running", !.task = TRUE]
Refused(r) == [r EXCEPT !.status = "Failed"]

AddTask(r) ==
    /\ Accept(r.id)
    /\ tasks' = [tasks EXCEPT ![r.id] = "Queued"]
    /\ slotOf' = [slotOf EXCEPT ![r.id] = <<r.auto, r.slot>>]
    /\ UNCHANGED <<forgotten, mishaps>>

AddTaskFails == Mishap /\ UNCHANGED <<board, slotOf>>

\* The tick enqueues, without the mutex.
Enqueue ==
    /\ sched.pc = "enqueue"
    /\ \E r \in sched.due :
         LET save(new) == sched' = [sched EXCEPT !.pc = "save", !.run = new, !.due = @ \ {r}]
         IN  \/ AddTask(r) /\ save(Added(r))
             \/ AddTaskFails /\ save(Refused(r))
    /\ UNCHANGED <<clock, auto, runs, made, manual, mutex>>

\* finish_scheduled_run: the run is saved first, whatever became of its
\* automation.
SaveRun ==
    /\ sched.pc = "save" /\ mutex = "free"
    /\ runs' = [runs EXCEPT ![sched.run.id] = sched.run]
    /\ sched' = [sched EXCEPT !.pc = "advance"]
    /\ mutex' = "sched"
    /\ UNCHANGED <<board, clock, auto, made, manual, slotOf, mishaps>>

\* Then the automation as it is now moves past the slot.
Advance ==
    LET r == sched.run
    IN  /\ sched.pc = "advance"
        /\ auto' = IF auto[r.auto].state \in {"Absent", "Deleted"} THEN auto
                   ELSE [auto EXCEPT ![r.auto].next = r.slot + 1]
        /\ sched' = [sched EXCEPT !.pc = "enqueue", !.run = NoRun]
        /\ mutex' = "free"
        /\ UNCHANGED <<board, clock, runs, made, manual, slotOf, mishaps>>

\* A failed write ends the tick: the rest of the due slots waits for the next.
TickFails ==
    /\ sched.pc \in {"save", "advance"}
    /\ sched.pc = "save" => mutex = "free"
    /\ Mishap
    /\ sched' = [Idle EXCEPT !.pc = "reconcile"]
    /\ mutex' = "free"
    /\ UNCHANGED <<board, clock, auto, runs, made, manual, slotOf>>

TickDone ==
    /\ sched.pc = "enqueue" /\ sched.due = {}
    /\ sched' = [Idle EXCEPT !.pc = "reconcile"]
    /\ UNCHANGED <<board, clock, auto, runs, made, manual, mutex, slotOf, mishaps>>

\* reconcile_run_statuses_shared: the snapshot, under the mutex.
CollectPending ==
    /\ sched.pc = "reconcile" /\ mutex = "free"
    /\ sched' = [Idle EXCEPT !.pc = "lookup", !.due = Pending]
    /\ UNCHANGED <<board, clock, auto, runs, made, manual, mutex, slotOf, mishaps>>

\* get_task and apply_task_status, without it; an unchanged run is not saved.
Lookup ==
    /\ sched.pc = "lookup"
    /\ \E r \in sched.due :
         sched' = [sched EXCEPT !.pc  = IF Applied(r) = r THEN "lookup" ELSE "fold",
                                !.run = IF Applied(r) = r THEN NoRun ELSE Applied(r),
                                !.due = @ \ {r}]
    /\ UNCHANGED <<board, clock, auto, runs, made, manual, mutex, slotOf, mishaps>>

\* The snapshot of the run with the status of its task is saved, and after an
\* outcome the automation, whose last_run_at is left out; a failed write of
\* either ends the pass.
Fold ==
    /\ sched.pc = "fold" /\ mutex = "free"
    /\ \/ /\ runs' = [runs EXCEPT ![sched.run.id] = sched.run]
          /\ sched' = [sched EXCEPT !.pc = "lookup", !.run = NoRun]
          /\ UNCHANGED mishaps
       \/ /\ Mishap
          /\ sched' = Idle
          /\ \/ UNCHANGED runs
             \/ /\ sched.run.status \in Outcome
                /\ auto[sched.run.auto].state \notin {"Absent", "Deleted"}
                /\ runs' = [runs EXCEPT ![sched.run.id] = sched.run]
    /\ UNCHANGED <<board, clock, auto, made, manual, mutex, slotOf>>

PassDone ==
    /\ sched.pc = "lookup" /\ sched.due = {}
    /\ sched' = Idle
    /\ UNCHANGED <<board, clock, auto, runs, made, manual, mutex, slotOf, mishaps>>

-----------------------------------------------------------------------------
(* Callers of the API.                                                     *)

Change(a, new) ==
    /\ mutex = "free"
    /\ auto' = [auto EXCEPT ![a] = new]
    /\ UNCHANGED <<board, clock, made, sched, manual, mutex, slotOf, mishaps>>

Create(a) ==
    /\ auto[a].state = "Absent"
    /\ Change(a, [state |-> "Active", next |-> clock + 1])
    /\ UNCHANGED runs

Pause(a) ==
    /\ auto[a].state \in {"Active", "Paused"}
    /\ Change(a, [state |-> "Paused", next |-> NoSlot])
    /\ UNCHANGED runs

\* resume_automation, and update_automation with a new rule for one that is
\* active.
Resume(a) ==
    /\ auto[a].state \in {"Active", "Paused"}
    /\ Change(a, [state |-> "Active", next |-> clock + 1])
    /\ UNCHANGED runs

\* The file of the automation goes first; a crash before its runs go leaves
\* runs that nothing reads.
Delete(a) ==
    /\ auto[a].state \in {"Active", "Paused"}
    /\ Change(a, [state |-> "Deleted", next |-> NoSlot])
    /\ runs' \in {runs, [r \in RunIds |-> IF runs[r].auto = a THEN NoRun ELSE runs[r]]}

\* run_now: read, enqueue, save.
RunNow(a) ==
    /\ manual.pc = "idle" /\ mutex = "free"
    /\ auto[a].state \in {"Active", "Paused"}
    /\ made < RunBound /\ made' = made + 1
    /\ manual' = [pc |-> "enqueue", run |-> NewRun(made + 1, a, NoSlot)]
    /\ UNCHANGED <<board, clock, auto, runs, sched, mutex, slotOf, mishaps>>

RunNowEnqueue ==
    /\ manual.pc = "enqueue"
    /\ \/ AddTask(manual.run) /\ manual' = [pc |-> "save", run |-> Added(manual.run)]
       \/ AddTaskFails /\ manual' = [pc |-> "save", run |-> Refused(manual.run)]
    /\ UNCHANGED <<clock, auto, runs, made, sched, mutex>>

RunNowSave ==
    /\ manual.pc = "save" /\ mutex = "free"
    /\ \/ runs' = [runs EXCEPT ![manual.run.id] = manual.run] /\ UNCHANGED mishaps
       \/ Mishap /\ UNCHANGED runs
    /\ manual' = NotCalled
    /\ UNCHANGED <<board, clock, auto, made, sched, mutex, slotOf>>

-----------------------------------------------------------------------------
(* Time, tasks and crashes.                                                *)

Tick ==
    /\ clock < ClockBound /\ clock' = clock + 1
    /\ UNCHANGED <<board, auto, runs, made, sched, manual, mutex, slotOf, mishaps>>

\* The records of the tasks in S are written as they are in memory.
Written(S, new) == status' = [t \in Tasks |-> IF t \in S THEN new[t] ELSE status[t]]

\* A task moves in memory, then persist_all_locked writes every record, in the
\* order of a hash map.  When a write fails the records it had not reached stay as
\* they are; a worker only logs that and goes on.
Moves(t, new) ==
    LET after == [tasks EXCEPT ![t] = new]
    IN  /\ tasks' = after
        /\ \/ Written(Tasks, after) /\ UNCHANGED mishaps
           \/ /\ Mishap
              /\ \E S \in SUBSET Tasks : Written(S, after)
              /\ status' # after
        /\ UNCHANGED <<forgotten, clock, auto, runs, made, sched, manual, mutex, slotOf>>

\* worker_loop
TaskBegins(t) == tasks[t] = "Queued" /\ Moves(t, "Running")

\* finish_task, or cancel_task before a worker took the task.
TaskEnds(t) ==
    \E o \in Outcome :
       /\ tasks[t] = "Running" \/ (tasks[t] = "Queued" /\ o = "Canceled")
       /\ Moves(t, o)

\* apply_execution_event, record_tool_metadata: the record of one task is written
\* again.
TaskWritten(t) ==
    /\ tasks[t] # status[t]
    /\ Written({t}, tasks)
    /\ UNCHANGED <<tasks, forgotten, clock, auto, runs, made, sched, manual, mutex,
                   slotOf, mishaps>>

\* The process dies, and the next one loads the records.
Crash ==
    /\ Mishap
    /\ Interrupt
    /\ tasks' = Recovered(status)
    /\ forgotten' = forgotten \cup {t \in Tasks : tasks[t] \in Outcome /\ status[t] # tasks[t]}
    /\ sched' = Idle /\ manual' = NotCalled /\ mutex' = "free"
    /\ UNCHANGED <<clock, auto, runs, made, slotOf>>

Init ==
    /\ BoardInit
    /\ tasks = status /\ forgotten = {}
    /\ clock = 0
    /\ auto = [a \in Automations |-> [state |-> "Absent", next |-> NoSlot]]
    /\ runs = [r \in RunIds |-> NoRun]
    /\ made = 0
    /\ sched = Idle /\ manual = NotCalled /\ mutex = "free"
    /\ slotOf = [t \in Tasks |-> <<NoAutomation, NoSlot>>]
    /\ mishaps = 0

Loop ==
    \/ Collect \/ Enqueue \/ SaveRun \/ Advance \/ TickDone
    \/ CollectPending \/ Lookup \/ Fold \/ PassDone

Next ==
    \/ Loop \/ CollectFails \/ TickFails
    \/ \E a \in Automations : Create(a) \/ Pause(a) \/ Resume(a) \/ Delete(a) \/ RunNow(a)
    \/ RunNowEnqueue \/ RunNowSave
    \/ \E t \in Tasks : TaskBegins(t) \/ TaskEnds(t) \/ TaskWritten(t)
    \/ Tick \/ Crash

Spec == Init /\ [][Next]_vars

\* The loop runs for ever, and tasks end (TaskManager's AcceptedEnds).
FairSpec ==
    /\ Spec
    /\ WF_vars(Loop)
    /\ WF_vars(\E t \in Tasks : TaskEnds(t))

-----------------------------------------------------------------------------
(* Properties.                                                             *)

Automation == [state : {"Absent", "Active", "Paused", "Deleted"}, next : Slots]
Run == [auto : Automations \cup {NoAutomation}, slot : Slots, id : 0..RunBound,
        status : Status, task : BOOLEAN]
LoopState == [pc : {"idle", "enqueue", "save", "advance", "reconcile", "lookup", "fold"},
              due : SUBSET Run, run : Run]
CallState == [pc : {"idle", "enqueue", "save"}, run : Run]

\* Every variable has its type; in particular the next slot of an automation
\* never lies beyond the one after the last tick (finish_scheduled_run).
TypeOK ==
    /\ status \in [Tasks -> Status] /\ tasks \in [Tasks -> Status]
    /\ forgotten \subseteq Tasks
    /\ clock \in 0..ClockBound /\ made \in 0..RunBound
    /\ auto \in [Automations -> Automation]
    /\ runs \in [RunIds -> Run]
    /\ sched \in LoopState /\ manual \in CallState
    /\ mutex \in {"free", "sched"}
    /\ slotOf \in [Tasks -> (Automations \cup {NoAutomation}) \X Slots]
    /\ mishaps \in Nat

\* A slot of an automation gets a second run record only after its first has left
\* the SlotWindow newest runs that collect_due_runs looks at: neither a crash
\* between the two writes of finish_scheduled_run, nor a failed write, nor a
\* pause and a resume during the enqueue gives it one, though each makes the loop
\* meet the slot again.  The runs of a deleted automation are gone and no longer
\* counted; the distance of the two in the order of creation still shows them.
OneRunPerSlot ==
    \A q, r \in RunIds :
       /\ q < r /\ runs[q].slot # NoSlot
       /\ runs[q].slot = runs[r].slot /\ runs[q].auto = runs[r].auto
       => /\ r - q > SlotWindow
          /\ auto[runs[q].auto].state # "Deleted"
               => Cardinality({k \in RunsOf(runs[q].auto) : q < k /\ k < r}) >= SlotWindow

\* A run that reached an outcome through its task has the outcome get_task answers
\* for the task, although its status is folded in from a look-up made without the
\* mutex and out of memory that may be ahead of the disk.  The one exception is a
\* task whose outcome finish_task could not write before the process died: the
\* next process finds the task Running or Queued, fails it or executes it again,
\* and the run keeps the outcome it was told.
RunTellsOutcome ==
    \A r \in RunIds :
       runs[r].task /\ runs[r].status \in Outcome
         => runs[r].status = tasks[r] \/ r \in forgotten

\* The loop passes over a slot only when the slot has its run on disk: no
\* occurrence is lost, whenever the process dies.
SlotsNotSkipped ==
    [][\A a \in Automations :
         auto[a].state = "Active" /\ auto[a].next # NoSlot /\ auto[a].next <= clock
         /\ auto'[a].state = "Active" /\ auto'[a].next > auto[a].next
         /\ sched' # sched
           => \E r \in RunIds : runs[r].auto = a /\ runs[r].slot = auto[a].next]_vars

\* The scheduler catches up: an automation with a due slot is eventually one
\* without, its slots run, whatever the API does meanwhile.
CatchesUp ==
    \A a \in Automations :
       LET behind == auto[a].state = "Active" /\ auto[a].next \in 1..clock
       IN  behind ~> (~behind \/ made = RunBound)

\* The run of an existing automation reaches an outcome: no run is left Queued
\* or Running when its task has ended, not after a crash either.
RunsSettle ==
    \A r \in RunIds :
       runs[r].task ~>
          \/ runs[r].status \in Outcome
          \/ runs[r].auto = NoAutomation
          \/ auto[runs[r].auto].state = "Deleted"

\* "so a crash mid-enqueue retries the slot; the run-per-slot check keeps that
\* idempotent" (automation_manager.rs:749): one slot, one task.
OneTaskPerSlot ==
    \A t, u \in Tasks :
       slotOf[t] = slotOf[u] /\ slotOf[t][2] # NoSlot => t = u
=============================================================================
