----------------------- MODULE AutomationManagerProofs -----------------------
(***************************************************************************)
(* Proofs about AutomationManager for every finite set of automations,     *)
(* every clock and every number of runs, crashes and failed writes.        *)
(*                                                                         *)
(* A run is at most in three places at once: on disk, in the snapshot the  *)
(* loop works through and in the loop's hands.  The inductive invariant    *)
(* says what holds of all of them together: an outcome that came from a    *)
(* task is the task's, and two records of one slot are records of one run  *)
(* unless the first was hidden by newer runs when the second was made.     *)
(***************************************************************************)
EXTENDS AutomationManager, FiniteSetTheorems, TLAPS

USE DEF board, vars

\* The phases of the tick that have runs to enqueue or to save.
Holding == {"save", "advance"}
Ticking == {"enqueue"} \cup Holding

\* The runs the tick has collected and not finished.
Collected == sched.due \cup {x \in {sched.run} : sched.pc \in Holding}

\* All records of runs the loop knows: on disk, in its snapshot and in its hands.
Known == {runs[r] : r \in RunIds} \cup sched.due \cup {sched.run}

Proper(x) == x.id \in RunIds /\ x.auto \in Automations

Placed ==
    /\ \A r \in RunIds : runs[r] # NoRun => runs[r].id = r /\ runs[r].auto \in Automations
    /\ \A x \in sched.due : Proper(x)
    /\ sched.pc \in {"save", "advance", "fold"} => Proper(sched.run)
    /\ manual.pc # "idle" => Proper(manual.run)
    /\ manual.pc = "enqueue" => ~manual.run.task

\* A status folded in from a task is the final one of the task, unless the task
\* lost its outcome in a crash.
Truthful(x, known, gone) ==
    x.task /\ x.status \in Outcome => x.id \in Tasks /\ (x.status = known[x.id] \/ x.id \in gone)

\* The memory of the task manager is ahead of the durable records, by moves of
\* TaskBoard that are not written yet.
Ahead ==
    \A t \in Tasks :
       /\ status[t] = "Absent" <=> tasks[t] = "Absent"
       /\ status[t] = "Running" => tasks[t] # "Queued"
       /\ status[t] \in Outcome => tasks[t] = status[t]

OutcomesTrue ==
    /\ Ahead
    /\ Truthful(manual.run, tasks, forgotten)
    /\ \A x \in Known : Truthful(x, tasks, forgotten)

\* A collected run has no task yet, its automation has not moved below its slot,
\* and no other slot of the automation is collected.
TickOK ==
    sched.pc \in Ticking =>
      /\ \A x \in Collected :
           /\ x.slot \in 1..clock
           /\ auto[x.auto].next # NoSlot => auto[x.auto].next >= x.slot
      /\ \A x \in sched.due : ~x.task
      /\ \A x, y \in sched.due : x.auto = y.auto => x = y
      /\ sched.pc \in Holding => \A x \in sched.due : x.auto # sched.run.auto

\* The mutex is kept from the write of the run to the write of the automation.
Saved ==
    /\ mutex = "sched" <=> sched.pc = "advance"
    /\ sched.pc = "advance" => runs[sched.run.id] = sched.run

IInv == TypeOK /\ Placed /\ OutcomesTrue /\ TickOK /\ Saved

\* All records of runs, the one of a caller of run_now included.
All == Known \cup {manual.run}

SameRun(x, y) == x.slot = y.slot /\ x.auto = y.auto /\ x.id = y.id

\* The runs of automation a on disk that were made between runs q and r.
Between(a, q, r) == {k \in RunsOf(a) : q < k /\ k < r}

\* The second record of a slot was made when the look-up no longer saw the first.
Apart(x, y) ==
    x.slot # NoSlot /\ x.slot = y.slot /\ x.auto = y.auto /\ x.id < y.id
    => /\ y.id - x.id > SlotWindow
       /\ auto[x.auto].state # "Deleted"
            => Cardinality(Between(x.auto, x.id, y.id)) >= SlotWindow

\* Runs are numbered in the order of their creation, each for one automation.
Numbered ==
    /\ \A x \in All : SameRun(x, NoRun) \/ (Proper(x) /\ x.id <= made)
    /\ \A x, y \in All : x.id = y.id => x.auto = y.auto
    /\ manual.run.slot = NoSlot

Spaced == Numbered /\ \A x, y \in All : Apart(x, y)

-----------------------------------------------------------------------------
(* Types, and what the steps have in common.                               *)

LEMMA Constants ==
    /\ RunIds = 1..RunBound /\ Tasks = 1..RunBound /\ 0 \notin RunIds
    /\ RunBound \in Nat /\ ClockBound \in Nat /\ NoSlot = 0 /\ NoSlot \in Slots
    /\ NoRun \in Run /\ NoRun.id = 0 /\ NoRun.slot = NoSlot /\ ~NoRun.task
    /\ NoRun.auto = NoAutomation /\ NoRun.status = "Absent"
    /\ Idle \in LoopState /\ Idle.pc = "idle" /\ Idle.due = {} /\ Idle.run = NoRun
    /\ NotCalled \in CallState /\ NotCalled.pc = "idle" /\ NotCalled.run = NoRun
<1>1. /\ RunIds = 1..RunBound /\ Tasks = 1..RunBound /\ 0 \notin RunIds
      /\ RunBound \in Nat /\ ClockBound \in Nat /\ NoSlot = 0 /\ NoSlot \in Slots
  BY AutomationAssumption DEF RunIds, NoSlot, Slots
<1>2. /\ NoRun \in Run /\ NoRun.id = 0 /\ NoRun.slot = NoSlot /\ ~NoRun.task
      /\ NoRun.auto = NoAutomation /\ NoRun.status = "Absent"
  BY <1>1 DEF NoRun, Run, Status
<1> QED BY <1>1, <1>2 DEF Idle, NotCalled, LoopState, CallState

LEMMA Fields ==
    ASSUME TypeOK
    PROVE  /\ sched.due \subseteq Run /\ sched.run \in Run /\ manual.run \in Run
           /\ \A r \in RunIds : runs[r] \in Run
           /\ Known \subseteq Run /\ Collected \subseteq Known
BY DEF TypeOK, LoopState, CallState, Known, Collected

(* An outcome in memory stays, or its task is among the forgotten.           *)
OutcomesStay ==
    /\ status' \in [Tasks -> Status] /\ tasks' \in [Tasks -> Status] /\ Ahead'
    /\ forgotten' \subseteq Tasks /\ forgotten \subseteq forgotten'
    /\ \A t \in Tasks : tasks[t] \in Outcome => tasks'[t] = tasks[t] \/ t \in forgotten'

(* A task moves in memory, and some records are brought up to it.            *)
LEMMA MovesFacts ==
    ASSUME TypeOK, Ahead, NEW t \in Tasks, NEW new \in Status, Moves(t, new),
           \/ tasks[t] = "Queued" /\ new \in {"Running", "Canceled"}
           \/ tasks[t] = "Running" /\ new \in Outcome
    PROVE  OutcomesStay /\ mishaps' \in Nat
<1>1. status \in [Tasks -> Status] /\ tasks \in [Tasks -> Status] /\ mishaps \in Nat
  BY DEF TypeOK
<1>2. /\ tasks' = [tasks EXCEPT ![t] = new] /\ UNCHANGED forgotten
      /\ \E S \in SUBSET Tasks : Written(S, tasks')
  BY DEF Moves
<1>3. PICK S \in SUBSET Tasks :
         status' = [u \in Tasks |-> IF u \in S THEN tasks'[u] ELSE status[u]]
  BY <1>2 DEF Written
<1>4. /\ tasks' \in [Tasks -> Status]
      /\ tasks'[t] = new /\ \A u \in Tasks \ {t} : tasks'[u] = tasks[u]
  BY <1>1, <1>2
<1>5. /\ status' \in [Tasks -> Status]
      /\ \A u \in Tasks : status'[u] = tasks'[u] \/ status'[u] = status[u]
  BY <1>1, <1>3, <1>4
<1>6. Ahead'
  <2> SUFFICES ASSUME NEW u \in Tasks
               PROVE  /\ status'[u] = "Absent" <=> tasks'[u] = "Absent"
                      /\ status'[u] = "Running" => tasks'[u] # "Queued"
                      /\ status'[u] \in Outcome => tasks'[u] = status'[u]
    BY DEF Ahead
  <2>1. /\ status[u] = "Absent" <=> tasks[u] = "Absent"
        /\ status[u] = "Running" => tasks[u] # "Queued"
        /\ status[u] \in Outcome => tasks[u] = status[u]
    BY DEF Ahead
  <2>2. CASE status'[u] = tasks'[u]
    BY <2>2
  <2>3. CASE status'[u] = status[u] /\ u = t
    BY <2>1, <2>3, <1>4 DEF Outcome
  <2>4. CASE status'[u] = status[u] /\ u # t
    BY <2>1, <2>4, <1>4
  <2> QED BY <1>5, <2>2, <2>3, <2>4
<1>7. \A u \in Tasks : tasks[u] \in Outcome => tasks'[u] = tasks[u]
  BY <1>4 DEF Outcome
<1>8. mishaps' \in Nat
  BY <1>1 DEF Moves, Mishap
<1> QED BY <1>2, <1>4, <1>5, <1>6, <1>7, <1>8 DEF OutcomesStay, TypeOK

LEMMA BoardSteps ==
    ASSUME TypeOK, Ahead,
           \/ UNCHANGED board
           \/ \E t \in Tasks : /\ Accept(t) /\ tasks' = [tasks EXCEPT ![t] = "Queued"]
                               /\ UNCHANGED forgotten
           \/ \E t \in Tasks : TaskBegins(t) \/ TaskEnds(t) \/ TaskWritten(t)
           \/ Crash
    PROVE  OutcomesStay
<1>1. status \in [Tasks -> Status] /\ tasks \in [Tasks -> Status] /\ forgotten \subseteq Tasks
  BY DEF TypeOK
<1>2. CASE UNCHANGED board
  BY <1>1, <1>2 DEF OutcomesStay, Ahead
<1>3. ASSUME NEW t \in Tasks, Accept(t), tasks' = [tasks EXCEPT ![t] = "Queued"],
             UNCHANGED forgotten
      PROVE  OutcomesStay
  <2>1. /\ status[t] = "Absent" /\ tasks[t] = "Absent"
        /\ status' = [status EXCEPT ![t] = "Queued"]
    BY <1>3 DEF Accept, Ahead
  <2>2. /\ status' \in [Tasks -> Status] /\ tasks' \in [Tasks -> Status]
        /\ status'[t] = "Queued" /\ tasks'[t] = "Queued"
        /\ \A u \in Tasks \ {t} : status'[u] = status[u] /\ tasks'[u] = tasks[u]
    BY <1>1, <1>3, <2>1 DEF Status
  <2>3. Ahead'
    BY <2>2 DEF Ahead, Outcome
  <2> QED BY <1>1, <1>3, <2>1, <2>2, <2>3 DEF OutcomesStay, Outcome
<1>4. ASSUME NEW t \in Tasks, TaskBegins(t) \/ TaskEnds(t) PROVE OutcomesStay
  <2>1. CASE TaskBegins(t)
    BY <2>1, MovesFacts DEF TaskBegins, Status
  <2>2. CASE TaskEnds(t)
    BY <2>2, MovesFacts DEF TaskEnds, Status, Outcome
  <2> QED BY <1>4, <2>1, <2>2
<1>5. ASSUME NEW t \in Tasks, TaskWritten(t) PROVE OutcomesStay
  <2>1. /\ status' = [u \in Tasks |-> IF u \in {t} THEN tasks[u] ELSE status[u]]
        /\ UNCHANGED <<tasks, forgotten>>
    BY <1>5 DEF TaskWritten, Written
  <2>2. /\ status' \in [Tasks -> Status]
        /\ \A u \in Tasks : status'[u] = tasks[u] \/ status'[u] = status[u]
    BY <1>1, <2>1
  <2>3. Ahead'
    BY <2>1, <2>2 DEF Ahead
  <2> QED BY <1>1, <2>1, <2>2, <2>3 DEF OutcomesStay
<1>6. CASE Crash
  <2>1. /\ status' = [t \in Tasks |-> IF status[t] = "Running" THEN "Failed" ELSE status[t]]
        /\ tasks' = [t \in Tasks |-> IF status[t] = "Running" THEN "Failed" ELSE status[t]]
        /\ forgotten' = forgotten \cup {t \in Tasks : tasks[t] \in Outcome /\ status[t] # tasks[t]}
    BY <1>6 DEF Crash, Interrupt, Recovered
  <2>2. /\ status' \in [Tasks -> Status] /\ tasks' \in [Tasks -> Status]
        /\ \A t \in Tasks : status'[t] = tasks'[t] /\ status'[t] # "Running"
    BY <1>1, <2>1 DEF Status, Outcome
  <2>3. Ahead'
    BY <2>2 DEF Ahead
  <2>4. \A t \in Tasks : tasks[t] \in Outcome => tasks'[t] = tasks[t] \/ t \in forgotten'
    BY <2>1 DEF Outcome
  <2> QED BY <1>1, <2>1, <2>2, <2>3, <2>4 DEF OutcomesStay
<1> QED BY <1>2, <1>3, <1>4, <1>5, <1>6

(* Outcomes stay true when every record was there before, or is true now.    *)
LEMMA OutcomesFrame ==
    ASSUME OutcomesTrue, OutcomesStay,
           \A r \in RunIds : runs'[r] \in Known \cup {manual.run} \/ Truthful(runs'[r], tasks', forgotten'),
           \A x \in sched'.due : x \in Known \/ Truthful(x, tasks', forgotten'),
           sched'.run \in Known \/ Truthful(sched'.run, tasks', forgotten'),
           manual'.run = manual.run \/ Truthful(manual'.run, tasks', forgotten')
    PROVE  OutcomesTrue'
<1>1. ASSUME NEW x, Truthful(x, tasks, forgotten) PROVE Truthful(x, tasks', forgotten')
  BY <1>1 DEF Truthful, OutcomesStay
<1>2. \A x \in Known \cup {manual.run} : Truthful(x, tasks', forgotten')
  BY <1>1 DEF OutcomesTrue
<1>3. ASSUME NEW x \in Known' PROVE Truthful(x, tasks', forgotten')
  BY <1>2 DEF Known
<1>4. Truthful(manual'.run, tasks', forgotten')
  BY <1>2
<1> QED BY <1>3, <1>4 DEF OutcomesTrue, OutcomesStay

(* What almost every step does: it makes no run, and no run of an automation *)
(* that is not deleted leaves the disk.                                      *)
Traced == \A x \in All' : x = NoRun \/ \E y \in All : SameRun(x, y)

RunsKept ==
    \A a \in Automations :
       auto'[a].state # "Deleted" => auto[a].state # "Deleted" /\ RunsOf(a) \subseteq RunsOf(a)'

LEMMA BetweenFinite ==
    ASSUME NEW S \in SUBSET RunIds
    PROVE  IsFiniteSet(S) /\ Cardinality(S) \in Nat
<1>1. IsFiniteSet(1..RunBound) /\ S \in SUBSET (1..RunBound)
  BY Constants, FS_Interval
<1> QED BY <1>1, FS_Subset, FS_CardinalityType

LEMMA SpacedFrame ==
    ASSUME TypeOK, Spaced, Traced, RunsKept, manual'.run.slot = NoSlot,
           made' \in Nat, made <= made'
    PROVE  Spaced'
<1>1. Numbered'
  <2>1. \A x \in All' : SameRun(x, NoRun) \/ \E y \in All : SameRun(x, y)
    BY DEF Traced, SameRun
  <2>2. ASSUME NEW x \in All' PROVE SameRun(x, NoRun) \/ (Proper(x) /\ x.id <= made')
    <3>1. CASE SameRun(x, NoRun)
      BY <3>1
    <3>2. ASSUME NEW y \in All, SameRun(x, y) PROVE SameRun(x, NoRun) \/ (Proper(x) /\ x.id <= made')
      <4>1. CASE SameRun(y, NoRun)
        BY <3>2, <4>1 DEF SameRun
      <4>2. CASE Proper(y) /\ y.id <= made
        BY <3>2, <4>2, Constants DEF SameRun, Proper, TypeOK
      <4> QED BY <4>1, <4>2 DEF Spaced, Numbered
    <3> QED BY <2>1, <3>1, <3>2
  <2>3. ASSUME NEW x \in All', NEW y \in All', x.id = y.id PROVE x.auto = y.auto
    <3>1. \A v \in All : v.id = NoRun.id => v.auto = NoRun.auto
      BY Constants DEF Spaced, Numbered, SameRun, Proper
    <3> QED BY <2>1, <2>3, <3>1 DEF Spaced, Numbered, SameRun
  <2> QED BY <2>2, <2>3 DEF Numbered
<1>2. ASSUME NEW x \in All', NEW y \in All',
             x.slot # NoSlot, x.slot = y.slot, x.auto = y.auto, x.id < y.id
      PROVE  /\ y.id - x.id > SlotWindow
             /\ auto'[x.auto].state # "Deleted"
                  => Cardinality(Between(x.auto, x.id, y.id)') >= SlotWindow
  <2>1. PICK v \in All, w \in All : SameRun(x, v) /\ SameRun(y, w)
    BY <1>2, Constants DEF Traced
  <2>2. Apart(v, w) /\ v.auto \in Automations
    BY <1>2, <2>1, Constants DEF Spaced, Numbered, SameRun, Proper
  <2>3. /\ y.id - x.id > SlotWindow /\ x.auto \in Automations
        /\ auto[x.auto].state # "Deleted"
             => Cardinality(Between(x.auto, x.id, y.id)) >= SlotWindow
    BY <1>2, <2>1, <2>2 DEF Apart, SameRun
  <2>4. ASSUME auto'[x.auto].state # "Deleted"
        PROVE  Cardinality(Between(x.auto, x.id, y.id)') >= SlotWindow
    <3>1. /\ Between(x.auto, x.id, y.id) \in SUBSET Between(x.auto, x.id, y.id)'
          /\ Between(x.auto, x.id, y.id)' \in SUBSET RunIds
      BY <2>3, <2>4 DEF RunsKept, Between, RunsOf
    <3>2. Cardinality(Between(x.auto, x.id, y.id)) >= SlotWindow
      BY <2>3, <2>4 DEF RunsKept
    <3> DEFINE old == Cardinality(Between(x.auto, x.id, y.id))
               now == Cardinality(Between(x.auto, x.id, y.id)')
    <3>3. old <= now /\ old \in Nat /\ now \in Nat
      BY <3>1, BetweenFinite, FS_Subset
    <3> HIDE DEF old, now
    <3>4. now >= SlotWindow
      BY <3>2, <3>3, AutomationAssumption DEF old
    <3> QED BY <3>4 DEF now
  <2> QED BY <2>3, <2>4
<1>3. ASSUME NEW x \in All', NEW y \in All' PROVE Apart(x, y)'
  BY <1>2 DEF Apart
<1> QED BY <1>1, <1>3 DEF Spaced

-----------------------------------------------------------------------------
(* The end of a tick or of a pass, the death of the process.               *)

LEMMA RestStep ==
    ASSUME IInv, OutcomesStay,
           sched' \in {Idle, [Idle EXCEPT !.pc = "reconcile"]}, mutex' = "free",
           manual' \in {manual, NotCalled}, mishaps' \in Nat,
           auto' \in [Automations -> Automation],
           \A a \in Automations : auto'[a].state = auto[a].state,
           UNCHANGED <<clock, runs, made, slotOf>>
    PROVE  IInv' /\ (Spaced => Spaced')
<1>1. TypeOK /\ Placed /\ OutcomesTrue
  BY DEF IInv
<1>2. /\ sched' \in LoopState /\ sched'.pc \in {"idle", "reconcile"}
      /\ sched'.due = {} /\ sched'.run = NoRun
  BY Constants DEF LoopState
<1>3. manual' \in CallState /\ manual'.run \in {manual.run, NoRun}
  BY <1>1, Constants DEF TypeOK
<1>4. TypeOK'
  BY <1>1, <1>2, <1>3 DEF TypeOK, OutcomesStay
<1>5. Placed'
  <2>1. manual'.pc # "idle" => manual' = manual
    BY Constants
  <2> QED BY <1>1, <1>2, <2>1 DEF Placed, Proper
<1>6. OutcomesTrue'
  <2>1. \A r \in RunIds : runs'[r] \in Known
    BY DEF Known
  <2>2. Truthful(NoRun, tasks', forgotten')
    BY Constants DEF Truthful
  <2> QED BY <1>1, <1>2, <1>3, <2>1, <2>2, OutcomesFrame
<1>7. TickOK' /\ Saved'
  BY <1>2 DEF TickOK, Ticking, Holding, Saved
<1>8. ASSUME Spaced PROVE Spaced'
  <2>1. manual'.run.slot = NoSlot
    BY <1>3, <1>8, Constants DEF Spaced, Numbered
  <2>2. Traced
    BY <1>2, <1>3 DEF Traced, All, Known, SameRun
  <2>3. RunsKept
    BY DEF RunsKept, RunsOf
  <2> QED BY <1>1, <1>8, <2>1, <2>2, <2>3, SpacedFrame DEF TypeOK
<1> QED BY <1>4, <1>5, <1>6, <1>7, <1>8 DEF IInv

(* What the sweep saves for an automation.                                   *)
LEMMA BookkeptFacts ==
    ASSUME TypeOK, NEW a \in Automations
    PROVE  /\ Bookkept(a) \in Automation /\ Bookkept(a).state = auto[a].state
           /\ auto[a].next # NoSlot =>
                \/ Bookkept(a).next = auto[a].next
                \/ Due(a) /\ HasRun(a, auto[a].next) /\ Bookkept(a).next = auto[a].next + 1
<1>1. /\ auto[a] \in Automation /\ auto[a].next \in Slots
      /\ clock \in 0..ClockBound /\ ClockBound \in Nat
  BY Constants DEF TypeOK, Automation
<1>2. CASE auto[a].state = "Active" /\ auto[a].next = NoSlot
  <2>1. Bookkept(a) = [auto[a] EXCEPT !.next = clock + 1]
    BY <1>2 DEF Bookkept, Due
  <2>2. clock + 1 \in Slots
    BY <1>1 DEF Slots
  <2> QED BY <1>1, <1>2, <2>1, <2>2 DEF Automation
<1>3. CASE ~(auto[a].state = "Active" /\ auto[a].next = NoSlot) /\ Due(a) /\ HasRun(a, auto[a].next)
  <2>1. Bookkept(a) = [auto[a] EXCEPT !.next = auto[a].next + 1]
    BY <1>3 DEF Bookkept
  <2>2. auto[a].next + 1 \in Slots
    BY <1>1, <1>3 DEF Slots, Due
  <2> QED BY <1>1, <1>3, <2>1, <2>2 DEF Automation
<1>4. CASE ~(auto[a].state = "Active" /\ auto[a].next = NoSlot)
           /\ ~(Due(a) /\ HasRun(a, auto[a].next))
  <2>1. Bookkept(a) = auto[a]
    BY <1>4 DEF Bookkept
  <2> QED BY <1>1, <2>1
<1> QED BY <1>2, <1>3, <1>4

LEMMA RestSteps ==
    ASSUME IInv, CollectFails \/ TickFails \/ TickDone \/ PassDone \/ Crash
    PROVE  IInv' /\ (Spaced => Spaced')
<1>1. TypeOK /\ Saved /\ Ahead
  BY DEF IInv, OutcomesTrue
<1>2. OutcomesStay
  <2>1. Crash \/ UNCHANGED board
    BY DEF CollectFails, TickFails, TickDone, PassDone
  <2> QED BY <1>1, <2>1, BoardSteps
<1>3. sched' \in {Idle, [Idle EXCEPT !.pc = "reconcile"]}
  BY DEF CollectFails, TickFails, TickDone, PassDone, Crash
<1>4. mutex' = "free"
  BY <1>1 DEF CollectFails, TickFails, TickDone, PassDone, Crash, Saved, TypeOK
<1>5. manual' \in {manual, NotCalled} /\ UNCHANGED <<clock, runs, made, slotOf>>
  BY DEF CollectFails, TickFails, TickDone, PassDone, Crash
<1>6. mishaps' \in Nat
  BY <1>1 DEF CollectFails, TickFails, TickDone, PassDone, Crash, Mishap, TypeOK
<1>7. auto' \in [Automations -> Automation] /\ \A a \in Automations : auto'[a].state = auto[a].state
  <2>1. CASE CollectFails
    <3>1. PICK saved \in SUBSET Automations :
             auto' = [a \in Automations |-> IF a \in saved THEN Bookkept(a) ELSE auto[a]]
      BY <2>1 DEF CollectFails
    <3> QED BY <3>1, <1>1, BookkeptFacts DEF TypeOK
  <2>2. CASE auto' = auto
    BY <2>2, <1>1 DEF TypeOK
  <2> QED BY <2>1, <2>2 DEF TickFails, TickDone, PassDone, Crash
<1> QED BY <1>2, <1>3, <1>4, <1>5, <1>6, <1>7, RestStep

-----------------------------------------------------------------------------
(* The tick.                                                               *)

(* A run that the look-up of a slot does not see has SlotWindow newer ones.    *)
LEMMA HiddenRun ==
    ASSUME TypeOK, NEW a, NEW r \in RunIds, runs[r].auto = a, ~HasRun(a, runs[r].slot),
           NEW new \in Int, \A k \in RunsOf(a) : k < new
    PROVE  /\ Cardinality(Between(a, r, new)) >= SlotWindow
           /\ r < new /\ new - r > SlotWindow
<1> DEFINE later == {k \in RunsOf(a) : k > r}
<1>1. r \in RunsOf(a) /\ RunsOf(a) \in SUBSET RunIds /\ r \in Int /\ RunIds \subseteq Int
  BY Constants DEF RunsOf
<1>2. Between(a, r, new) = later
  BY <1>1 DEF Between
<1>3. ~(Cardinality(later) < SlotWindow)
  BY <1>1 DEF HasRun, Newest
<1> HIDE DEF later
<1>4. later \in SUBSET RunIds /\ later \in SUBSET ((r + 1)..(new - 1))
  <2>1. ASSUME NEW k \in later PROVE k \in RunIds /\ k \in Int /\ k > r /\ k < new
    BY <1>1 DEF later
  <2> QED BY <1>1, <2>1
<1>5. Cardinality(later) \in Nat /\ Cardinality(later) >= SlotWindow
  BY <1>3, <1>4, BetweenFinite, AutomationAssumption
<1>6. r < new
  BY <1>1
<1>7. IsFiniteSet((r + 1)..(new - 1)) /\ Cardinality((r + 1)..(new - 1)) = new - 1 - r
  BY <1>1, <1>6, FS_Interval
<1>8. Cardinality(later) <= new - 1 - r
  BY <1>4, <1>7, FS_Subset
<1>9. new - r > SlotWindow
  BY <1>1, <1>5, <1>8, AutomationAssumption
<1> QED BY <1>2, <1>5, <1>6, <1>9

LEMMA CollectStep ==
    ASSUME IInv, Collect
    PROVE  IInv' /\ (Spaced => Spaced')
<1> DEFINE due == {a \in Automations : Due(a) /\ ~HasRun(a, auto[a].next)}
           fresh == IF made + Cardinality(due) <= RunBound THEN due ELSE {}
<1>1. TypeOK /\ Placed /\ OutcomesTrue /\ Saved
  BY DEF IInv
<1>2. /\ sched.pc = "idle" /\ mutex = "free"
      /\ auto' = [a \in Automations |-> Bookkept(a)]
      /\ made' = made + Cardinality(fresh)
      /\ UNCHANGED <<board, clock, runs, manual, mutex, slotOf, mishaps>>
  BY DEF Collect
<1>3. PICK number \in [fresh -> (made + 1)..(made + Cardinality(fresh))] :
        /\ \A a, b \in fresh : number[a] = number[b] => a = b
        /\ sched' = [Idle EXCEPT !.pc = "enqueue",
                                 !.due = {NewRun(number[a], a, auto[a].next) : a \in fresh}]
  BY DEF Collect
<1> DEFINE new == {NewRun(number[a], a, auto[a].next) : a \in fresh}
<1>4. sched'.pc = "enqueue" /\ sched'.due = new /\ sched'.run = NoRun /\ sched' = [Idle EXCEPT !.pc = "enqueue", !.due = new]
  BY <1>3 DEF Idle
<1>5. /\ fresh \subseteq due /\ made \in Nat /\ Cardinality(fresh) \in Nat
      /\ made + Cardinality(fresh) \in 0..RunBound
  <2>1. IsFiniteSet(due) /\ Cardinality(due) \in Nat /\ Cardinality({}) = 0
    <3>1. due \in SUBSET Automations
      OBVIOUS
    <3> HIDE DEF due
    <3> QED BY <3>1, AutomationAssumption, FS_Subset, FS_CardinalityType, FS_EmptySet
  <2>2. made \in 0..RunBound /\ RunBound \in Nat
    BY <1>1, Constants DEF TypeOK
  <2> HIDE DEF due
  <2> QED BY <2>1, <2>2
<1>6. \A a \in fresh : a \in Automations /\ Due(a) /\ ~HasRun(a, auto[a].next)
  BY <1>5
<1> HIDE DEF fresh, due
<1>7. \A a \in fresh : number[a] \in RunIds /\ auto[a].next \in Slots /\ auto[a].next \in 1..clock
  <2>1. \A a \in fresh : number[a] \in (made + 1)..(made + Cardinality(fresh))
    OBVIOUS
  <2>2. \A a \in fresh : number[a] \in 1..RunBound
    <3> DEFINE top == made + Cardinality(fresh)
    <3>1. top \in 0..RunBound /\ \A a \in fresh : number[a] \in (made + 1)..top
      BY <2>1, <1>5
    <3> HIDE DEF top
    <3> QED BY <3>1, <1>5, Constants
  <2>3. \A a \in fresh : auto[a].next \in Slots /\ auto[a].next <= clock /\ auto[a].next # 0
    BY <1>1, <1>6, Constants DEF TypeOK, Automation, Due
  <2> QED BY <2>2, <2>3, <1>1, Constants DEF TypeOK, Slots
<1>8. \A a \in fresh : LET x == NewRun(number[a], a, auto[a].next)
                       IN  /\ x \in Run /\ x.id = number[a] /\ x.auto = a
                           /\ x.slot = auto[a].next /\ ~x.task
  BY <1>6, <1>7, Constants DEF NewRun, Run, Status
<1>9. \A x \in new : /\ x \in Run /\ x.auto \in fresh /\ x.slot = auto[x.auto].next /\ ~x.task
                     /\ x = NewRun(number[x.auto], x.auto, auto[x.auto].next)
                     /\ x.id = number[x.auto]
  BY <1>8
<1> HIDE DEF new
<1>10. TypeOK'
  <2>1. sched' \in LoopState
    BY <1>4, <1>9, Constants DEF LoopState
  <2>2. auto' \in [Automations -> Automation]
    BY <1>1, <1>2, BookkeptFacts
  <2> QED BY <1>1, <1>2, <1>5, <2>1, <2>2 DEF TypeOK
<1>11. Placed'
  BY <1>1, <1>2, <1>4, <1>6, <1>7, <1>9 DEF Placed, Proper
<1>12. OutcomesTrue'
  <2>1. \A r \in RunIds : runs'[r] \in Known
    BY <1>2 DEF Known
  <2>2. Truthful(NoRun, tasks', forgotten') /\ \A x \in new : Truthful(x, tasks', forgotten')
    BY <1>9, Constants DEF Truthful
  <2>3. OutcomesStay
    BY <1>1, <1>2, BoardSteps DEF OutcomesTrue
  <2> QED BY <1>1, <1>2, <1>4, <2>1, <2>2, <2>3, OutcomesFrame
<1>13. TickOK'
  <2>1. Collected' = new
    BY <1>4 DEF Collected, Holding
  <2>2. ASSUME NEW x \in new
        PROVE  x.slot \in 1..clock /\ auto'[x.auto].next >= x.slot
    <3>1. x.auto \in Automations /\ x.slot = auto[x.auto].next /\ x.slot \in 1..clock /\ clock \in Nat
      BY <1>1, <1>6, <1>7, <1>9, Constants DEF TypeOK
    <3>2. auto'[x.auto].next \in {x.slot, x.slot + 1}
      <4>1. auto'[x.auto] = Bookkept(x.auto)
        BY <1>2, <3>1
      <4>2. auto[x.auto].next # NoSlot
        BY <3>1, Constants
      <4> QED BY <1>1, <3>1, <4>1, <4>2, BookkeptFacts
    <3> QED BY <3>1, <3>2
  <2>3. (\A x \in new : ~x.task) /\ \A x, y \in new : x.auto = y.auto => x = y
    BY <1>9
  <2> QED BY <1>2, <1>4, <2>1, <2>2, <2>3 DEF TickOK, Holding
<1>14. Saved'
  BY <1>2, <1>4 DEF Saved
<1>15. ASSUME Spaced PROVE Spaced'
  <2>1. \A x \in new : x.id > made /\ x.id <= made' /\ x.slot # NoSlot /\ x.id \in Nat
    BY <1>2, <1>5, <1>6, <1>7, <1>9, Constants DEF Due
  <2>2. \A x \in new, y \in new : x.id = y.id \/ x.auto = y.auto => x = y
    BY <1>3, <1>9
  <2>3. ASSUME NEW x \in All' PROVE x \in new \/ x = NoRun \/ x = manual.run \/ \E r \in RunIds : x = runs[r]
    BY <1>2, <1>4 DEF All, Known
  <2>4. \A x \in All' : x \in new \/ x = NoRun \/ x \in All
    BY <2>3 DEF All, Known
  <2>5. made \in Nat /\ made' \in Nat /\ made <= made' /\ manual'.run.slot = NoSlot
    BY <1>2, <1>5, <1>15, Constants DEF Spaced, Numbered
  <2>6. ASSUME NEW x, x = NoRun \/ x \in All
        PROVE  /\ SameRun(x, NoRun) \/ (Proper(x) /\ x.id <= made)
               /\ x.id <= made /\ x.id \in Nat
    BY <2>5, <2>6, <1>15, Constants DEF Spaced, Numbered, SameRun, Proper
  <2>7. Numbered'
    <3>1. ASSUME NEW x \in All' PROVE SameRun(x, NoRun) \/ (Proper(x) /\ x.id <= made')
      <4>1. CASE x \in new
        BY <4>1, <2>1, <1>6, <1>7, <1>9 DEF Proper
      <4>2. CASE x = NoRun \/ x \in All
        BY <4>2, <2>5, <2>6
      <4> QED BY <2>4, <4>1, <4>2
    <3>2. ASSUME NEW x \in All', NEW y \in All', x.id = y.id PROVE x.auto = y.auto
      <4>1. CASE x \in new /\ y \in new
        BY <4>1, <3>2, <2>2
      <4>2. CASE (x \in new /\ y \notin new) \/ (y \in new /\ x \notin new)
        BY <4>2, <3>2, <2>1, <2>4, <2>5, <2>6
      <4>3. CASE x \notin new /\ y \notin new
        <5>1. \A v \in All : v.id = 0 => v.auto = NoRun.auto
          BY <1>15, Constants DEF Spaced, Numbered, SameRun, Proper
        <5> QED BY <4>3, <3>2, <2>4, <5>1, <1>15, Constants DEF Spaced, Numbered
      <4> QED BY <4>1, <4>2, <4>3
    <3> QED BY <3>1, <3>2, <2>5 DEF Numbered
  <2>8. ASSUME NEW x \in All', NEW y \in All',
               x.slot # NoSlot, x.slot = y.slot, x.auto = y.auto, x.id < y.id
        PROVE  /\ y.id - x.id > SlotWindow
               /\ auto'[x.auto].state # "Deleted"
                    => Cardinality(Between(x.auto, x.id, y.id)) >= SlotWindow
    <3>1. x \notin new
      BY <2>1, <2>2, <2>4, <2>5, <2>6, <2>8
    <3>2. PICK r \in RunIds : x = runs[r]
      BY <3>1, <2>3, <2>8, <1>15, Constants DEF Spaced, Numbered
    <3>3. x.id = r /\ x.auto \in Automations
      BY <3>2, <2>8, <1>1, Constants DEF Placed
    <3>4. CASE y \in new
      <4>1. ~HasRun(x.auto, x.slot)
        BY <3>4, <2>8, <1>6, <1>9
      <4>2. ASSUME NEW k \in RunsOf(x.auto) PROVE k < y.id
        <5>1. runs[k] \in All /\ runs[k].id = k
          BY <3>3, <1>1, Constants, AutomationAssumption DEF RunsOf, Placed, All, Known
        <5> QED BY <5>1, <2>1, <2>5, <2>6, <3>4
      <4> QED BY <4>1, <4>2, <3>2, <3>3, <3>4, <2>1, <1>1, HiddenRun
    <3>5. CASE y \notin new
      <4>1. x \in All /\ y \in All
        BY <3>5, <3>2, <2>4, <2>8, Constants DEF All, Known
      <4>2. auto'[x.auto].state = auto[x.auto].state
        BY <3>3, <1>1, <1>2, BookkeptFacts
      <4> QED BY <4>1, <4>2, <2>8, <1>15 DEF Spaced, Apart
    <3> QED BY <3>4, <3>5
  <2>9. \A a, q, r : Between(a, q, r)' = Between(a, q, r)
    BY <1>2 DEF Between, RunsOf
  <2>10. ASSUME NEW x \in All', NEW y \in All' PROVE Apart(x, y)'
    BY <2>8, <2>9 DEF Apart
  <2> QED BY <2>7, <2>10 DEF Spaced
<1> QED BY <1>10, <1>11, <1>12, <1>13, <1>14, <1>15 DEF IInv

(* A task is added for a run, or refused; the run takes note of which.       *)
LEMMA AddTaskFacts ==
    ASSUME TypeOK, Ahead, NEW x \in Run, Proper(x), ~x.task, NEW new,
           \/ AddTask(x) /\ new = Added(x)
           \/ AddTaskFails /\ new = Refused(x)
    PROVE  /\ OutcomesStay /\ mishaps' \in Nat
           /\ slotOf' \in [Tasks -> (Automations \cup {NoAutomation}) \X Slots]
           /\ new \in Run /\ new.id = x.id /\ new.auto = x.auto /\ new.slot = x.slot
           /\ Truthful(new, tasks', forgotten')
<1>1. x.id \in Tasks /\ x.auto \in Automations /\ x.slot \in Slots
  BY Constants DEF Proper, Run
<1>2. CASE AddTask(x) /\ new = Added(x)
  <2>1. OutcomesStay
    BY <1>1, <1>2, BoardSteps DEF AddTask
  <2>2. new = [x EXCEPT !.status = "Running", !.task = TRUE]
    BY <1>2 DEF Added
  <2>3. /\ new \in Run /\ new.id = x.id /\ new.auto = x.auto /\ new.slot = x.slot
        /\ new.status \notin Outcome
    BY <2>2 DEF Run, Status, Outcome
  <2>4. /\ mishaps' \in Nat
        /\ slotOf' \in [Tasks -> (Automations \cup {NoAutomation}) \X Slots]
    BY <1>1, <1>2 DEF AddTask, TypeOK
  <2> QED BY <2>1, <2>3, <2>4 DEF Truthful
<1>3. CASE AddTaskFails /\ new = Refused(x)
  <2>1. OutcomesStay
    BY <1>3, BoardSteps DEF AddTaskFails
  <2>2. new = [x EXCEPT !.status = "Failed"]
    BY <1>3 DEF Refused
  <2>3. /\ new \in Run /\ new.id = x.id /\ new.auto = x.auto /\ new.slot = x.slot
        /\ ~new.task
    BY <2>2 DEF Run, Status, Outcome
  <2>4. /\ mishaps' \in Nat
        /\ slotOf' \in [Tasks -> (Automations \cup {NoAutomation}) \X Slots]
    BY <1>3 DEF AddTaskFails, Mishap, TypeOK
  <2> QED BY <2>1, <2>3, <2>4 DEF Truthful
<1> QED BY <1>2, <1>3

LEMMA EnqueueStep ==
    ASSUME IInv, Enqueue
    PROVE  IInv' /\ (Spaced => Spaced')
<1>1. TypeOK /\ Placed /\ OutcomesTrue /\ TickOK /\ Saved
  BY DEF IInv
<1>2. PICK x \in sched.due : \E new \in {Added(x), Refused(x)} :
         /\ \/ AddTask(x) /\ new = Added(x)
            \/ AddTaskFails /\ new = Refused(x)
         /\ sched' = [sched EXCEPT !.pc = "save", !.run = new, !.due = sched.due \ {x}]
  BY DEF Enqueue
<1> PICK new \in {Added(x), Refused(x)} :
         /\ \/ AddTask(x) /\ new = Added(x)
            \/ AddTaskFails /\ new = Refused(x)
         /\ sched' = [sched EXCEPT !.pc = "save", !.run = new, !.due = sched.due \ {x}]
  BY <1>2
<1>3. /\ sched.pc = "enqueue" /\ UNCHANGED <<clock, auto, runs, made, manual, mutex>>
  BY DEF Enqueue
<1>4. /\ x \in Run /\ Proper(x) /\ ~x.task /\ x.slot \in 1..clock
      /\ auto[x.auto].next # NoSlot => auto[x.auto].next >= x.slot
  BY <1>1, <1>3, Fields DEF Placed, TickOK, Ticking, Collected
<1>5. /\ OutcomesStay /\ mishaps' \in Nat
      /\ slotOf' \in [Tasks -> (Automations \cup {NoAutomation}) \X Slots]
      /\ new \in Run /\ new.id = x.id /\ new.auto = x.auto /\ new.slot = x.slot
      /\ Truthful(new, tasks', forgotten')
  BY <1>1, <1>2, <1>4, AddTaskFacts DEF OutcomesTrue
<1>6. /\ sched' \in LoopState
      /\ sched'.pc = "save" /\ sched'.run = new /\ sched'.due = sched.due \ {x}
  BY <1>1, <1>2, <1>5 DEF TypeOK, LoopState
<1>7. TypeOK'
  BY <1>1, <1>3, <1>5, <1>6 DEF TypeOK, OutcomesStay
<1>8. Placed'
  BY <1>1, <1>3, <1>4, <1>5, <1>6 DEF Placed, Proper
<1>9. OutcomesTrue'
  <2>1. (\A r \in RunIds : runs'[r] \in Known) /\ \A y \in sched'.due : y \in Known
    BY <1>3, <1>6 DEF Known
  <2> QED BY <1>1, <1>3, <1>5, <1>6, <2>1, OutcomesFrame
<1>10. TickOK'
  <2>1. ASSUME NEW y \in Collected'
        PROVE  y.slot \in 1..clock /\ (auto[y.auto].next # NoSlot => auto[y.auto].next >= y.slot)
    <3>1. y = new \/ y \in sched.due
      BY <1>6 DEF Collected
    <3>2. CASE y = new
      BY <3>2, <1>4, <1>5
    <3>3. CASE y \in sched.due
      BY <3>3, <1>1, <1>3 DEF TickOK, Ticking, Collected
    <3> QED BY <3>1, <3>2, <3>3
  <2>2. \A y \in sched'.due : y.auto # new.auto /\ ~y.task
    BY <1>1, <1>3, <1>5, <1>6 DEF TickOK, Ticking
  <2>3. \A y, z \in sched'.due : y.auto = z.auto => y = z
    BY <1>1, <1>3, <1>6 DEF TickOK, Ticking
  <2> QED BY <1>3, <1>6, <2>1, <2>2, <2>3 DEF TickOK
<1>11. Saved'
  BY <1>1, <1>3, <1>6 DEF Saved
<1>12. ASSUME Spaced PROVE Spaced'
  <2>1. ASSUME NEW y \in All' PROVE \E z \in All : SameRun(y, z)
    <3>1. y = new \/ y \in All
      BY <1>3, <1>6 DEF All, Known
    <3>2. x \in All
      BY <1>2 DEF All, Known
    <3> QED BY <3>1, <3>2, <1>5 DEF SameRun
  <2>2. Traced /\ RunsKept
    BY <1>3, <2>1 DEF Traced, RunsKept, RunsOf
  <2> QED BY <1>1, <1>3, <1>12, <2>2, SpacedFrame DEF TypeOK, Spaced, Numbered
<1> QED BY <1>7, <1>8, <1>9, <1>10, <1>11, <1>12 DEF IInv

(* A record the loop holds is written; nothing else changes on disk.         *)
LEMMA WriteFrame ==
    ASSUME TypeOK, Placed, NEW x \in Run, Proper(x),
           runs' = [runs EXCEPT ![x.id] = x]
    PROVE  /\ runs' \in [RunIds -> Run] /\ runs'[x.id] = x
           /\ \A r \in RunIds : r # x.id => runs'[r] = runs[r]
           /\ \A r \in RunIds : runs'[r] # NoRun => runs'[r].id = r /\ runs'[r].auto \in Automations
BY DEF TypeOK, Placed, Proper

(* The write takes no run from the automation it belongs to.                 *)
LEMMA WriteKeepsRuns ==
    ASSUME TypeOK, Placed, Spaced, NEW x \in All, Proper(x), UNCHANGED auto,
           runs' = [runs EXCEPT ![x.id] = x]
    PROVE  RunsKept
<1> SUFFICES ASSUME NEW a \in Automations, NEW r \in RunsOf(a)
             PROVE  r \in RunsOf(a)'
  BY DEF RunsKept
<1>1. r \in RunIds /\ runs[r].auto = a /\ runs[r] # NoRun /\ runs[r] \in All
  BY Constants, AutomationAssumption DEF RunsOf, All, Known
<1>2. runs[r].id = r
  BY <1>1 DEF Placed
<1>3. CASE r = x.id
  <2>1. x.auto = a
    BY <1>1, <1>2, <1>3 DEF Spaced, Numbered
  <2> QED BY <1>1, <1>3, <2>1 DEF RunsOf, TypeOK
<1>4. CASE r # x.id
  BY <1>1, <1>4 DEF RunsOf, TypeOK
<1> QED BY <1>3, <1>4

LEMMA SaveRunStep ==
    ASSUME IInv, SaveRun
    PROVE  IInv' /\ (Spaced => Spaced')
<1>1. TypeOK /\ Placed /\ OutcomesTrue /\ TickOK /\ Saved
  BY DEF IInv
<1>2. /\ sched.pc = "save" /\ runs' = [runs EXCEPT ![sched.run.id] = sched.run]
      /\ sched' = [sched EXCEPT !.pc = "advance"] /\ mutex' = "sched"
      /\ UNCHANGED <<board, clock, auto, made, manual, slotOf, mishaps>>
  BY DEF SaveRun
<1>3. /\ sched' \in LoopState
      /\ sched'.pc = "advance" /\ sched'.run = sched.run /\ sched'.due = sched.due
  BY <1>1, <1>2 DEF TypeOK, LoopState
<1>4. sched.run \in Run /\ Proper(sched.run)
  BY <1>1, <1>2, Fields DEF Placed
<1>5. /\ runs' \in [RunIds -> Run] /\ runs'[sched.run.id] = sched.run
      /\ \A r \in RunIds : r # sched.run.id => runs'[r] = runs[r]
      /\ \A r \in RunIds : runs'[r] # NoRun => runs'[r].id = r /\ runs'[r].auto \in Automations
  BY <1>1, <1>2, <1>4, WriteFrame
<1>6. TypeOK'
  BY <1>1, <1>2, <1>3, <1>5 DEF TypeOK
<1>7. Placed'
  BY <1>1, <1>2, <1>3, <1>4, <1>5 DEF Placed
<1>8. \A y \in Known' : y \in Known
  BY <1>3, <1>5 DEF Known
<1>9. OutcomesTrue'
  BY <1>1, <1>2, <1>8 DEF OutcomesTrue, Ahead
<1>10. TickOK'
  <2>1. Collected' = Collected
    BY <1>2, <1>3 DEF Collected, Holding
  <2> QED BY <2>1, <1>1, <1>2, <1>3 DEF TickOK, Ticking, Holding
<1>11. Saved'
  BY <1>2, <1>3, <1>5 DEF Saved
<1>12. ASSUME Spaced PROVE Spaced'
  <2>1. Traced
    BY <1>2, <1>8 DEF Traced, All, SameRun
  <2>2. RunsKept
    BY <1>1, <1>2, <1>4, <1>12, WriteKeepsRuns DEF All, Known
  <2> QED BY <1>1, <1>2, <1>12, <2>1, <2>2, SpacedFrame DEF TypeOK, Spaced, Numbered
<1> QED BY <1>6, <1>7, <1>9, <1>10, <1>11, <1>12 DEF IInv

LEMMA AdvanceStep ==
    ASSUME IInv, Advance
    PROVE  IInv' /\ (Spaced => Spaced')
<1> DEFINE x == sched.run
<1>1. TypeOK /\ Placed /\ OutcomesTrue /\ TickOK /\ Saved
  BY DEF IInv
<1>2. /\ sched.pc = "advance" /\ mutex' = "free"
      /\ sched' = [sched EXCEPT !.pc = "enqueue", !.run = NoRun]
      /\ auto' = IF auto[x.auto].state \in {"Absent", "Deleted"} THEN auto
                 ELSE [auto EXCEPT ![x.auto].next = x.slot + 1]
      /\ UNCHANGED <<board, clock, runs, made, manual, slotOf, mishaps>>
  BY DEF Advance
<1>3. /\ sched' \in LoopState
      /\ sched'.pc = "enqueue" /\ sched'.run = NoRun /\ sched'.due = sched.due
  BY <1>1, <1>2, Constants DEF TypeOK, LoopState
<1>4. x \in Run /\ Proper(x) /\ x.slot \in 1..clock
  BY <1>1, <1>2, Fields DEF Placed, TickOK, Ticking, Holding, Collected
<1>5. \A y \in sched.due : y.auto # x.auto /\ ~y.task
  BY <1>1, <1>2 DEF TickOK, Ticking, Holding
<1> HIDE DEF x
<1>6. /\ auto' \in [Automations -> Automation]
      /\ \A a \in Automations : a # x.auto => auto'[a] = auto[a]
  <2>1. x.slot + 1 \in Slots
    BY <1>1, <1>4, Constants DEF TypeOK, Slots
  <2> QED BY <1>1, <1>2, <1>4, <2>1 DEF TypeOK, Automation, Proper
<1>7. TypeOK'
  BY <1>1, <1>2, <1>3, <1>6 DEF TypeOK
<1>8. Placed'
  BY <1>1, <1>2, <1>3 DEF Placed
<1>9. \A y \in Known' : y \in Known \/ y = NoRun
  BY <1>2, <1>3 DEF Known
<1>10. OutcomesTrue'
  BY <1>1, <1>2, <1>9, Constants DEF OutcomesTrue, Ahead, Truthful
<1>11. TickOK'
  <2>1. Collected' = sched.due
    BY <1>3 DEF Collected, Holding
  <2>2. ASSUME NEW y \in sched.due
        PROVE  /\ y.slot \in 1..clock
               /\ auto'[y.auto].next # NoSlot => auto'[y.auto].next >= y.slot
    <3>1. auto'[y.auto] = auto[y.auto]
      BY <1>1, <1>5, <1>6 DEF Placed, Proper
    <3> QED BY <3>1, <1>1, <1>2 DEF TickOK, Ticking, Holding, Collected
  <2> QED BY <1>1, <1>2, <1>3, <2>1, <2>2 DEF TickOK, Ticking, Holding
<1>12. Saved'
  BY <1>2, <1>3 DEF Saved
<1>13. ASSUME Spaced PROVE Spaced'
  <2>1. Traced
    BY <1>2, <1>9 DEF Traced, All, SameRun
  <2>2. RunsKept
    BY <1>1, <1>2, <1>4 DEF RunsKept, RunsOf, TypeOK, Automation, Proper
  <2> QED BY <1>1, <1>2, <1>13, <2>1, <2>2, SpacedFrame DEF TypeOK, Spaced, Numbered
<1> QED BY <1>7, <1>8, <1>10, <1>11, <1>12, <1>13 DEF IInv

-----------------------------------------------------------------------------
(* The pass over the pending runs.                                         *)

LEMMA CollectPendingStep ==
    ASSUME IInv, CollectPending
    PROVE  IInv' /\ (Spaced => Spaced')
<1>1. TypeOK /\ Placed /\ OutcomesTrue /\ Saved
  BY DEF IInv
<1>2. /\ sched.pc = "reconcile" /\ mutex = "free"
      /\ sched' = [Idle EXCEPT !.pc = "lookup", !.due = Pending]
      /\ UNCHANGED <<board, clock, auto, runs, made, manual, mutex, slotOf, mishaps>>
  BY DEF CollectPending
<1>3. \A x \in Pending : (\E r \in RunIds : x = runs[r]) /\ x # NoRun
  BY Constants DEF Pending, Newest, RunsOf
<1>4. \A x \in Pending : x \in Run /\ Proper(x) /\ x \in Known
  BY <1>1, <1>3, Fields DEF Placed, Proper, Known
<1>5. /\ sched' \in LoopState
      /\ sched'.pc = "lookup" /\ sched'.run = NoRun /\ sched'.due = Pending
  BY <1>2, <1>4, Constants DEF LoopState
<1>6. TypeOK'
  BY <1>1, <1>2, <1>5 DEF TypeOK
<1>7. Placed'
  BY <1>1, <1>2, <1>4, <1>5 DEF Placed
<1>8. \A y \in Known' : y \in Known \/ y = NoRun
  BY <1>2, <1>4, <1>5 DEF Known
<1>9. OutcomesTrue'
  BY <1>1, <1>2, <1>8, Constants DEF OutcomesTrue, Ahead, Truthful
<1>10. TickOK' /\ Saved'
  BY <1>2, <1>5 DEF TickOK, Ticking, Holding, Saved
<1>11. ASSUME Spaced PROVE Spaced'
  <2>1. Traced
    BY <1>2, <1>8 DEF Traced, All, SameRun
  <2>2. RunsKept
    BY <1>2 DEF RunsKept, RunsOf
  <2> QED BY <1>1, <1>2, <1>11, <2>1, <2>2, SpacedFrame DEF TypeOK, Spaced, Numbered
<1> QED BY <1>6, <1>7, <1>9, <1>10, <1>11 DEF IInv

LEMMA LookupStep ==
    ASSUME IInv, Lookup
    PROVE  IInv' /\ (Spaced => Spaced')
<1>1. TypeOK /\ Placed /\ OutcomesTrue /\ Saved
  BY DEF IInv
<1>2. PICK x \in sched.due :
         sched' = [sched EXCEPT !.pc  = IF Applied(x) = x THEN "lookup" ELSE "fold",
                                !.run = IF Applied(x) = x THEN NoRun ELSE Applied(x),
                                !.due = sched.due \ {x}]
  BY DEF Lookup
<1>3. /\ sched.pc = "lookup"
      /\ UNCHANGED <<board, clock, auto, runs, made, manual, mutex, slotOf, mishaps>>
  BY DEF Lookup
<1>4. x \in Run /\ Proper(x) /\ x.id \in Tasks /\ tasks[x.id] \in Status
  BY <1>1, Fields, Constants DEF Placed, Proper, TypeOK
<1> DEFINE new == Applied(x)
<1>5. /\ new \in Run /\ new.id = x.id /\ new.auto = x.auto /\ new.slot = x.slot
      /\ new.status = tasks[x.id]
  BY <1>4 DEF Applied, Run
<1>6. Proper(new) /\ Truthful(new, tasks, forgotten)
  BY <1>4, <1>5 DEF Proper, Truthful
<1> HIDE DEF new
<1>7. /\ sched' \in LoopState /\ sched'.due = sched.due \ {x}
      /\ \/ sched'.pc = "lookup" /\ sched'.run = NoRun
         \/ sched'.pc = "fold" /\ sched'.run = new
  BY <1>1, <1>2, <1>5, Constants DEF TypeOK, LoopState, new
<1>8. TypeOK'
  BY <1>1, <1>3, <1>7 DEF TypeOK
<1>9. Placed'
  BY <1>1, <1>3, <1>6, <1>7 DEF Placed
<1>10. \A y \in Known' : y \in Known \/ y = NoRun \/ y = new
  BY <1>3, <1>7 DEF Known
<1>11. OutcomesTrue'
  <2>1. Truthful(NoRun, tasks, forgotten)
    BY Constants DEF Truthful
  <2> QED BY <1>1, <1>3, <1>6, <1>10, <2>1 DEF OutcomesTrue, Ahead
<1>12. TickOK' /\ Saved'
  BY <1>1, <1>3, <1>7 DEF TickOK, Ticking, Holding, Saved
<1>13. ASSUME Spaced PROVE Spaced'
  <2>1. x \in All
    BY DEF All, Known
  <2>2. Traced
    BY <1>3, <1>5, <1>10, <2>1 DEF Traced, All, SameRun
  <2>3. RunsKept
    BY <1>3 DEF RunsKept, RunsOf
  <2> QED BY <1>1, <1>3, <1>13, <2>2, <2>3, SpacedFrame DEF TypeOK, Spaced, Numbered
<1> QED BY <1>8, <1>9, <1>11, <1>12, <1>13 DEF IInv

LEMMA FoldStep ==
    ASSUME IInv, Fold
    PROVE  IInv' /\ (Spaced => Spaced')
<1>1. TypeOK /\ Placed /\ OutcomesTrue /\ Saved
  BY DEF IInv
<1>2. /\ sched.pc = "fold" /\ mutex = "free"
      /\ UNCHANGED <<board, clock, auto, made, manual, mutex, slotOf>>
  BY DEF Fold
<1>3. CASE Mishap /\ sched' = Idle /\ UNCHANGED runs
  <2>1. OutcomesStay /\ mishaps' \in Nat /\ auto' \in [Automations -> Automation]
    BY <1>1, <1>2, <1>3, BoardSteps DEF Mishap, TypeOK, OutcomesTrue
  <2> QED BY <1>2, <1>3, <2>1, RestStep
<1>4. CASE /\ runs' = [runs EXCEPT ![sched.run.id] = sched.run]
           /\ sched' \in {Idle, [sched EXCEPT !.pc = "lookup", !.run = NoRun]}
           /\ UNCHANGED mishaps \/ Mishap
  <2>1. /\ sched' \in LoopState /\ mishaps' \in Nat
        /\ sched'.pc \in {"idle", "lookup"} /\ sched'.run = NoRun /\ sched'.due \subseteq sched.due
    <3>1. mishaps' \in Nat
      BY <1>1, <1>4 DEF TypeOK, Mishap
    <3>2. CASE sched' = Idle
      BY <3>1, <3>2, Constants
    <3>3. CASE sched' = [sched EXCEPT !.pc = "lookup", !.run = NoRun]
      BY <3>1, <3>3, <1>1, Constants DEF TypeOK, LoopState
    <3> QED BY <1>4, <3>2, <3>3
  <2>2. sched.run \in Run /\ Proper(sched.run)
    BY <1>1, <1>2, Fields DEF Placed
  <2>3. /\ runs' \in [RunIds -> Run] /\ runs'[sched.run.id] = sched.run
        /\ \A r \in RunIds : r # sched.run.id => runs'[r] = runs[r]
        /\ \A r \in RunIds : runs'[r] # NoRun => runs'[r].id = r /\ runs'[r].auto \in Automations
    BY <1>1, <1>4, <2>2, WriteFrame
  <2>4. TypeOK'
    BY <1>1, <1>2, <1>4, <2>1, <2>3 DEF TypeOK
  <2>5. Placed'
    BY <1>1, <1>2, <2>1, <2>3 DEF Placed
  <2>6. \A y \in Known' : y \in Known \/ y = NoRun
    BY <2>1, <2>3 DEF Known
  <2>7. OutcomesTrue'
    BY <1>1, <1>2, <2>6, Constants DEF OutcomesTrue, Ahead, Truthful
  <2>8. TickOK' /\ Saved'
    BY <1>2, <2>1 DEF TickOK, Ticking, Holding, Saved
  <2>9. ASSUME Spaced PROVE Spaced'
    <3>1. Traced
      BY <1>2, <2>6 DEF Traced, All, SameRun
    <3>2. RunsKept
      BY <1>1, <1>2, <1>4, <2>2, <2>9, WriteKeepsRuns DEF All, Known
    <3> QED BY <1>1, <1>2, <2>9, <3>1, <3>2, SpacedFrame DEF TypeOK, Spaced, Numbered
  <2> QED BY <2>4, <2>5, <2>7, <2>8, <2>9 DEF IInv
<1> QED BY <1>3, <1>4 DEF Fold

-----------------------------------------------------------------------------
(* Callers of the API, tasks and time.                                     *)

(* An automation is changed while the mutex is free: its next slot is none,  *)
(* or lies after every slot collected so far.                                *)
LEMMA ChangeStep ==
    ASSUME IInv, NEW a \in Automations,
           Create(a) \/ Pause(a) \/ Resume(a) \/ Delete(a)
    PROVE  IInv' /\ (Spaced => Spaced')
<1>1. TypeOK /\ Placed /\ OutcomesTrue /\ TickOK /\ Saved
  BY DEF IInv
<1>2. PICK new \in {[state |-> "Active", next |-> clock + 1], [state |-> "Paused", next |-> NoSlot],
                    [state |-> "Deleted", next |-> NoSlot]} :
         auto' = [auto EXCEPT ![a] = new]
  BY DEF Create, Pause, Resume, Delete, Change
<1>3. mutex = "free" /\ UNCHANGED <<board, clock, made, sched, manual, mutex, slotOf, mishaps>>
  BY DEF Create, Pause, Resume, Delete, Change
<1>4. clock \in Nat /\ new \in Automation /\ new.next \in {NoSlot, clock + 1}
  BY <1>1, Constants DEF TypeOK, Automation, Slots
<1>5. \A r \in RunIds : runs'[r] \in {runs[r], NoRun}
  BY DEF Create, Pause, Resume, Delete
<1>6. runs' \in [RunIds -> Run]
  BY <1>1, Constants DEF Create, Pause, Resume, Delete, TypeOK
<1>7. TypeOK'
  BY <1>1, <1>2, <1>3, <1>4, <1>6 DEF TypeOK
<1>8. Placed'
  BY <1>1, <1>3, <1>5 DEF Placed
<1>9. \A y \in Known' : y \in Known \/ y = NoRun
  BY <1>3, <1>5 DEF Known
<1>10. OutcomesTrue'
  BY <1>1, <1>3, <1>9, Constants DEF OutcomesTrue, Ahead, Truthful
<1>11. TickOK'
  <2>1. Collected' = Collected
    BY <1>3 DEF Collected
  <2>2. ASSUME NEW x \in Collected, sched.pc \in Ticking
        PROVE  x.slot \in 1..clock /\ (auto'[x.auto].next # NoSlot => auto'[x.auto].next >= x.slot)
    <3>1. /\ x.slot \in 1..clock /\ x.auto \in Automations
          /\ auto[x.auto].next # NoSlot => auto[x.auto].next >= x.slot
      BY <1>1, <2>2 DEF TickOK, Placed, Proper, Collected, Holding
    <3>2. CASE x.auto = a
      BY <3>1, <3>2, <1>1, <1>2, <1>4 DEF TypeOK
    <3>3. CASE x.auto # a
      BY <3>1, <3>3, <1>1, <1>2 DEF TypeOK
    <3> QED BY <3>2, <3>3
  <2> QED BY <1>1, <1>3, <2>1, <2>2 DEF TickOK
<1>12. Saved'
  BY <1>1, <1>3 DEF Saved
<1>13. ASSUME Spaced PROVE Spaced'
  <2>1. Traced
    BY <1>3, <1>9 DEF Traced, All, SameRun
  <2>2. RunsKept
    <3> SUFFICES ASSUME NEW b \in Automations, auto'[b].state # "Deleted"
                 PROVE  auto[b].state # "Deleted" /\ RunsOf(b) \subseteq RunsOf(b)'
      BY DEF RunsKept
    <3>1. CASE Delete(a)
      BY <3>1, <1>1 DEF Delete, Change, RunsOf, TypeOK, Automation
    <3>2. CASE ~Delete(a)
      BY <3>2, <1>1 DEF Create, Pause, Resume, Change, RunsOf, TypeOK, Automation
    <3> QED BY <3>1, <3>2
  <2> QED BY <1>1, <1>3, <1>13, <2>1, <2>2, SpacedFrame DEF TypeOK, Spaced, Numbered
<1> QED BY <1>7, <1>8, <1>10, <1>11, <1>12, <1>13 DEF IInv

(* Steps that leave the loop, the automations and the runs alone.            *)
LEMMA AsideStep ==
    ASSUME IInv, OutcomesStay, manual' \in CallState,
           manual'.pc # "idle" => Proper(manual'.run),
           manual'.pc = "enqueue" => ~manual'.run.task,
           manual'.run = manual.run \/ Truthful(manual'.run, tasks', forgotten'),
           clock' \in 0..ClockBound, clock <= clock', made' \in 0..RunBound, mishaps' \in Nat,
           slotOf' \in [Tasks -> (Automations \cup {NoAutomation}) \X Slots],
           UNCHANGED <<auto, runs, sched, mutex>>
    PROVE  IInv' /\ Known' = Known /\ RunsKept
<1>1. TypeOK /\ Placed /\ OutcomesTrue /\ TickOK /\ Saved
  BY DEF IInv
<1>2. TypeOK'
  BY <1>1 DEF TypeOK, OutcomesStay
<1>3. Placed'
  BY <1>1 DEF Placed
<1>4. OutcomesTrue'
  <2>1. (\A r \in RunIds : runs'[r] \in Known) /\ (\A x \in sched'.due : x \in Known)
        /\ sched'.run \in Known
    BY DEF Known
  <2> QED BY <1>1, <2>1, OutcomesFrame
<1>5. TickOK'
  <2>1. \A s : s \in 1..clock => s \in 1..clock'
    BY <1>1, Constants DEF TypeOK
  <2>2. Collected' = Collected
    BY DEF Collected
  <2> QED BY <1>1, <2>1, <2>2 DEF TickOK
<1>6. Saved'
  BY <1>1 DEF Saved
<1>7. Known' = Known /\ RunsKept
  BY DEF Known, RunsKept, RunsOf
<1> QED BY <1>2, <1>3, <1>4, <1>5, <1>6, <1>7 DEF IInv

LEMMA RunNowStep ==
    ASSUME IInv, NEW a \in Automations, RunNow(a)
    PROVE  IInv' /\ (Spaced => Spaced')
<1> DEFINE new == NewRun(made + 1, a, NoSlot)
<1>1. TypeOK
  BY DEF IInv
<1>2. /\ made < RunBound /\ made' = made + 1
      /\ manual' = [pc |-> "enqueue", run |-> new]
      /\ UNCHANGED <<board, clock, auto, runs, sched, mutex, slotOf, mishaps>>
  BY DEF RunNow
<1>3. made + 1 \in RunIds /\ made + 1 \in 0..RunBound
  BY <1>1, <1>2, Constants DEF TypeOK
<1>4. /\ new \in Run /\ new.id = made + 1 /\ new.auto = a
      /\ new.slot = NoSlot /\ ~new.task
  BY <1>3, Constants DEF NewRun, Run, Status
<1> HIDE DEF new
<1>5. manual' \in CallState /\ manual'.pc = "enqueue" /\ manual'.run = new
  BY <1>2, <1>4 DEF CallState
<1>6. Proper(new) /\ Truthful(new, tasks', forgotten')
  BY <1>3, <1>4 DEF Proper, Truthful
<1>7. OutcomesStay
  BY <1>1, <1>2, BoardSteps DEF IInv, OutcomesTrue
<1>8. /\ clock' \in 0..ClockBound /\ clock <= clock' /\ mishaps' \in Nat
      /\ slotOf' \in [Tasks -> (Automations \cup {NoAutomation}) \X Slots]
  BY <1>1, <1>2, Constants DEF TypeOK
<1>9. IInv' /\ Known' = Known /\ RunsKept
  BY <1>2, <1>3, <1>4, <1>5, <1>6, <1>7, <1>8, AsideStep
<1>10. ASSUME Spaced PROVE Spaced'
  <2>1. \A x \in All' : x = new \/ x \in All
    BY <1>5, <1>9 DEF All
  <2>2. \A x \in All : x.id \in Nat /\ x.id <= made /\ x.id # new.id
    BY <1>1, <1>4, <1>10, Constants DEF Spaced, Numbered, SameRun, Proper, TypeOK
  <2>3. Numbered'
    <3>1. \A x \in All' : SameRun(x, NoRun) \/ (Proper(x) /\ x.id <= made')
      BY <1>1, <1>2, <1>4, <1>6, <1>10, <2>1, <2>2 DEF Spaced, Numbered, TypeOK
    <3> QED BY <3>1, <1>4, <1>5, <1>10, <2>1, <2>2 DEF Spaced, Numbered
  <2>4. \A x \in All' : x.slot # NoSlot => x \in All
    BY <1>4, <2>1
  <2>5. \A b, q, r : Between(b, q, r)' = Between(b, q, r)
    BY <1>2 DEF Between, RunsOf
  <2>6. ASSUME NEW x \in All', NEW y \in All' PROVE Apart(x, y)'
    BY <1>2, <1>10, <2>4, <2>5 DEF Apart, Spaced
  <2> QED BY <2>3, <2>6 DEF Spaced
<1> QED BY <1>9, <1>10

LEMMA RunNowEnqueueStep ==
    ASSUME IInv, RunNowEnqueue
    PROVE  IInv' /\ (Spaced => Spaced')
<1> DEFINE x == manual.run
<1>1. TypeOK /\ Placed
  BY DEF IInv
<1>2. manual.pc = "enqueue" /\ UNCHANGED <<clock, auto, runs, made, sched, mutex>>
  BY DEF RunNowEnqueue
<1>3. PICK new : /\ \/ AddTask(x) /\ new = Added(x)
                    \/ AddTaskFails /\ new = Refused(x)
                 /\ manual' = [pc |-> "save", run |-> new]
  BY DEF RunNowEnqueue
<1>4. x \in Run /\ Proper(x) /\ ~x.task
  BY <1>1, <1>2, Fields DEF Placed
<1> HIDE DEF x
<1>5. /\ OutcomesStay /\ mishaps' \in Nat
      /\ slotOf' \in [Tasks -> (Automations \cup {NoAutomation}) \X Slots]
      /\ new \in Run /\ new.id = x.id /\ new.auto = x.auto /\ new.slot = x.slot
      /\ Truthful(new, tasks', forgotten')
  BY <1>1, <1>3, <1>4, AddTaskFacts DEF IInv, OutcomesTrue
<1>6. manual' \in CallState /\ manual'.pc = "save" /\ manual'.run = new /\ Proper(new)
  BY <1>3, <1>4, <1>5 DEF CallState, Proper
<1>7. clock' \in 0..ClockBound /\ clock <= clock' /\ made' \in 0..RunBound
  BY <1>1, <1>2, Constants DEF TypeOK
<1>8. IInv' /\ Known' = Known /\ RunsKept
  BY <1>2, <1>5, <1>6, <1>7, AsideStep
<1>9. ASSUME Spaced PROVE Spaced'
  <2>1. manual'.run.slot = NoSlot
    BY <1>5, <1>6, <1>9 DEF Spaced, Numbered, x
  <2>2. Traced
    BY <1>5, <1>6, <1>8 DEF Traced, All, SameRun, x
  <2> QED BY <1>1, <1>2, <1>8, <1>9, <2>1, <2>2, SpacedFrame DEF TypeOK
<1> QED BY <1>8, <1>9

LEMMA OutsideSteps ==
    ASSUME IInv, Tick \/ \E t \in Tasks : TaskBegins(t) \/ TaskEnds(t) \/ TaskWritten(t)
    PROVE  IInv' /\ (Spaced => Spaced')
<1>1. TypeOK /\ Placed /\ Ahead
  BY DEF IInv, OutcomesTrue
<1>2. UNCHANGED <<auto, runs, made, sched, manual, mutex, slotOf>>
  BY DEF Tick, TaskBegins, TaskEnds, TaskWritten, Moves
<1>3. OutcomesStay
  <2>1. UNCHANGED board \/ \E t \in Tasks : TaskBegins(t) \/ TaskEnds(t) \/ TaskWritten(t)
    BY DEF Tick
  <2> QED BY <1>1, <2>1, BoardSteps
<1>4. clock' \in 0..ClockBound /\ clock <= clock'
  <2>1. clock' = clock \/ (clock < ClockBound /\ clock' = clock + 1)
    BY DEF Tick, TaskBegins, TaskEnds, TaskWritten, Moves
  <2> QED BY <1>1, <2>1, Constants DEF TypeOK
<1>5. mishaps' \in Nat
  <2>1. mishaps' = mishaps \/ mishaps' = mishaps + 1
    BY DEF Tick, TaskBegins, TaskEnds, TaskWritten, Moves, Mishap
  <2> QED BY <1>1, <2>1 DEF TypeOK
<1>6. /\ manual' \in CallState /\ made' \in 0..RunBound /\ mishaps' \in Nat
      /\ slotOf' \in [Tasks -> (Automations \cup {NoAutomation}) \X Slots]
      /\ manual'.pc # "idle" => Proper(manual'.run)
      /\ manual'.pc = "enqueue" => ~manual'.run.task
  BY <1>1, <1>2, <1>5 DEF TypeOK, Placed
<1>7. manual'.run = manual.run
  BY <1>2
<1>8. IInv' /\ Known' = Known /\ RunsKept
  BY <1>2, <1>3, <1>4, <1>6, <1>7, AsideStep
<1>9. ASSUME Spaced PROVE Spaced'
  <2>1. Traced
    BY <1>7, <1>8 DEF Traced, All, SameRun
  <2> QED BY <1>1, <1>2, <1>8, <1>9, <2>1, SpacedFrame DEF TypeOK, Spaced, Numbered
<1> QED BY <1>8, <1>9

(* The run of a caller reaches the disk while the loop may be in any phase   *)
(* that does not hold the mutex.                                             *)
LEMMA RunNowSaveStep ==
    ASSUME IInv, RunNowSave
    PROVE  IInv' /\ (Spaced => Spaced')
<1> DEFINE x == manual.run
<1>1. TypeOK /\ Placed /\ OutcomesTrue /\ TickOK /\ Saved
  BY DEF IInv
<1>2. /\ manual.pc = "save" /\ mutex = "free" /\ manual' = NotCalled
      /\ UNCHANGED <<board, clock, auto, made, sched, mutex, slotOf>>
      /\ \/ runs' = [runs EXCEPT ![x.id] = x] /\ UNCHANGED mishaps
         \/ Mishap /\ UNCHANGED runs
  BY DEF RunNowSave
<1>3. x \in Run /\ Proper(x) /\ Truthful(x, tasks, forgotten)
  BY <1>1, <1>2, Fields DEF Placed, OutcomesTrue
<1>4. x \in All
  BY DEF All
<1> HIDE DEF x
<1>5. /\ runs' \in [RunIds -> Run] /\ mishaps' \in Nat
      /\ \A r \in RunIds : runs'[r] = runs[r] \/ runs'[r] = x
      /\ \A r \in RunIds : runs'[r] # NoRun => runs'[r].id = r /\ runs'[r].auto \in Automations
  <2>1. CASE runs' = [runs EXCEPT ![x.id] = x] /\ UNCHANGED mishaps
    BY <2>1, <1>1, <1>3, WriteFrame DEF TypeOK
  <2>2. CASE Mishap /\ UNCHANGED runs
    BY <2>2, <1>1 DEF TypeOK, Mishap, Placed
  <2> QED BY <1>2, <2>1, <2>2
<1>6. manual' \in CallState /\ manual'.pc = "idle" /\ manual'.run = NoRun
  BY <1>2, Constants
<1>7. TypeOK'
  BY <1>1, <1>2, <1>5, <1>6 DEF TypeOK
<1>8. Placed'
  BY <1>1, <1>2, <1>5, <1>6 DEF Placed
<1>9. \A y \in Known' : y \in Known \/ y = x
  BY <1>2, <1>5 DEF Known
<1>10. OutcomesTrue'
  BY <1>1, <1>2, <1>3, <1>6, <1>9, Constants DEF OutcomesTrue, Ahead, Truthful
<1>11. TickOK'
  <2>1. Collected' = Collected
    BY <1>2 DEF Collected
  <2> QED BY <1>1, <1>2, <2>1 DEF TickOK
<1>12. Saved'
  BY <1>1, <1>2 DEF Saved
<1>13. ASSUME Spaced PROVE Spaced'
  <2>1. Traced
    BY <1>4, <1>6, <1>9 DEF Traced, All, SameRun
  <2>2. RunsKept
    <3>1. CASE runs' = [runs EXCEPT ![x.id] = x]
      BY <3>1, <1>1, <1>2, <1>3, <1>4, <1>13, WriteKeepsRuns
    <3>2. CASE UNCHANGED runs
      BY <3>2, <1>2 DEF RunsKept, RunsOf
    <3> QED BY <3>1, <3>2, <1>2
  <2> QED BY <1>1, <1>2, <1>6, <1>13, <2>1, <2>2, SpacedFrame, Constants DEF TypeOK
<1> QED BY <1>7, <1>8, <1>10, <1>11, <1>12, <1>13 DEF IInv

-----------------------------------------------------------------------------
(* The theorems.                                                           *)

LEMMA InitIInv ==
    ASSUME Init
    PROVE  IInv /\ Spaced
<1>1. /\ sched = Idle /\ manual = NotCalled /\ mutex = "free" /\ made = 0 /\ clock = 0 /\ mishaps = 0
      /\ status = [t \in Tasks |-> "Absent"] /\ tasks = status /\ forgotten = {} /\ runs = [r \in RunIds |-> NoRun]
      /\ auto = [a \in Automations |-> [state |-> "Absent", next |-> NoSlot]]
      /\ slotOf = [t \in Tasks |-> <<NoAutomation, NoSlot>>]
  BY DEF Init, BoardInit
<1>2. TypeOK
  BY <1>1, Constants DEF TypeOK, Status, Automation
<1>3. \A x \in Known : x = NoRun
  BY <1>1, Constants DEF Known
<1>4. Placed
  BY <1>1, Constants DEF Placed
<1>5. OutcomesTrue
  BY <1>1, <1>3, Constants DEF OutcomesTrue, Ahead, Truthful
<1>6. TickOK /\ Saved
  BY <1>1, Constants DEF TickOK, Ticking, Holding, Saved
<1>7. Spaced
  <2>1. \A x \in All : x = NoRun
    BY <1>1, <1>3, Constants DEF All
  <2>2. manual.run.slot = NoSlot
    BY <1>1, Constants
  <2>3. \A x, y \in All : Apart(x, y)
    BY <2>1, Constants DEF Apart
  <2>4. Numbered
    BY <2>1, <2>2 DEF Numbered, SameRun
  <2> QED BY <2>3, <2>4 DEF Spaced
<1> QED BY <1>2, <1>4, <1>5, <1>6, <1>7 DEF IInv

LEMMA StutterStep ==
    ASSUME IInv, UNCHANGED vars
    PROVE  IInv' /\ (Spaced => Spaced')
<1>1. IInv'
  BY DEF IInv, TypeOK, Placed, OutcomesTrue, Ahead, TickOK, Saved, Known, Collected
<1>2. ASSUME Spaced PROVE Spaced'
  <2>1. All' = All /\ manual' = manual /\ made' = made /\ auto' = auto
    BY DEF All, Known
  <2>2. Traced /\ RunsKept
    BY <2>1 DEF Traced, SameRun, RunsKept, RunsOf
  <2> QED BY <1>2, <2>1, <2>2, SpacedFrame DEF IInv, TypeOK, Spaced, Numbered
<1> QED BY <1>1, <1>2

LEMMA NextStep ==
    ASSUME IInv, [Next]_vars
    PROVE  IInv' /\ (Spaced => Spaced')
<1>1. CASE UNCHANGED vars
  BY <1>1, StutterStep
<1>2. CASE Collect
  BY <1>2, CollectStep
<1>3. CASE Enqueue
  BY <1>3, EnqueueStep
<1>4. CASE SaveRun
  BY <1>4, SaveRunStep
<1>5. CASE Advance
  BY <1>5, AdvanceStep
<1>6. CASE CollectPending
  BY <1>6, CollectPendingStep
<1>7. CASE Lookup
  BY <1>7, LookupStep
<1>8. CASE Fold
  BY <1>8, FoldStep
<1>9. CASE CollectFails \/ TickFails \/ TickDone \/ PassDone \/ Crash
  BY <1>9, RestSteps
<1>10. CASE \E a \in Automations : Create(a) \/ Pause(a) \/ Resume(a) \/ Delete(a)
  BY <1>10, ChangeStep
<1>11. CASE \E a \in Automations : RunNow(a)
  BY <1>11, RunNowStep
<1>12. CASE RunNowEnqueue
  BY <1>12, RunNowEnqueueStep
<1>13. CASE RunNowSave
  BY <1>13, RunNowSaveStep
<1>14. CASE Tick \/ \E t \in Tasks : TaskBegins(t) \/ TaskEnds(t) \/ TaskWritten(t)
  BY <1>14, OutsideSteps
<1> QED BY <1>1, <1>2, <1>3, <1>4, <1>5, <1>6, <1>7, <1>8, <1>9, <1>10, <1>11, <1>12,
           <1>13, <1>14 DEF Next, Loop

(* IInv holds in every state: records carry the number and the automation of *)
(* their run, outcomes are those get_task answered and still answers unless  *)
(* finish_task could not write them before a crash, and the mutex is held    *)
(* exactly between the two writes of finish_scheduled_run.                   *)
THEOREM Invariant == Spec => []IInv
<1>1. Init => IInv
  BY InitIInv
<1>2. IInv /\ [Next]_vars => IInv'
  BY NextStep
<1> QED BY <1>1, <1>2, PTL DEF Spec

(* TypeOK for every value of the constants: in particular the next slot of   *)
(* an automation is never more than one past the clock's last value.         *)
THEOREM TypeCorrect == Spec => []TypeOK
<1>1. IInv => TypeOK
  BY DEF IInv
<1> QED BY <1>1, Invariant, PTL

(* RunTellsOutcome: an outcome that reconcile_run_statuses_shared folds into *)
(* a run after a look-up in memory, without the mutex, is and stays the one   *)
(* get_task answers, unless its write failed and the process died before a   *)
(* later one.                                                                *)
THEOREM OutcomesAreTheTasks == Spec => []RunTellsOutcome
<1>1. IInv => RunTellsOutcome
  <2> SUFFICES ASSUME IInv, NEW r \in RunIds, runs[r].task, runs[r].status \in Outcome
               PROVE  runs[r].status = tasks[r] \/ r \in forgotten
    BY DEF RunTellsOutcome
  <2>1. Placed /\ OutcomesTrue
    BY DEF IInv
  <2>2. runs[r] # NoRun /\ runs[r] \in Known
    BY Constants DEF Known
  <2> QED BY <2>1, <2>2 DEF Placed, OutcomesTrue, Truthful
<1> QED BY <1>1, Invariant, PTL

(* A durable record moves as TaskBoard allows, one by one: accepted, begun,  *)
(* ended, never back and never on from an outcome, although what is written  *)
(* (persist_all_locked) is whatever memory holds after failed writes.        *)
THEOREM RecordsMoveOnTheBoard ==
    Spec => [][\A t \in Tasks :
                 \/ status'[t] = status[t]
                 \/ status[t] = "Absent" /\ status'[t] = "Queued"
                 \/ status[t] = "Queued" /\ status'[t] = "Running"
                 \/ status[t] \in {"Queued", "Running"} /\ status'[t] \in Outcome]_vars
<1> DEFINE Forward(t) ==
             \/ status'[t] = status[t]
             \/ status[t] = "Absent" /\ status'[t] = "Queued"
             \/ status[t] = "Queued" /\ status'[t] = "Running"
             \/ status[t] \in {"Queued", "Running"} /\ status'[t] \in Outcome
<1>1. ASSUME IInv, [Next]_vars, NEW t \in Tasks PROVE Forward(t)
  <2>1. /\ status \in [Tasks -> Status] /\ tasks \in [Tasks -> Status]
        /\ status[t] = "Absent" <=> tasks[t] = "Absent"
        /\ status[t] = "Running" => tasks[t] # "Queued"
        /\ status[t] \in Outcome => tasks[t] = status[t]
    BY <1>1 DEF IInv, TypeOK, OutcomesTrue, Ahead
  <2>2. ASSUME status'[t] = tasks[t] PROVE Forward(t)
    BY <2>1, <2>2 DEF Status, Outcome
  <2>3. ASSUME NEW r, AddTask(r) PROVE Forward(t)
    BY <2>1, <2>3 DEF AddTask, Accept
  <2>4. ASSUME NEW u \in Tasks, NEW new, Moves(u, new),
               \/ tasks[u] = "Queued" /\ new \in {"Running", "Canceled"}
               \/ tasks[u] = "Running" /\ new \in Outcome
        PROVE  Forward(t)
    <3>1. tasks' = [tasks EXCEPT ![u] = new] /\ \E S \in SUBSET Tasks : Written(S, tasks')
      BY <2>4 DEF Moves
    <3>2. status'[t] = status[t] \/ status'[t] = tasks'[t]
      BY <3>1 DEF Written
    <3>3. CASE t = u /\ status'[t] = new
      BY <2>1, <2>4, <3>3 DEF Status, Outcome
    <3>4. CASE t # u /\ status'[t] = tasks[t]
      BY <2>2, <3>4
    <3> QED BY <2>1, <3>1, <3>2, <3>3, <3>4
  <2>5. ASSUME NEW u \in Tasks, TaskBegins(u) \/ TaskEnds(u) \/ TaskWritten(u) PROVE Forward(t)
    <3>1. CASE TaskBegins(u)
      BY <2>4, <3>1 DEF TaskBegins
    <3>2. CASE TaskEnds(u)
      BY <2>4, <3>2 DEF TaskEnds, Outcome
    <3>3. CASE TaskWritten(u)
      <4>1. status'[t] = status[t] \/ status'[t] = tasks[t]
        BY <3>3 DEF TaskWritten, Written
      <4> QED BY <2>2, <4>1
    <3> QED BY <2>5, <3>1, <3>2, <3>3
  <2>6. CASE Crash
    BY <2>1, <2>6 DEF Crash, Interrupt, Recovered, Outcome
  <2>7. CASE UNCHANGED board
    BY <2>7
  <2>8. CASE Enqueue \/ RunNowEnqueue
    BY <2>3, <2>7, <2>8 DEF Enqueue, RunNowEnqueue, AddTaskFails
  <2> HIDE DEF Forward
  <2> QED
    BY <1>1, <2>5, <2>6, <2>7, <2>8
    DEF Next, Loop, Collect, SaveRun, Advance, TickDone, CollectPending, Lookup, Fold, PassDone,
        CollectFails, TickFails, Create, Pause, Resume, Delete, Change, RunNow, RunNowSave, Tick
<1>2. IInv /\ [Next]_vars => [\A t \in Tasks : Forward(t)]_vars
  <2> HIDE DEF Forward
  <2> QED BY <1>1
<1> QED BY <1>2, Invariant, PTL DEF Spec

(* SlotsNotSkipped: collect_due_runs and finish_scheduled_run move an        *)
(* automation past a slot that is due only when its run is on disk.          *)
THEOREM NoSlotIsSkipped == Spec => SlotsNotSkipped
<1>1. ASSUME IInv, [Next]_vars, NEW a \in Automations,
             auto[a].state = "Active", auto[a].next # NoSlot, auto[a].next <= clock,
             auto'[a].state = "Active", auto'[a].next > auto[a].next, sched' # sched
      PROVE  \E r \in RunIds : runs[r].auto = a /\ runs[r].slot = auto[a].next
  <2>1. TypeOK /\ Placed /\ TickOK /\ Saved
    BY <1>1 DEF IInv
  <2>2. auto[a].next \in Nat /\ auto \in [Automations -> Automation]
    BY <2>1, Constants DEF TypeOK, Automation, Slots
  <2>3. HasRun(a, auto[a].next) => \E r \in RunIds : runs[r].auto = a /\ runs[r].slot = auto[a].next
    BY DEF HasRun, Newest, RunsOf
  <2>4. CASE Collect \/ CollectFails
    <3>1. auto'[a] = Bookkept(a) \/ auto'[a] = auto[a]
      BY <2>4 DEF Collect, CollectFails
    <3> QED BY <3>1, <1>1, <2>1, <2>2, <2>3, BookkeptFacts
  <2>5. CASE Advance
    <3> DEFINE x == sched.run
    <3>1. /\ sched.pc = "advance"
          /\ auto' = IF auto[x.auto].state \in {"Absent", "Deleted"} THEN auto
                     ELSE [auto EXCEPT ![x.auto].next = x.slot + 1]
      BY <2>5 DEF Advance
    <3>2. x.id \in RunIds /\ x.auto \in Automations /\ runs[x.id] = x
      BY <2>1, <3>1 DEF Placed, Proper, Saved
    <3>3. x.slot \in 1..clock /\ (auto[x.auto].next # NoSlot => auto[x.auto].next >= x.slot)
      BY <2>1, <3>1 DEF TickOK, Ticking, Holding, Collected
    <3> HIDE DEF x
    <3>4. a = x.auto /\ auto'[a].next = x.slot + 1
      BY <1>1, <2>2, <3>1, <3>2 DEF Automation
    <3>5. auto[a].next = x.slot
      BY <1>1, <2>1, <2>2, <3>3, <3>4, Constants DEF TypeOK
    <3> QED BY <3>2, <3>4, <3>5
  <2>6. CASE UNCHANGED auto
    BY <2>6, <1>1, <2>2
  <2>7. CASE UNCHANGED sched
    BY <2>7, <1>1
  <2> QED
    BY <1>1, <2>4, <2>5, <2>6, <2>7
    DEF Next, Loop, Enqueue, SaveRun, TickDone, CollectPending, Lookup, Fold, PassDone, TickFails,
        Create, Pause, Resume, Delete, Change, RunNow, RunNowEnqueue, RunNowSave,
        TaskBegins, TaskEnds, TaskWritten, Moves, Tick, Crash
<1>2. IInv /\ [Next]_vars =>
        [\A a \in Automations :
           auto[a].state = "Active" /\ auto[a].next # NoSlot /\ auto[a].next <= clock
           /\ auto'[a].state = "Active" /\ auto'[a].next > auto[a].next
           /\ sched' # sched
             => \E r \in RunIds : runs[r].auto = a /\ runs[r].slot = auto[a].next]_vars
  BY <1>1
<1> QED BY <1>2, Invariant, PTL DEF Spec, SlotsNotSkipped

(* OneRunPerSlot, for windows of every size: no crash, failed write or pause *)
(* and resume in the middle of finish_scheduled_run gives a slot a second    *)
(* run record while the look-up of collect_due_runs can see the first.       *)
THEOREM SlotsRunOnce == Spec => []OneRunPerSlot
<1>1. Init => IInv /\ Spaced
  BY InitIInv
<1>2. IInv /\ Spaced /\ [Next]_vars => (IInv /\ Spaced)'
  BY NextStep
<1>3. IInv /\ Spaced => OneRunPerSlot
  <2> SUFFICES ASSUME IInv, Spaced, NEW q \in RunIds, NEW r \in RunIds,
                      q < r, runs[q].slot # NoSlot, runs[q].slot = runs[r].slot,
                      runs[q].auto = runs[r].auto
               PROVE  /\ r - q > SlotWindow
                      /\ auto[runs[q].auto].state # "Deleted"
                           => Cardinality({k \in RunsOf(runs[q].auto) : q < k /\ k < r})
                                >= SlotWindow
    BY DEF OneRunPerSlot
  <2>1. Placed /\ runs[q] \in All /\ runs[r] \in All
    BY DEF IInv, All, Known
  <2>2. runs[q].id = q /\ runs[r].id = r
    BY <2>1, Constants DEF Placed
  <2>3. Apart(runs[q], runs[r])
    BY <2>1 DEF Spaced
  <2> QED BY <2>2, <2>3 DEF Apart, Between
<1> QED BY <1>1, <1>2, <1>3, PTL DEF Spec

(* As long as no more runs are made than the look-up reads, a slot has one.  *)
THEOREM SlotsRunOnceInWindow ==
    ASSUME RunBound <= SlotWindow
    PROVE  Spec => [](\A q, r \in RunIds :
                        runs[q].slot # NoSlot /\ runs[q].slot = runs[r].slot
                        /\ runs[q].auto = runs[r].auto => q = r)
<1>1. OneRunPerSlot => \A q, r \in RunIds :
                         runs[q].slot # NoSlot /\ runs[q].slot = runs[r].slot
                         /\ runs[q].auto = runs[r].auto => q = r
  <2> SUFFICES ASSUME OneRunPerSlot, NEW q \in RunIds, NEW r \in RunIds, q # r,
                      runs[q].slot # NoSlot, runs[q].slot = runs[r].slot,
                      runs[q].auto = runs[r].auto
               PROVE  FALSE
    OBVIOUS
  <2>1. q \in 1..RunBound /\ r \in 1..RunBound /\ RunBound \in Nat /\ SlotWindow \in Nat
    BY Constants, AutomationAssumption
  <2>2. CASE q < r
    <3>1. r - q > SlotWindow
      BY <2>2 DEF OneRunPerSlot
    <3> QED BY <2>1, <3>1
  <2>3. CASE r < q
    <3>1. q - r > SlotWindow
      BY <2>3 DEF OneRunPerSlot
    <3> QED BY <2>1, <3>1
  <2> QED BY <2>1, <2>2, <2>3
<1> QED BY <1>1, SlotsRunOnce, PTL
=============================================================================
