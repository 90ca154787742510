-------------------------- MODULE FleetManagerProofs --------------------------
(***************************************************************************)
(* Proofs about FleetManager for every set of managers, runs, tasks and    *)
(* workers and any number of deaths: the managers move the ledger by its   *)
(* own transactions only, and what they hold of host processes agrees with *)
(* what their executors track.                                             *)
(***************************************************************************)
EXTENDS FleetManager, FleetLedgerProofs, WellFoundedInduction

\* The phases of the loop in which the manager may have processes, and those
\* in which it owns its run.
Busy   == {"lease", "snapshot", "launch", "artifact", "drive", "drain"}
Owning == Busy \cup {"exit"}
Phase  == Owning \cup {"off", "lock", "create"}

\* What a manager may hold: an attempt, and a choice of the leasing loop.
AttemptSet == [task : Tasks, worker : Workers, attempt : Nat]
Choice     == [task : Tasks, worker : Workers]
ControlState ==
    [pc : Phase, run : Runs \cup {NoManager}, observed : BOOLEAN,
     todo : SUBSET AttemptSet, cur : {NoManager} \cup Choice \cup AttemptSet]
Process ==
    [owner : Managers \cup {NoManager}, of : AttemptSet,
     state : {"running", "ok", "error"}, lines : Nat, quota : Nat]

ManagerTypeOK ==
    /\ lock \in [Runs -> Managers \cup {NoManager}]
    /\ mgr \in [Managers -> ControlState]
    /\ tracked \in [Managers -> SUBSET AttemptSet]
    /\ procs \subseteq Process

\* What the control state of a manager says of its run and its plans.
PlanOK(s, tracks) ==
    /\ s \in ControlState
    /\ s.pc # "off" => s.run \in Runs
    /\ s.pc \in {"create", "lease"} /\ s.cur # NoManager =>
         s.cur.task \in Tasks /\ RunOf[s.cur.task] = s.run /\ s.cur.worker \in WorkersOf[s.run]
    /\ s.pc \in {"lock", "snapshot", "launch", "drive"} => s.cur = NoManager
    /\ s.pc \in {"launch", "artifact"} => \A a \in s.todo : RunOf[a.task] = s.run
    /\ s.pc \in {"drive", "drain"} => s.todo \subseteq tracks
    /\ s.pc \in {"artifact", "drain"} => s.cur \in tracks
    /\ s.pc = "drain" => s.cur \notin s.todo

\* An executor tracks attempts of the manager's run, one for a worker, and
\* only while the manager is in its loop.
TracksOK(s, tracks) ==
    /\ tracks \subseteq AttemptSet
    /\ s.pc \notin Busy => tracks = {}
    /\ \A a \in tracks : RunOf[a.task] = s.run
    /\ \A a, b \in tracks : a.worker = b.worker => a = b

\* The lock of a run is with the manager in its loop.
LockOK == \A m \in Managers : mgr[m].pc \in Owning => lock[mgr[m].run] = m

\* The processes of a live manager are the attempts its executor tracks.
ProcessesOK ==
    /\ \A p \in procs : p.owner \in Managers => p.of \in tracked[p.owner]
    /\ \A m \in Managers : \A a \in tracked[m] : \E p \in procs : p.owner = m /\ p.of = a
    /\ \A p, q \in procs : p.owner \in Managers /\ p.owner = q.owner /\ p.of = q.of => p = q

ManagersOK ==
    \A m \in Managers : PlanOK(mgr[m], tracked[m]) /\ TracksOK(mgr[m], tracked[m])

ControlOK == ManagerTypeOK /\ ManagersOK /\ LockOK /\ ProcessesOK

\* The inductive invariant: the ledger's, and the managers'.
ManagerIInv == IInv /\ ControlOK

USE DEF ledger, manager, mvars

-----------------------------------------------------------------------------
(* The choices of the leasing loop.                                          *)

LEMMA LeastNatural ==
    ASSUME NEW S \in SUBSET Nat, S # {}
    PROVE  \E x \in S : \A y \in S : x <= y
<1> DEFINE R == OpToRel(<, Nat)
<1>1. IsWellFoundedOn(R, Nat)
  BY NatLessThanWellFounded, Zenon
<1>2. R = {p \in Nat \X Nat : p[1] < p[2]}
  BY DEF OpToRel
<1> HIDE DEF R
<1>3. PICK x \in S : \A y \in S : ~(<<y, x>> \in R)
  BY <1>1, WFMin
<1>4. ASSUME NEW y \in S PROVE x <= y
  <2>1. x \in Nat /\ y \in Nat /\ <<y, x>> \notin R
    BY <1>3
  <2>2. y < x => <<y, x>> \in R
    BY <1>2, <2>1
  <2> QED BY <2>1, <2>2
<1> QED BY <1>4

LEMMA NextEnqueuedFacts ==
    ASSUME NEW r, Queued(r) # {}
    PROVE  NextEnqueued(r) \in Queued(r)
<1> DEFINE S == {Priority[t] : t \in Queued(r)}
<1>1. \A t \in Queued(r) : t \in Tasks /\ Priority[t] \in Nat
  BY ManagerAssumption DEF Queued
<1>2. S \in SUBSET Nat /\ S # {}
  BY <1>1
<1>3. PICK x \in S : \A y \in S : x <= y
  BY <1>2, LeastNatural
<1>4. \E t \in Queued(r) : \A u \in Queued(r) : Priority[t] <= Priority[u]
  BY <1>3
<1> QED BY <1>4 DEF NextEnqueued

LEMMA FirstCandidateFacts ==
    ASSUME NEW m, NEW r \in Runs, Candidates(m, r) # {}
    PROVE  FirstCandidate(m, r) \in WorkersOf[r]
<1>1. /\ WorkerSeq[r] \in Seq(Workers)
      /\ WorkersOf[r] = {WorkerSeq[r][i] : i \in DOMAIN WorkerSeq[r]}
  BY ManagerAssumption
<1>2. DOMAIN WorkerSeq[r] \subseteq Nat
  BY <1>1
<1>3. Candidates(m, r) \in SUBSET Nat
  BY <1>2 DEF Candidates
<1>4. PICK i \in Candidates(m, r) : \A j \in Candidates(m, r) : i <= j
  BY <1>3, LeastNatural
<1>5. (CHOOSE k \in Candidates(m, r) : \A j \in Candidates(m, r) : k <= j) \in Candidates(m, r)
  BY <1>4
<1> DEFINE first == CHOOSE k \in Candidates(m, r) : \A j \in Candidates(m, r) : k <= j
<1>6. first \in DOMAIN WorkerSeq[r]
  BY <1>5 DEF Candidates
<1>7. FirstCandidate(m, r) = WorkerSeq[r][first]
  BY DEF FirstCandidate
<1> HIDE DEF first
<1> QED BY <1>1, <1>6, <1>7

-----------------------------------------------------------------------------
(* Every step is a transaction of the ledger.                                *)

LEMMA AppendIsTransaction ==
    ASSUME NEW a \in AttemptSet
    PROVE  /\ AppendEventIfLeased(a.task, a.worker, a.attempt) => LedgerNext
           /\ \A o \in TerminalStatus, result \in Results :
                FinalizeTaskAttempt(a.task, a.worker, a.attempt, o, result) => LedgerNext
<1>1. a.task \in Tasks /\ a.worker \in Workers
  BY DEF AttemptSet
<1>2. ASSUME AppendEventIfLeased(a.task, a.worker, a.attempt)
      PROVE  LedgerNext
  <2>1. tasks[a.task].attempts = a.attempt
    BY <1>2 DEF AppendEventIfLeased, HoldsLease
  <2> QED BY <1>1, <1>2, <2>1 DEF Progress, LedgerNext
<1>3. ASSUME NEW o \in TerminalStatus, NEW result \in Results,
             FinalizeTaskAttempt(a.task, a.worker, a.attempt, o, result)
      PROVE  LedgerNext
  <2>1. tasks[a.task].attempts = a.attempt
    BY <1>3 DEF FinalizeTaskAttempt, HoldsLease
  <2> QED BY <1>1, <1>3, <2>1 DEF Finalize, LedgerNext
<1> QED BY <1>2, <1>3

\* A step of a manager is a transaction any client of the ledger may make, or
\* leaves the ledger alone.
LEMMA ManagerStepIsTransaction ==
    ASSUME ManagerTypeOK, ManagersOK, NEW m \in Managers, ManagerStep(m)
    PROVE  [LedgerNext]_ledger
<1> DEFINE s == mgr[m]
<1>1. PlanOK(s, tracked[m]) /\ tracked[m] \subseteq AttemptSet
  BY DEF ManagersOK, TracksOK
<1>2. CASE \/ TryLock(m) \/ PickLease(m) \/ LeaseDone(m) \/ Snapshot(m) \/ Launch(m) \/ LaunchDone(m)
           \/ Fence(m) \/ Visit(m) \/ PollRunning(m) \/ Check(m) \/ Exit(m)
  BY <1>2 DEF TryLock, PickLease, LeaseDone, Snapshot, Launch, LaunchDone, Fence, Visit,
              PollRunning, Check, Exit
<1>3. CASE StartWorkerTask(m)
  <2> DEFINE c == s.cur
  <2>1. s.pc \in {"create", "lease"} /\ c # NoManager
    BY <1>3 DEF StartWorkerTask
  <2>2. c.task \in Tasks /\ c.worker \in WorkersOf[RunOf[c.task]]
    BY <1>1, <2>1 DEF PlanOK
  <2>3. StartTaskIfEnqueued(c.task, c.worker, Now, StartRecords) \/ UNCHANGED ledger
    BY <1>3 DEF StartWorkerTask
  <2>4. Now \in Times /\ StartRecords \in 1..StartRecords
    BY ManagerAssumption DEF Now, StartRecords
  <2> HIDE DEF c
  <2> QED BY <2>2, <2>3, <2>4 DEF Start, LedgerNext
<1>4. CASE LaunchFails(m)
  <2>1. PICK a \in s.todo :
             \/ \E result \in Results :
                  FinalizeTaskAttempt(a.task, a.worker, a.attempt, "Failed", result)
             \/ UNCHANGED ledger
    BY <1>4 DEF LaunchFails
  <2>2. a \in AttemptSet /\ "Failed" \in TerminalStatus
    BY <1>1 DEF PlanOK, ControlState, TerminalStatus
  <2> QED BY <2>1, <2>2, AppendIsTransaction
<1>5. CASE PublishArtifact(m) \/ Drain(m) \/ PollExited(m)
  <2> DEFINE a == s.cur
  <2>1. s.pc \in {"artifact", "drain"}
    BY <1>5 DEF PublishArtifact, Drain, PollExited, At
  <2>2. a \in AttemptSet /\ "Failed" \in TerminalStatus /\ "Completed" \in TerminalStatus
    BY <1>1, <2>1 DEF PlanOK, TerminalStatus
  <2>3. \/ AppendEventIfLeased(a.task, a.worker, a.attempt)
        \/ \E result \in Results, o \in {"Completed", "Failed"} :
             FinalizeTaskAttempt(a.task, a.worker, a.attempt, o, result)
        \/ UNCHANGED ledger
    BY <1>5 DEF PublishArtifact, Drain, PollExited
  <2> HIDE DEF a
  <2> QED BY <2>2, <2>3, AppendIsTransaction
<1> QED BY <1>2, <1>3, <1>4, <1>5 DEF ManagerStep

LEMMA NextIsTransaction ==
    ASSUME ManagerTypeOK, ManagersOK, [ManagerNext]_mvars
    PROVE  [LedgerNext]_ledger
<1>1. CASE \E m \in Managers : ManagerStep(m)
  BY <1>1, ManagerStepIsTransaction
<1>2. ASSUME NEW m \in Managers, RestartWorker(m)
      PROVE  [LedgerNext]_ledger
  <2>1. PICK w \in Workers, t \in Tasks :
             RestartTaskIfUnchanged(t, w, Version(t, w), Now, RestartRecords)
    BY <1>2 DEF RestartWorker
  <2>2. Now \in Times /\ RestartRecords \in 1..RestartRecords
    BY ManagerAssumption DEF Now, RestartRecords
  <2> QED BY <2>1, <2>2 DEF Restart, LedgerNext
<1>3. CASE \/ \E m \in Managers : Crash(m)
           \/ \E p \in procs : Output(p) \/ Ends(p)
           \/ UNCHANGED mvars
  BY <1>3 DEF Crash, Output, Ends
<1>4. CASE Interrupt
  BY <1>4 DEF Interrupt, Cancel, LedgerNext
<1> QED BY <1>1, <1>2, <1>3, <1>4 DEF ManagerNext

-----------------------------------------------------------------------------
(* The control state of one manager changes.                                 *)

LEMMA OthersKept ==
    ASSUME ManagerTypeOK, ManagersOK, NEW m \in Managers, NEW new, NEW tracks,
           mgr' = [mgr EXCEPT ![m] = new], tracked' = [tracked EXCEPT ![m] = tracks],
           PlanOK(new, tracks), TracksOK(new, tracks)
    PROVE  /\ mgr' \in [Managers -> ControlState] /\ tracked' \in [Managers -> SUBSET AttemptSet]
           /\ mgr'[m] = new /\ tracked'[m] = tracks
           /\ \A n \in Managers \ {m} : mgr'[n] = mgr[n] /\ tracked'[n] = tracked[n]
           /\ ManagersOK'
<1>1. new \in ControlState /\ tracks \in SUBSET AttemptSet
  BY DEF PlanOK, TracksOK
<1>2. mgr' \in [Managers -> ControlState] /\ mgr'[m] = new
      /\ \A n \in Managers \ {m} : mgr'[n] = mgr[n]
  BY <1>1 DEF ManagerTypeOK
<1>3. tracked' \in [Managers -> SUBSET AttemptSet] /\ tracked'[m] = tracks
      /\ \A n \in Managers \ {m} : tracked'[n] = tracked[n]
  BY <1>1 DEF ManagerTypeOK
<1>4. ASSUME NEW n \in Managers
      PROVE  PlanOK(mgr'[n], tracked'[n]) /\ TracksOK(mgr'[n], tracked'[n])
  <2>1. CASE n = m
    BY <1>2, <1>3, <2>1
  <2>2. CASE n # m
    BY <1>2, <1>3, <2>2 DEF ManagersOK
  <2> QED BY <2>1, <2>2
<1> QED BY <1>2, <1>3, <1>4 DEF ManagersOK

\* Nothing but the control state changes.
LEMMA PlanStep ==
    ASSUME ControlOK, NEW m \in Managers, NEW new,
           mgr' = [mgr EXCEPT ![m] = new], UNCHANGED <<lock, tracked, procs>>,
           PlanOK(new, tracked[m]),
           new.pc \notin Busy => tracked[m] = {},
           new.pc \in Owning => mgr[m].pc \in Owning,
           mgr[m].pc \in Owning => new.run = mgr[m].run
    PROVE  ControlOK'
<1>1. ManagerTypeOK /\ ManagersOK /\ LockOK /\ ProcessesOK
  BY DEF ControlOK
<1>2. TracksOK(mgr[m], tracked[m])
  BY <1>1 DEF ManagersOK
<1>3. TracksOK(new, tracked[m])
  <2>1. tracked[m] # {} => mgr[m].pc \in Owning
    BY <1>2 DEF TracksOK, Owning
  <2> QED BY <1>2, <2>1 DEF TracksOK
<1>4. tracked' = [tracked EXCEPT ![m] = tracked[m]]
  BY <1>1 DEF ManagerTypeOK
<1>5. /\ mgr' \in [Managers -> ControlState] /\ mgr'[m] = new /\ ManagersOK'
      /\ \A n \in Managers \ {m} : mgr'[n] = mgr[n]
  BY <1>1, <1>3, <1>4, OthersKept
<1>6. ManagerTypeOK'
  BY <1>1, <1>5 DEF ManagerTypeOK
<1>7. ASSUME NEW n \in Managers, mgr'[n].pc \in Owning PROVE lock[mgr'[n].run] = n
  <2>1. CASE n = m
    BY <1>1, <1>5, <1>7, <2>1 DEF LockOK
  <2>2. CASE n # m
    BY <1>1, <1>5, <1>7, <2>2 DEF LockOK
  <2> QED BY <2>1, <2>2
<1>8. LockOK'
  BY <1>7 DEF LockOK
<1>9. ProcessesOK'
  BY <1>1 DEF ProcessesOK
<1> QED BY <1>5, <1>6, <1>8, <1>9 DEF ControlOK

\* The process of attempt a is stopped and forgotten.
LEMMA StopStep ==
    ASSUME ControlOK, NEW m \in Managers, NEW a, NEW new,
           mgr' = [mgr EXCEPT ![m] = new], StopAndForget(m, a), UNCHANGED lock,
           PlanOK(new, tracked[m] \ {a}), new.pc \in Busy, mgr[m].pc \in Owning,
           new.run = mgr[m].run
    PROVE  ControlOK'
<1> DEFINE tracks == tracked[m] \ {a}
<1>1. ManagerTypeOK /\ ManagersOK /\ LockOK /\ ProcessesOK
  BY DEF ControlOK
<1>2. TracksOK(new, tracks)
  BY <1>1 DEF ManagersOK, TracksOK
<1>3. /\ tracked' = [tracked EXCEPT ![m] = tracks]
      /\ procs' = {p \in procs : ~(p.owner = m /\ p.of = a)}
  BY DEF StopAndForget
<1>4. /\ mgr' \in [Managers -> ControlState] /\ tracked' \in [Managers -> SUBSET AttemptSet]
      /\ mgr'[m] = new /\ tracked'[m] = tracks /\ ManagersOK'
      /\ \A n \in Managers \ {m} : mgr'[n] = mgr[n] /\ tracked'[n] = tracked[n]
  BY <1>1, <1>2, <1>3, OthersKept
<1>5. ManagerTypeOK'
  BY <1>1, <1>3, <1>4 DEF ManagerTypeOK
<1>6. ASSUME NEW n \in Managers, mgr'[n].pc \in Owning PROVE lock[mgr'[n].run] = n
  <2>1. CASE n = m
    BY <1>1, <1>4, <1>6, <2>1 DEF LockOK
  <2>2. CASE n # m
    BY <1>1, <1>4, <1>6, <2>2 DEF LockOK
  <2> QED BY <2>1, <2>2
<1>7. LockOK'
  BY <1>6 DEF LockOK
<1>8. ProcessesOK'
  <2>1. ASSUME NEW p \in procs', p.owner \in Managers PROVE p.of \in tracked'[p.owner]
    <3>1. p \in procs /\ ~(p.owner = m /\ p.of = a) /\ p.of \in tracked[p.owner]
      BY <1>1, <1>3, <2>1 DEF ProcessesOK
    <3> QED BY <1>4, <2>1, <3>1
  <2>2. ASSUME NEW n \in Managers, NEW b \in tracked'[n]
        PROVE  \E p \in procs' : p.owner = n /\ p.of = b
    <3>1. b \in tracked[n] /\ ~(n = m /\ b = a)
      BY <1>4
    <3>2. PICK p \in procs : p.owner = n /\ p.of = b
      BY <1>1, <3>1 DEF ProcessesOK
    <3>3. p \in procs'
      BY <1>3, <3>1, <3>2
    <3> QED BY <3>2, <3>3
  <2>3. \A p \in procs' : p \in procs
    BY <1>3
  <2> QED BY <1>1, <2>1, <2>2, <2>3 DEF ProcessesOK
<1> QED BY <1>4, <1>5, <1>7, <1>8 DEF ControlOK

\* A process prints, ends or is drained; an orphan that ended is dropped.
LEMMA ProcessStep ==
    ASSUME ControlOK, NEW p \in procs, NEW q \in Process, q.owner = p.owner, q.of = p.of,
           \/ procs' = (procs \ {p}) \cup {q}
           \/ procs' = procs \ {p} /\ p.owner = NoManager,
           UNCHANGED <<lock, mgr, tracked>>
    PROVE  ControlOK'
<1>1. ManagerTypeOK /\ ManagersOK /\ LockOK /\ ProcessesOK
  BY DEF ControlOK
<1>2. ManagerTypeOK'
  BY <1>1 DEF ManagerTypeOK
<1>3. ManagersOK' /\ LockOK'
  BY <1>1 DEF ManagersOK, LockOK
<1>4. ProcessesOK'
  <2>1. \A x \in procs' : x \in procs \/ x = q
    OBVIOUS
  <2>2. ASSUME NEW x \in procs', x.owner \in Managers PROVE x.of \in tracked'[x.owner]
    BY <1>1, <2>1, <2>2 DEF ProcessesOK
  <2>3. ASSUME NEW n \in Managers, NEW b \in tracked'[n]
        PROVE  \E x \in procs' : x.owner = n /\ x.of = b
    <3>1. PICK x \in procs : x.owner = n /\ x.of = b
      BY <1>1 DEF ProcessesOK
    <3>2. CASE x # p
      BY <3>1, <3>2
    <3>3. CASE x = p
      <4>1. p.owner # NoManager
        BY <3>1, <3>3, ManagerAssumption
      <4> QED BY <3>1, <3>3, <4>1
    <3> QED BY <3>2, <3>3
  <2>4. ASSUME NEW x \in procs', NEW y \in procs',
               x.owner \in Managers, x.owner = y.owner, x.of = y.of
        PROVE  x = y
    <3>1. ASSUME NEW z \in procs', z # q PROVE z \in procs /\ z # p
      BY <3>1
    <3>2. \A v, w \in procs : v.owner \in Managers /\ v.owner = w.owner /\ v.of = w.of => v = w
      BY <1>1 DEF ProcessesOK
    <3>3. CASE x # q /\ y # q
      BY <2>4, <3>1, <3>2, <3>3
    <3>4. CASE x = q /\ y # q
      BY <2>4, <3>1, <3>2, <3>4
    <3>5. CASE x # q /\ y = q
      BY <2>4, <3>1, <3>2, <3>5
    <3> QED BY <3>3, <3>4, <3>5
  <2> QED BY <2>2, <2>3, <2>4 DEF ProcessesOK
<1> QED BY <1>2, <1>3, <1>4 DEF ControlOK

-----------------------------------------------------------------------------
(* The steps of a manager.                                                   *)

LEMMA OffOK == Off \in ControlState /\ Off.pc = "off" /\ PlanOK(Off, {})
BY DEF Off, ControlState, Phase, Owning, Busy, PlanOK

\* The steps that lease, plan the launches or look around.
LEMMA PlanSteps ==
    ASSUME IInv, ControlOK, NEW m \in Managers,
           \/ PickLease(m) \/ StartWorkerTask(m) \/ LeaseDone(m) \/ Snapshot(m) \/ LaunchFails(m)
           \/ LaunchDone(m) \/ Visit(m) \/ PollRunning(m) \/ Check(m)
    PROVE  ControlOK'
<1> DEFINE s == mgr[m]
           tracks == tracked[m]
<1>1. ManagerTypeOK /\ PlanOK(s, tracks) /\ TracksOK(s, tracks) /\ s \in ControlState
  BY DEF ControlOK, ManagersOK, PlanOK
<1>2. UNCHANGED <<lock, tracked, procs>>
  BY DEF PickLease, StartWorkerTask, LeaseDone, Snapshot, LaunchFails, LaunchDone, Visit,
         PollRunning, Check
<1>3. ASSUME NEW new, Goto(m, new), PlanOK(new, tracks), new.run = s.run,
             new.pc \notin Busy => tracks = {},
             new.pc \in Owning => s.pc \in Owning
      PROVE  ControlOK'
  BY <1>2, <1>3, PlanStep DEF Goto
<1> USE DEF Phase, Owning, Busy
<1>4. CASE PickLease(m)
  <2> DEFINE c == [task |-> NextEnqueued(s.run), worker |-> FirstCandidate(m, s.run)]
             new == [s EXCEPT !.cur = c]
  <2>1. s.pc \in {"create", "lease"} /\ CanSchedule(m, s.run) /\ Goto(m, new)
    BY <1>4 DEF PickLease
  <2>2. s.run \in Runs
    BY <1>1, <2>1 DEF PlanOK
  <2>3. NextEnqueued(s.run) \in Queued(s.run) /\ FirstCandidate(m, s.run) \in WorkersOf[s.run]
    BY <2>1, <2>2, NextEnqueuedFacts, FirstCandidateFacts DEF CanSchedule
  <2>4. c.task \in Tasks /\ RunOf[c.task] = s.run /\ c.worker \in WorkersOf[s.run]
        /\ c \in Choice
    BY <2>2, <2>3, LedgerAssumption DEF Queued, Choice
  <2> HIDE DEF c
  <2>5. new \in ControlState /\ new.pc = s.pc /\ new.run = s.run /\ new.cur = c
    BY <1>1, <2>4 DEF ControlState
  <2> HIDE DEF new
  <2>6. PlanOK(new, tracks)
    BY <2>1, <2>2, <2>4, <2>5 DEF PlanOK
  <2> QED BY <1>1, <1>3, <2>1, <2>5, <2>6 DEF TracksOK
<1>5. CASE StartWorkerTask(m)
  <2> DEFINE new == [s EXCEPT !.cur = NoManager]
  <2>1. s.pc \in {"create", "lease"} /\ Goto(m, new)
    BY <1>5 DEF StartWorkerTask
  <2>2. /\ new \in ControlState /\ new.pc = s.pc /\ new.run = s.run /\ new.cur = NoManager
        /\ new.todo = s.todo
    BY <1>1 DEF ControlState
  <2> HIDE DEF new
  <2>3. PlanOK(new, tracks)
    BY <1>1, <2>1, <2>2 DEF PlanOK
  <2> QED BY <1>1, <1>3, <2>1, <2>2, <2>3 DEF TracksOK
<1>6. CASE LeaseDone(m)
  <2> DEFINE new == [s EXCEPT !.pc = IF At(m, "create") THEN "lock" ELSE "snapshot"]
  <2>1. s.pc \in {"create", "lease"} /\ s.cur = NoManager /\ Goto(m, new)
    BY <1>6 DEF LeaseDone
  <2>2. /\ new \in ControlState /\ new.run = s.run /\ new.cur = s.cur
        /\ new.pc = IF s.pc = "create" THEN "lock" ELSE "snapshot"
    BY <1>1 DEF ControlState, At
  <2> HIDE DEF new
  <2>3. PlanOK(new, tracks)
    BY <1>1, <2>1, <2>2 DEF PlanOK
  <2> QED BY <1>1, <1>3, <2>1, <2>2, <2>3 DEF TracksOK
<1>7. CASE Snapshot(m)
  <2> DEFINE todo == {Attempt(t) : t \in ActiveOf(s.run)}
             new == [s EXCEPT !.pc = "launch", !.todo = todo]
  <2>1. s.pc = "snapshot" /\ Goto(m, new)
    BY <1>7 DEF Snapshot, At
  <2>2. ASSUME NEW t \in ActiveOf(s.run)
        PROVE  Attempt(t) \in AttemptSet /\ Attempt(t).task = t /\ RunOf[t] = s.run
    <3>1. t \in Tasks /\ tasks[t].leased_to \in Workers /\ tasks[t].attempts \in Nat
      BY LedgerAssumption DEF ActiveOf, IInv, TypeOK, OwnershipShape, TaskState
    <3> QED BY <3>1 DEF Attempt, AttemptSet, ActiveOf
  <2>3. \A a \in todo : a \in AttemptSet /\ RunOf[a.task] = s.run
    BY <2>2
  <2> HIDE DEF todo
  <2>4. /\ new \in ControlState /\ new.run = s.run /\ new.pc = "launch" /\ new.todo = todo
        /\ new.cur = s.cur
    BY <1>1, <2>3 DEF ControlState
  <2> HIDE DEF new
  <2>5. PlanOK(new, tracks)
    BY <1>1, <2>1, <2>3, <2>4 DEF PlanOK
  <2> QED BY <1>1, <1>3, <2>1, <2>4, <2>5 DEF TracksOK
<1>8. CASE LaunchFails(m)
  <2>1. PICK a \in s.todo : Goto(m, [s EXCEPT !.todo = @ \ {a}])
    BY <1>8 DEF LaunchFails
  <2>2. s.pc = "launch"
    BY <1>8 DEF LaunchFails, At
  <2> DEFINE new == [s EXCEPT !.todo = @ \ {a}]
  <2>3. /\ new \in ControlState /\ new.run = s.run /\ new.pc = "launch"
        /\ new.todo = s.todo \ {a} /\ new.cur = s.cur
    BY <1>1, <2>2 DEF ControlState
  <2> HIDE DEF new
  <2>4. PlanOK(new, tracks)
    BY <1>1, <2>2, <2>3 DEF PlanOK
  <2>5. Goto(m, new)
    BY <2>1 DEF new
  <2> QED BY <1>1, <1>3, <2>2, <2>3, <2>4, <2>5 DEF TracksOK
<1>9. CASE LaunchDone(m)
  <2> DEFINE new == [s EXCEPT !.pc = "drive", !.todo = tracks]
  <2>1. s.pc = "launch" /\ Goto(m, new)
    BY <1>9 DEF LaunchDone, At
  <2>2. /\ new \in ControlState /\ new.run = s.run /\ new.pc = "drive" /\ new.todo = tracks
        /\ new.cur = s.cur
    BY <1>1 DEF ControlState, TracksOK
  <2> HIDE DEF new
  <2>3. PlanOK(new, tracks)
    BY <1>1, <2>1, <2>2 DEF PlanOK
  <2> QED BY <1>1, <1>3, <2>1, <2>2, <2>3 DEF TracksOK
<1>10. CASE Visit(m)
  <2>1. PICK a \in s.todo : Goto(m, [s EXCEPT !.pc = "drain", !.todo = @ \ {a}, !.cur = a])
    BY <1>10 DEF Visit
  <2>2. s.pc = "drive" /\ a \in tracks /\ a \in AttemptSet
    BY <1>1, <1>10 DEF Visit, At, PlanOK, TracksOK
  <2> DEFINE new == [s EXCEPT !.pc = "drain", !.todo = @ \ {a}, !.cur = a]
  <2>3. /\ new \in ControlState /\ new.run = s.run /\ new.pc = "drain"
        /\ new.todo = s.todo \ {a} /\ new.cur = a
    BY <1>1, <2>2 DEF ControlState
  <2> HIDE DEF new
  <2>4. PlanOK(new, tracks)
    BY <1>1, <2>2, <2>3 DEF PlanOK
  <2>5. Goto(m, new)
    BY <2>1 DEF new
  <2> QED BY <1>1, <1>3, <2>2, <2>3, <2>4, <2>5 DEF TracksOK
<1>11. CASE PollRunning(m)
  <2> DEFINE new == [s EXCEPT !.pc = "drive", !.cur = NoManager]
  <2>1. s.pc = "drain" /\ Goto(m, new)
    BY <1>11 DEF PollRunning, At
  <2>2. /\ new \in ControlState /\ new.run = s.run /\ new.pc = "drive" /\ new.todo = s.todo
        /\ new.cur = NoManager
    BY <1>1 DEF ControlState
  <2> HIDE DEF new
  <2>3. PlanOK(new, tracks)
    BY <1>1, <2>1, <2>2 DEF PlanOK
  <2> QED BY <1>1, <1>3, <2>1, <2>2, <2>3 DEF TracksOK
<1>12. CASE Check(m)
  <2> DEFINE new == [s EXCEPT !.pc = IF ~OpenWork(s.run) /\ tracks = {} THEN "exit" ELSE "lease"]
  <2>1. s.pc = "drive" /\ Goto(m, new)
    BY <1>12 DEF Check, At
  <2>2. /\ new \in ControlState /\ new.run = s.run /\ new.cur = s.cur
        /\ new.pc = "lease" \/ (new.pc = "exit" /\ tracks = {})
    BY <1>1 DEF ControlState
  <2> HIDE DEF new
  <2>3. PlanOK(new, tracks)
    BY <1>1, <2>1, <2>2 DEF PlanOK
  <2> QED BY <1>1, <1>3, <2>1, <2>2, <2>3 DEF TracksOK
<1> QED BY <1>4, <1>5, <1>6, <1>7, <1>8, <1>9, <1>10, <1>11, <1>12

\* A process is launched for an attempt whose worker the executor does not track.
LEMMA LaunchStep ==
    ASSUME ControlOK, NEW m \in Managers, Launch(m)
    PROVE  ControlOK'
<1> DEFINE s == mgr[m]
<1>1. ManagerTypeOK /\ ManagersOK /\ LockOK /\ ProcessesOK
  BY DEF ControlOK
<1>2. PlanOK(s, tracked[m]) /\ TracksOK(s, tracked[m]) /\ s \in ControlState
  BY <1>1 DEF ManagersOK, PlanOK
<1>3. PICK a \in s.todo :
        /\ a.worker \notin Tracks(m)
        /\ tracked' = [tracked EXCEPT ![m] = @ \cup {a}]
        /\ procs' = procs \cup {NewProcess(m, a)}
        /\ Goto(m, [s EXCEPT !.pc = "artifact", !.todo = @ \ {a}, !.cur = a])
  BY DEF Launch
<1>4. s.pc = "launch" /\ UNCHANGED lock
  BY DEF Launch, At
<1> DEFINE new == [s EXCEPT !.pc = "artifact", !.todo = @ \ {a}, !.cur = a]
           tracks == tracked[m] \cup {a}
           child == NewProcess(m, a)
<1>5. a \in AttemptSet /\ RunOf[a.task] = s.run
  BY <1>2, <1>4 DEF PlanOK, ControlState
<1>6. /\ new \in ControlState /\ new.run = s.run /\ new.pc = "artifact"
      /\ new.todo = s.todo \ {a} /\ new.cur = a
  BY <1>2, <1>5 DEF ControlState, Phase, Owning, Busy
<1>7. mgr' = [mgr EXCEPT ![m] = new] /\ tracked' = [tracked EXCEPT ![m] = tracks]
  BY <1>3 DEF Goto
<1>8. child \in Process /\ child.owner = m /\ child.of = a
  BY <1>5, ManagerAssumption DEF NewProcess, Process
<1>9. procs' = procs \cup {child}
  BY <1>3
<1>10. \A b \in tracked[m] : b.worker # a.worker
  BY <1>3 DEF Tracks
<1> HIDE DEF new, child
<1>11. PlanOK(new, tracks)
  BY <1>2, <1>4, <1>6 DEF PlanOK
<1>12. TracksOK(new, tracks)
  BY <1>2, <1>4, <1>5, <1>6, <1>10 DEF TracksOK, Busy
<1> HIDE DEF tracks
<1>13. /\ mgr' \in [Managers -> ControlState] /\ tracked' \in [Managers -> SUBSET AttemptSet]
       /\ mgr'[m] = new /\ tracked'[m] = tracks /\ ManagersOK'
       /\ \A n \in Managers \ {m} : mgr'[n] = mgr[n] /\ tracked'[n] = tracked[n]
  BY <1>1, <1>7, <1>11, <1>12, OthersKept
<1>14. ManagerTypeOK'
  BY <1>1, <1>4, <1>8, <1>9, <1>13 DEF ManagerTypeOK
<1>15. ASSUME NEW n \in Managers, mgr'[n].pc \in Owning PROVE lock[mgr'[n].run] = n
  <2>1. CASE n = m
    BY <1>1, <1>4, <1>6, <1>13, <2>1 DEF LockOK, Owning, Busy
  <2>2. CASE n # m
    BY <1>1, <1>13, <1>15, <2>2 DEF LockOK
  <2> QED BY <2>1, <2>2
<1>16. LockOK'
  BY <1>4, <1>15 DEF LockOK
<1>17. ProcessesOK'
  <2>0. a \in tracks /\ a \notin tracked[m] /\ \A b : b \in tracks <=> b \in tracked[m] \/ b = a
    BY <1>10 DEF tracks
  <2>1. ASSUME NEW p \in procs', p.owner \in Managers PROVE p.of \in tracked'[p.owner]
    <3>1. CASE p = child
      BY <1>8, <1>13, <2>0, <3>1
    <3>2. CASE p \in procs
      BY <1>1, <1>13, <2>0, <2>1, <3>2 DEF ProcessesOK
    <3> QED BY <1>9, <3>1, <3>2
  <2>2. ASSUME NEW n \in Managers, NEW b \in tracked'[n]
        PROVE  \E p \in procs' : p.owner = n /\ p.of = b
    <3>1. CASE n = m /\ b = a
      BY <1>8, <1>9, <3>1
    <3>2. CASE ~(n = m /\ b = a)
      <4>1. b \in tracked[n]
        BY <1>13, <2>0, <3>2
      <4>2. PICK p \in procs : p.owner = n /\ p.of = b
        BY <1>1, <4>1 DEF ProcessesOK
      <4> QED BY <1>9, <4>2
    <3> QED BY <3>1, <3>2
  <2>3. ASSUME NEW p \in procs', NEW q \in procs',
               p.owner \in Managers, p.owner = q.owner, p.of = q.of
        PROVE  p = q
    <3>1. ASSUME NEW x \in procs, x.owner = m PROVE x.of # a
      BY <1>1, <2>0, <3>1 DEF ProcessesOK
    <3>2. CASE p \in procs /\ q \in procs
      BY <1>1, <2>3, <3>2 DEF ProcessesOK
    <3>3. CASE p = child \/ q = child
      BY <1>8, <1>9, <2>3, <3>1, <3>3
    <3> QED BY <1>9, <3>2, <3>3
  <2> QED BY <2>1, <2>2, <2>3 DEF ProcessesOK
<1> QED BY <1>13, <1>14, <1>16, <1>17 DEF ControlOK

\* The steps that stop a process, or keep it and publish its log.
LEMMA StopSteps ==
    ASSUME ControlOK, NEW m \in Managers, PublishArtifact(m) \/ Fence(m) \/ PollExited(m)
    PROVE  ControlOK'
<1> DEFINE s == mgr[m]
           tracks == tracked[m]
<1>1. ManagerTypeOK /\ PlanOK(s, tracks) /\ TracksOK(s, tracks) /\ s \in ControlState
  BY DEF ControlOK, ManagersOK, PlanOK
<1>2. UNCHANGED lock
  BY DEF PublishArtifact, Fence, PollExited
<1> USE DEF Phase, Owning, Busy
<1>3. CASE PublishArtifact(m)
  <2> DEFINE new == [s EXCEPT !.pc = "launch", !.cur = NoManager]
  <2>1. s.pc = "artifact" /\ Goto(m, new)
    BY <1>3 DEF PublishArtifact, At
  <2>2. /\ new \in ControlState /\ new.run = s.run /\ new.pc = "launch" /\ new.todo = s.todo
        /\ new.cur = NoManager
    BY <1>1 DEF ControlState
  <2> HIDE DEF new
  <2>3. ASSUME NEW any PROVE PlanOK(new, any)
    BY <1>1, <2>1, <2>2 DEF PlanOK
  <2>4. CASE UNCHANGED <<tracked, procs>>
    BY <1>2, <2>1, <2>2, <2>3, <2>4, PlanStep DEF Goto
  <2>5. CASE StopAndForget(m, s.cur)
    BY <1>2, <2>1, <2>2, <2>3, <2>5, StopStep DEF Goto
  <2> QED BY <1>3, <2>4, <2>5 DEF PublishArtifact
<1>4. CASE Fence(m)
  <2>1. PICK a \in s.todo : StopAndForget(m, a) /\ Goto(m, [s EXCEPT !.todo = @ \ {a}])
    BY <1>4 DEF Fence
  <2> DEFINE new == [s EXCEPT !.todo = @ \ {a}]
  <2>2. s.pc = "drive"
    BY <1>4 DEF Fence, At
  <2>3. /\ new \in ControlState /\ new.run = s.run /\ new.pc = "drive" /\ new.todo = s.todo \ {a}
        /\ new.cur = s.cur
    BY <1>1, <2>2 DEF ControlState
  <2>4. mgr' = [mgr EXCEPT ![m] = new]
    BY <2>1 DEF Goto
  <2> HIDE DEF new
  <2>5. PlanOK(new, tracks \ {a})
    BY <1>1, <2>2, <2>3 DEF PlanOK
  <2> QED BY <1>2, <2>1, <2>2, <2>3, <2>4, <2>5, StopStep
<1>5. CASE PollExited(m)
  <2> DEFINE new == [s EXCEPT !.pc = "drive", !.cur = NoManager]
  <2>1. s.pc = "drain" /\ Goto(m, new) /\ StopAndForget(m, s.cur)
    BY <1>5 DEF PollExited, At
  <2>2. /\ new \in ControlState /\ new.run = s.run /\ new.pc = "drive" /\ new.todo = s.todo
        /\ new.cur = NoManager
    BY <1>1 DEF ControlState
  <2> HIDE DEF new
  <2>3. PlanOK(new, tracks \ {s.cur})
    BY <1>1, <2>1, <2>2 DEF PlanOK
  <2> QED BY <1>2, <2>1, <2>2, <2>3, StopStep DEF Goto
<1> QED BY <1>3, <1>4, <1>5

LEMMA ProcessSteps ==
    ASSUME ControlOK,
           \/ \E m \in Managers : Drain(m)
           \/ \E p \in procs : Output(p) \/ Ends(p)
    PROVE  ControlOK'
<1>1. ManagerTypeOK /\ ManagersOK /\ ProcessesOK
  BY DEF ControlOK
<1>2. ASSUME NEW m \in Managers, Drain(m) PROVE ControlOK'
  <2> DEFINE a == mgr[m].cur
             p == ProcOf(m, a)
             q == [p EXCEPT !.lines = @ - 1]
  <2>1. a \in tracked[m]
    BY <1>1, <1>2 DEF Drain, At, ManagersOK, PlanOK
  <2>2. p \in procs /\ p.owner = m /\ p.of = a
    BY <1>1, <2>1 DEF ProcessesOK, ProcOf
  <2>3. p.lines > 0 /\ procs' = (procs \ {p}) \cup {q} /\ UNCHANGED <<lock, mgr, tracked>>
    BY <1>2 DEF Drain
  <2> HIDE DEF p
  <2>4. p \in Process
    BY <1>1, <2>2 DEF ManagerTypeOK
  <2>5. q \in Process /\ q.owner = p.owner /\ q.of = p.of
    BY <2>3, <2>4 DEF Process
  <2> QED BY <2>2, <2>3, <2>5, ProcessStep
<1>3. ASSUME NEW p \in procs, Output(p) PROVE ControlOK'
  <2> DEFINE q == [p EXCEPT !.lines = @ + 1, !.quota = @ - 1]
  <2>1. p.quota > 0 /\ procs' = (procs \ {p}) \cup {q} /\ UNCHANGED <<lock, mgr, tracked>>
    BY <1>3 DEF Output
  <2>2. p \in Process /\ p.lines + 1 \in Nat /\ p.quota - 1 \in Nat
    BY <1>1, <2>1 DEF Process, ManagerTypeOK
  <2>3. q \in Process /\ q.owner = p.owner /\ q.of = p.of
    BY <2>2 DEF Process
  <2> QED BY <2>1, <2>3, ProcessStep
<1>4. ASSUME NEW p \in procs, Ends(p) PROVE ControlOK'
  <2>1. PICK s \in {"ok", "error"} :
           procs' = (procs \ {p}) \cup
                      (IF p.owner = NoManager THEN {} ELSE {[p EXCEPT !.state = s]})
    BY <1>4 DEF Ends
  <2>2. UNCHANGED <<lock, mgr, tracked>>
    BY <1>4 DEF Ends
  <2> DEFINE q == [p EXCEPT !.state = s]
  <2>3. q \in Process /\ q.owner = p.owner /\ q.of = p.of
    BY <1>1 DEF Process, ManagerTypeOK
  <2>4. \/ procs' = (procs \ {p}) \cup {q}
        \/ procs' = procs \ {p} /\ p.owner = NoManager
    BY <2>1
  <2> HIDE DEF q
  <2> QED BY <2>2, <2>3, <2>4, ProcessStep
<1> QED BY <1>2, <1>3, <1>4

-----------------------------------------------------------------------------
(* Ownership of the run: entering, leaving and dying.                        *)

\* A manager that has no processes and stays outside the loop.
LEMMA OutsideStep ==
    ASSUME ControlOK, NEW m \in Managers, NEW new, mgr' = [mgr EXCEPT ![m] = new],
           UNCHANGED <<lock, tracked, procs>>,
           mgr[m].pc \in {"off", "lock"}, PlanOK(new, {}), new.pc \in {"off", "lock"}
    PROVE  ControlOK'
<1>1. tracked[m] = {}
  BY DEF ControlOK, ManagersOK, TracksOK, Busy
<1> QED BY <1>1, PlanStep DEF Owning, Busy

LEMMA TryLockStep ==
    ASSUME ControlOK, NEW m \in Managers, TryLock(m)
    PROVE  ControlOK'
<1> DEFINE s == mgr[m]
           r == s.run
<1>1. ManagerTypeOK /\ ManagersOK /\ LockOK /\ ProcessesOK
  BY DEF ControlOK
<1>2. s.pc = "lock" /\ UNCHANGED <<tracked, procs>>
  BY DEF TryLock, At
<1>3. PlanOK(s, tracked[m]) /\ TracksOK(s, tracked[m]) /\ s \in ControlState /\ r \in Runs
      /\ tracked[m] = {}
  BY <1>1, <1>2 DEF ManagersOK, PlanOK, TracksOK, Busy
<1>4. CASE lock[r] = NoManager /\ lock' = [lock EXCEPT ![r] = m]
           /\ Goto(m, [s EXCEPT !.pc = "lease"])
  <2> DEFINE new == [s EXCEPT !.pc = "lease"]
  <2>1. new \in ControlState /\ new.pc = "lease" /\ new.run = r /\ new.cur = s.cur
    BY <1>3 DEF ControlState, Phase, Owning, Busy
  <2>2. mgr' = [mgr EXCEPT ![m] = new] /\ tracked' = [tracked EXCEPT ![m] = tracked[m]]
    BY <1>1, <1>2, <1>4 DEF Goto, ManagerTypeOK
  <2> HIDE DEF new
  <2>3. PlanOK(new, tracked[m]) /\ TracksOK(new, tracked[m])
    BY <1>2, <1>3, <2>1 DEF PlanOK, TracksOK, Busy
  <2>4. /\ mgr' \in [Managers -> ControlState] /\ mgr'[m] = new /\ ManagersOK'
        /\ \A n \in Managers \ {m} : mgr'[n] = mgr[n]
    BY <1>1, <2>2, <2>3, OthersKept
  <2>5. ManagerTypeOK'
    BY <1>1, <1>2, <1>4, <2>4 DEF ManagerTypeOK
  <2>6. ASSUME NEW n \in Managers, mgr'[n].pc \in Owning PROVE lock'[mgr'[n].run] = n
    <3>1. lock'[r] = m /\ \A x \in Runs \ {r} : lock'[x] = lock[x]
      BY <1>1, <1>3, <1>4 DEF ManagerTypeOK
    <3>2. CASE n = m
      BY <2>1, <2>4, <3>1, <3>2
    <3>3. CASE n # m
      <4>1. lock[mgr[n].run] = n /\ mgr[n].run \in Runs
        BY <1>1, <2>4, <2>6, <3>3 DEF LockOK, ManagersOK, PlanOK, Owning, Busy
      <4>2. mgr[n].run # r
        BY <1>4, <4>1, ManagerAssumption
      <4> QED BY <2>4, <3>1, <3>3, <4>1, <4>2
    <3> QED BY <3>2, <3>3
  <2>7. LockOK'
    BY <2>6 DEF LockOK
  <2>8. ProcessesOK'
    BY <1>1, <1>2 DEF ProcessesOK
  <2> QED BY <2>4, <2>5, <2>7, <2>8 DEF ControlOK
<1>5. CASE Goto(m, Off) /\ UNCHANGED lock
  BY <1>2, <1>5, OffOK, OutsideStep DEF Goto
<1>6. CASE Goto(m, [s EXCEPT !.observed = TRUE]) /\ UNCHANGED lock
  <2> DEFINE new == [s EXCEPT !.observed = TRUE]
  <2>1. /\ new \in ControlState /\ new.pc = "lock" /\ new.run = r /\ new.cur = s.cur
    BY <1>2, <1>3 DEF ControlState
  <2> HIDE DEF new
  <2>2. PlanOK(new, {})
    BY <1>2, <1>3, <2>1 DEF PlanOK
  <2>3. mgr' = [mgr EXCEPT ![m] = new]
    BY <1>6 DEF Goto, new
  <2> QED BY <1>2, <1>6, <2>1, <2>2, <2>3, OutsideStep
<1> QED BY <1>4, <1>5, <1>6 DEF TryLock

\* The lock is released, the children are gone or orphans.
LEMMA LeaveStep ==
    ASSUME ControlOK, NEW m \in Managers, mgr' = [mgr EXCEPT ![m] = Off],
           tracked' = [tracked EXCEPT ![m] = {}],
           lock' \in [Runs -> Managers \cup {NoManager}],
           \A r \in Runs : lock[r] # m => lock'[r] = lock[r],
           procs' \subseteq Process,
           \A p \in procs : p.owner # m => p \in procs',
           \A p \in procs' : (p \in procs /\ p.owner # m) \/ p.owner = NoManager
    PROVE  ControlOK'
<1>1. ManagerTypeOK /\ ManagersOK /\ LockOK /\ ProcessesOK
  BY DEF ControlOK
<1>2. PlanOK(Off, {}) /\ TracksOK(Off, {})
  BY OffOK DEF TracksOK
<1>3. /\ mgr' \in [Managers -> ControlState] /\ tracked' \in [Managers -> SUBSET AttemptSet]
      /\ mgr'[m] = Off /\ tracked'[m] = {} /\ ManagersOK'
      /\ \A n \in Managers \ {m} : mgr'[n] = mgr[n] /\ tracked'[n] = tracked[n]
  BY <1>1, <1>2, OthersKept
<1>4. ManagerTypeOK'
  BY <1>3 DEF ManagerTypeOK
<1>5. ASSUME NEW n \in Managers, mgr'[n].pc \in Owning PROVE lock'[mgr'[n].run] = n
  <2>1. n # m
    BY <1>3, <1>5, OffOK DEF Owning, Busy
  <2>2. lock[mgr[n].run] = n /\ mgr[n].run \in Runs
    BY <1>1, <1>3, <1>5, <2>1 DEF LockOK, ManagersOK, PlanOK, Owning, Busy
  <2> QED BY <1>3, <2>1, <2>2
<1>6. LockOK'
  BY <1>5 DEF LockOK
<1>7. ProcessesOK'
  <2>1. ASSUME NEW p \in procs', p.owner \in Managers
        PROVE  p \in procs /\ p.owner # m /\ p.of \in tracked'[p.owner]
    <3>1. p.owner # NoManager
      BY <2>1, ManagerAssumption
    <3>2. p \in procs /\ p.owner # m
      BY <3>1
    <3> QED BY <1>1, <1>3, <2>1, <3>2 DEF ProcessesOK
  <2>2. ASSUME NEW n \in Managers, NEW b \in tracked'[n]
        PROVE  \E p \in procs' : p.owner = n /\ p.of = b
    <3>1. n # m /\ b \in tracked[n]
      BY <1>3
    <3>2. PICK p \in procs : p.owner = n /\ p.of = b
      BY <1>1, <3>1 DEF ProcessesOK
    <3> QED BY <3>1, <3>2
  <2>3. ASSUME NEW p \in procs', NEW q \in procs',
               p.owner \in Managers, p.owner = q.owner, p.of = q.of
        PROVE  p = q
    BY <1>1, <2>1, <2>3 DEF ProcessesOK
  <2> QED BY <2>1, <2>2, <2>3 DEF ProcessesOK
<1> QED BY <1>3, <1>4, <1>6, <1>7 DEF ControlOK

LEMMA LeaveSteps ==
    ASSUME ControlOK, NEW m \in Managers, Exit(m) \/ Crash(m)
    PROVE  ControlOK'
<1>1. ManagerTypeOK /\ ManagersOK /\ LockOK /\ ProcessesOK
  BY DEF ControlOK
<1>2. CASE Exit(m)
  <2> DEFINE r == mgr[m].run
  <2>1. /\ mgr[m].pc = "exit" /\ lock' = [lock EXCEPT ![r] = NoManager]
        /\ mgr' = [mgr EXCEPT ![m] = Off] /\ UNCHANGED <<tracked, procs>>
    BY <1>2 DEF Exit, At, Goto
  <2>2. tracked[m] = {} /\ lock[r] = m /\ r \in Runs
    BY <1>1, <2>1 DEF ManagersOK, TracksOK, PlanOK, LockOK, Owning, Busy
  <2> HIDE DEF r
  <2>3. tracked' = [tracked EXCEPT ![m] = {}]
    BY <1>1, <2>1, <2>2 DEF ManagerTypeOK
  <2>4. /\ lock' \in [Runs -> Managers \cup {NoManager}]
        /\ \A x \in Runs : lock[x] # m => lock'[x] = lock[x]
    BY <1>1, <2>1, <2>2 DEF ManagerTypeOK
  <2>5. \A p \in procs : p.owner # m
    BY <1>1, <2>2 DEF ProcessesOK
  <2>6. procs' \subseteq Process
    BY <1>1, <2>1 DEF ManagerTypeOK
  <2> QED BY <2>1, <2>3, <2>4, <2>5, <2>6, LeaveStep
<1>3. CASE Crash(m)
  <2> DEFINE orphan(p) == [p EXCEPT !.owner = NoManager, !.lines = 0]
             mine == {q \in procs : q.owner = m /\ q.state = "running"}
  <2>1. /\ lock' = [r \in Runs |-> IF lock[r] = m THEN NoManager ELSE lock[r]]
        /\ mgr' = [mgr EXCEPT ![m] = Off] /\ tracked' = [tracked EXCEPT ![m] = {}]
        /\ procs' = {p \in procs : p.owner # m} \cup {orphan(p) : p \in mine}
    BY <1>3 DEF Crash, Goto
  <2>2. ASSUME NEW p \in procs PROVE p \in Process /\ orphan(p) \in Process /\ orphan(p).owner = NoManager
    BY <1>1 DEF ManagerTypeOK, Process
  <2> HIDE DEF orphan
  <2>3. /\ procs' \subseteq Process
        /\ \A p \in procs : p.owner # m => p \in procs'
        /\ \A p \in procs' : (p \in procs /\ p.owner # m) \/ p.owner = NoManager
    BY <2>1, <2>2
  <2>4. /\ lock' \in [Runs -> Managers \cup {NoManager}]
        /\ \A x \in Runs : lock[x] # m => lock'[x] = lock[x]
    BY <1>1, <2>1 DEF ManagerTypeOK
  <2> QED BY <2>1, <2>3, <2>4, LeaveStep
<1> QED BY <1>2, <1>3

LEMMA RestartWorkerStep ==
    ASSUME ControlOK, NEW m \in Managers, RestartWorker(m)
    PROVE  ControlOK'
<1>1. PICK t \in Tasks : Goto(m, [Off EXCEPT !.pc = "lock", !.run = RunOf[t]])
  BY DEF RestartWorker
<1> DEFINE new == [Off EXCEPT !.pc = "lock", !.run = RunOf[t]]
<1>2. RunOf[t] \in Runs
  BY LedgerAssumption
<1>3. new \in ControlState /\ new.pc = "lock" /\ new.run = RunOf[t] /\ new.cur = NoManager
  BY <1>2, OffOK DEF ControlState, Phase, Off
<1>4. mgr' = [mgr EXCEPT ![m] = new] /\ mgr[m].pc = "off" /\ UNCHANGED <<lock, tracked, procs>>
  BY <1>1 DEF Goto, RestartWorker, At
<1> HIDE DEF new
<1>5. PlanOK(new, {})
  BY <1>2, <1>3 DEF PlanOK
<1> QED BY <1>3, <1>4, <1>5, OutsideStep

-----------------------------------------------------------------------------
(* The theorems.                                                             *)

LEMMA ManagerInitIInv == ManagerInit => ManagerIInv
<1> SUFFICES ASSUME ManagerInit PROVE ManagerIInv
  OBVIOUS
<1>1. NoReceipt \in Receipt
  BY DEF NoReceipt, Receipt, Results
<1>2. TypeOK
  BY <1>1, EnqueuedTaskType DEF ManagerInit, TypeOK
<1>3. OwnershipShape /\ OneLeasePerWorker
  BY EnqueuedTaskType DEF ManagerInit, OwnershipShape, OneLeasePerWorker
<1>4. ASSUME NEW m \in Managers
      PROVE  PlanOK(mgr[m], {}) /\ mgr[m].pc \in {"off", "create"}
  <2> DEFINE r == CHOOSE x \in Runs : Creator[x] = m
             new == [Off EXCEPT !.pc = "create", !.run = r]
  <2>1. CASE \E x \in Runs : Creator[x] = m
    <3>1. r \in Runs /\ mgr[m] = new
      BY <2>1 DEF ManagerInit
    <3> HIDE DEF r
    <3>2. new \in ControlState /\ new.pc = "create" /\ new.run = r /\ new.cur = NoManager
      BY <3>1, OffOK DEF ControlState, Phase, Off
    <3> HIDE DEF new
    <3> QED BY <3>1, <3>2 DEF PlanOK
  <2>2. CASE ~\E x \in Runs : Creator[x] = m
    BY <2>2, OffOK DEF ManagerInit
  <2> QED BY <2>1, <2>2
<1>5. /\ lock = [r \in Runs |-> NoManager] /\ tracked = [m \in Managers |-> {}] /\ procs = {}
      /\ mgr = [m \in Managers |-> mgr[m]]
  BY DEF ManagerInit
<1>6. ManagerTypeOK
  <2>1. \A m \in Managers : mgr[m] \in ControlState
    BY <1>4 DEF PlanOK
  <2>2. mgr \in [Managers -> ControlState]
    BY <1>5, <2>1
  <2> QED BY <1>5, <2>2 DEF ManagerTypeOK
<1>7. ManagersOK
  BY <1>4, <1>5 DEF ManagersOK, TracksOK
<1>8. LockOK /\ ProcessesOK
  BY <1>4, <1>5 DEF LockOK, ProcessesOK, Owning, Busy
<1> QED BY <1>2, <1>3, <1>6, <1>7, <1>8 DEF ManagerIInv, IInv, ControlOK

LEMMA ManagerIInvStep == ManagerIInv /\ [ManagerNext]_mvars => ManagerIInv'
<1> SUFFICES ASSUME ManagerIInv, [ManagerNext]_mvars PROVE ManagerIInv'
  OBVIOUS
<1>1. IInv /\ ControlOK
  BY DEF ManagerIInv
<1>2. IInv'
  BY <1>1, NextIsTransaction, NextIsTaskStep, TypeStep, OwnershipStep, OneLeaseStep
  DEF IInv, ControlOK
<1>3. ASSUME UNCHANGED manager PROVE ControlOK'
  BY <1>1, <1>3 DEF ControlOK, ManagerTypeOK, ManagersOK, LockOK, ProcessesOK
<1>4. ASSUME NEW m \in Managers, ManagerStep(m) PROVE ControlOK'
  BY <1>1, <1>4, PlanSteps, LaunchStep, StopSteps, ProcessSteps, TryLockStep, LeaveSteps
  DEF ManagerStep
<1>5. ASSUME NEW m \in Managers, RestartWorker(m) \/ Crash(m) PROVE ControlOK'
  BY <1>1, <1>5, RestartWorkerStep, LeaveSteps
<1>6. ASSUME \E p \in procs : Output(p) \/ Ends(p) PROVE ControlOK'
  BY <1>1, <1>6, ProcessSteps
<1>7. ControlOK'
  BY <1>3, <1>4, <1>5, <1>6 DEF ManagerNext, Interrupt
<1> QED BY <1>2, <1>7 DEF ManagerIInv

LEMMA ManagerIInvHolds == ManagerSpec => []ManagerIInv
BY ManagerInitIInv, ManagerIInvStep, PTL DEF ManagerSpec

\* However managers, operators and deaths interleave, the ledger moves by its
\* own transactions only.
THEOREM ManagersRespectLedger == ManagerSpec => [][LedgerNext]_ledger
<1>1. ManagerIInv /\ [ManagerNext]_mvars => [LedgerNext]_ledger
  BY NextIsTransaction DEF ManagerIInv, ControlOK
<1> QED BY ManagerIInvHolds, <1>1, PTL DEF ManagerSpec

\* The managers, the restarts and the operator together never give a worker
\* two live leases.
THEOREM ManagersKeepLeaseExclusion == ManagerSpec => []OneLeasePerWorker
<1>1. ManagerIInv => OneLeasePerWorker
  BY DEF ManagerIInv, IInv
<1> QED BY ManagerIInvHolds, <1>1, PTL

\* OneChildPerWorker, for any number of managers, runs and workers: the lock
\* leaves a run to one manager, and its executor has one process for a worker;
\* of two runs, only one holds the worker's lease.
THEOREM WorkersRunOnce == ManagerSpec => []OneChildPerWorker
<1>1. ManagerIInv => OneChildPerWorker
  <2> SUFFICES ASSUME ManagerIInv, NEW p \in procs, NEW q \in procs,
                      NoManager \notin {p.owner, q.owner}, p.of.worker = q.of.worker,
                      RunOf[p.of.task] = RunOf[q.of.task] \/ (Held(p.of) /\ Held(q.of))
               PROVE  p = q
    BY DEF OneChildPerWorker
  <2>1. ManagerTypeOK /\ ManagersOK /\ LockOK /\ ProcessesOK /\ OneLeasePerWorker
    BY DEF ManagerIInv, ControlOK, IInv
  <2>2. ASSUME NEW x \in procs, x.owner # NoManager
        PROVE  /\ x.owner \in Managers /\ x.of \in tracked[x.owner] /\ x.of \in AttemptSet
               /\ lock[RunOf[x.of.task]] = x.owner
    <3>1. x.owner \in Managers /\ x.of \in AttemptSet
      BY <2>1, <2>2 DEF ManagerTypeOK, Process
    <3>2. x.of \in tracked[x.owner]
      BY <2>1, <3>1 DEF ProcessesOK
    <3>3. RunOf[x.of.task] = mgr[x.owner].run /\ mgr[x.owner].pc \in Owning
      BY <2>1, <3>1, <3>2 DEF ManagersOK, TracksOK, Owning
    <3> QED BY <2>1, <3>1, <3>2, <3>3 DEF LockOK
  <2>3. RunOf[p.of.task] = RunOf[q.of.task]
    <3>1. ASSUME Held(p.of), Held(q.of) PROVE p.of.task = q.of.task
      <4>1. p.of.task \in Tasks /\ q.of.task \in Tasks
        BY <2>2 DEF AttemptSet
      <4> QED BY <2>1, <3>1, <4>1 DEF Held, HoldsLease, OneLeasePerWorker
    <3> QED BY <3>1
  <2>4. p.owner = q.owner
    BY <2>2, <2>3
  <2>5. p.of = q.of
    BY <2>1, <2>2, <2>4 DEF ManagersOK, TracksOK
  <2> QED BY <2>1, <2>2, <2>4, <2>5 DEF ProcessesOK
<1> QED BY ManagerIInvHolds, <1>1, PTL

\* NoChildLeftBehind: run_to_completion returns, or bails, only when its
\* executor tracks no process, and a process it does not track it does not have.
THEOREM ChildrenAreStopped == ManagerSpec => []NoChildLeftBehind
<1>1. ManagerIInv => NoChildLeftBehind
  BY DEF NoChildLeftBehind, ManagerIInv, ControlOK, ManagersOK, TracksOK, ProcessesOK, Busy
<1> QED BY ManagerIInvHolds, <1>1, PTL
=============================================================================
