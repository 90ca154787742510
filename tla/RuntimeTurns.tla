----------------------------- MODULE RuntimeTurns -----------------------------
(***************************************************************************)
(* Threads, their engines and their turns: which engine a thread has, when *)
(* it is evicted, who may start a turn and how a turn ends.                *)
(*                                                                         *)
(* A thread has at most one engine in the registry of active threads.  A   *)
(* call that starts a turn (or a manual compaction) reads the thread,      *)
(* takes or builds its engine, resolves a route, reserves room in the      *)
(* mailbox of that engine, and only then claims the thread.  Between two   *)
(* of these steps other calls start turns, edit the thread or build the    *)
(* engines of other threads, which evicts idle ones.  The claim belongs to *)
(* a monitor that reads the engine's events up to the end of the turn.     *)
(*                                                                         *)
(* Items, usage, routes, steering and approvals are left out; tool calls   *)
(* and the event log are the subject of RuntimeCalls.  The execution       *)
(* settings of a thread are its workspace, the one setting that evicts.    *)
(***************************************************************************)
EXTENDS Queues, Naturals, Sequences, FiniteSets

CONSTANTS
    Threads,
    Requests,        \* calls of start_turn and compact_thread
    Workspaces,
    MaxActive,       \* max_active_threads
    TurnBound,       \* bound of the model: turns
    EngineBound,     \* bound of the model: engines built
    IncidentBound    \* bound of the model: edits of a workspace, failed writes of
                     \* monitors, failed cleanups and deaths of the process, together

ASSUME TurnsAssumption ==
    /\ Workspaces # {} /\ "free" \notin Requests
    /\ MaxActive \in Nat /\ TurnBound \in Nat /\ EngineBound \in Nat
    /\ IncidentBound \in Nat

Turns   == 1..TurnBound
Engines == 1..EngineBound
None    == 0              \* no turn, no engine

VARIABLES
    record,    \* threads/<id>.json: [workspace, latest] (latest_turn_id)
    turn,      \* turns/<id>.json: the status of each turn, "None" before it exists
    active,    \* active.engines: [engine, turn, stopping] of each thread
    lru,       \* active.lru
    engine,    \* [state, workspace, mail, events] of each engine
    leaving,   \* engines removed from the registry, Shutdown not sent yet
    loader,    \* holder of the engine_load lock, or "free"
    request,   \* [pc, thread, seen, engine, out] of each call
    monitor,   \* [pc, thread, engine] of each turn
    lost,      \* history: turns whose terminal record could not be saved, or that
               \* were not accepted and whose record could not be removed
    incidents

disk    == <<record, turn>>
memory  == <<active, lru, leaving, loader>>
vars    == <<disk, memory, engine, request, monitor, lost, incidents>>

\* "Reported" is the status in the engine's TurnComplete: completed, failed or
\* interrupted.
Terminal == {"Reported", "Failed", "Interrupted"}

Home == CHOOSE w \in Workspaces : TRUE

Incident == incidents < IncidentBound /\ incidents' = incidents + 1

NoEntry   == [engine |-> None, turn |-> None, stopping |-> FALSE]
NoEngine  == [state |-> "new", workspace |-> Home, mail |-> <<>>, events |-> <<>>]
NoRequest == [pc |-> "idle"]
NoMonitor == [pc |-> "none"]

-----------------------------------------------------------------------------
(* The registry.                                                           *)

Loaded   == {t \in Threads : active[t].engine # None}
Claimed  == {t \in Threads : active[t].turn # None}

Without(s, t) == Retain(s, Threads \ {t})

\* touch_lru
Touched(s, t) == Append(Without(s, t), t)

\* Mutation: a thread is evicted whether or not it has a turn.
EvictedAny ==
    IF MaxActive = 0 \/ Cardinality(Loaded) < MaxActive \/ lru = <<>> THEN {} ELSE {Head(lru)}

\* enforce_lru_capacity: the least recently used thread without a turn goes
\* when the registry is full.
Evicted ==
    LET Idle == {i \in DOMAIN lru : lru[i] \notin Claimed}
    IN  IF MaxActive = 0 \/ Cardinality(Loaded) < MaxActive \/ Idle = {} THEN {}
        ELSE {lru[CHOOSE i \in Idle : \A j \in Idle : i <= j]}

\* What the scan leaves of the order: the claimed threads it passed are last.
Scanned(out) ==
    IF out = {} THEN lru
    ELSE LET i == CHOOSE j \in DOMAIN lru : lru[j] \in out
         IN  SubSeq(lru, i + 1, Len(lru)) \o SubSeq(lru, 1, i - 1)

-----------------------------------------------------------------------------
(* A call that starts a turn.                                              *)

Goto(q, new) == request' = [request EXCEPT ![q] = new]
Leave(q)     == Goto(q, NoRequest)

\* get_thread
Begin(q) ==
    /\ request[q].pc = "idle"
    /\ \E t \in Threads :
         Goto(q, [pc |-> "ensure", thread |-> t, seen |-> record[t], engine |-> None,
                  out |-> None])
    /\ UNCHANGED <<disk, memory, engine, monitor, lost, incidents>>

\* ensure_engine_loaded: a registered engine is taken, at once or after the wait
\* for the build lock; otherwise one is built from the record of the moment.
TakeEngine(q) ==
    LET t == request[q].thread
    IN  /\ request[q].pc = "ensure"
        /\ active[t].engine # None
        /\ Goto(q, [request[q] EXCEPT !.pc = "check", !.engine = active[t].engine])
        /\ lru' = Touched(lru, t)
        /\ UNCHANGED <<disk, active, leaving, loader, engine, monitor, lost, incidents>>

BuildEngine(q) ==
    LET t == request[q].thread
    IN  /\ request[q].pc = "ensure"
        /\ loader \in {"free", q}
        /\ active[t].engine = None
        /\ \E e \in Engines :
             /\ engine[e].state = "new"
             /\ \A d \in 1..(e - 1) : engine[d].state # "new"
             /\ engine' = [engine EXCEPT ![e].state = "up", ![e].workspace = record[t].workspace]
             /\ Goto(q, [request[q] EXCEPT !.pc = "install", !.engine = e])
        /\ loader' = q
        /\ UNCHANGED <<disk, active, lru, leaving, monitor, lost, incidents>>

\* Mutation: the engine is registered whatever happened to the thread since.
CurrentAnyway(q) == TRUE

\* The record the engine was built from is the latest one.
Current(q) ==
    record[request[q].thread].workspace = engine[request[q].engine].workspace

\* The engine is registered, and another one leaves if there is no room for both.
InstallEngine(q) ==
    LET t == request[q].thread
    IN  /\ request[q].pc = "install"
        /\ Current(q)
        /\ active' = [u \in Threads |->
                        IF u = t THEN [NoEntry EXCEPT !.engine = request[q].engine]
                        ELSE IF u \in Evicted THEN NoEntry ELSE active[u]]
        /\ lru' = Touched(Scanned(Evicted), t)
        /\ \/ /\ Evicted = {}
              /\ Goto(q, [request[q] EXCEPT !.pc = "check"])
              /\ loader' = "free"
           \/ \E u \in Evicted :
              /\ Goto(q, [request[q] EXCEPT !.pc = "evict", !.out = active[u].engine])
              /\ UNCHANGED loader
        /\ UNCHANGED <<disk, leaving, engine, monitor, lost, incidents>>

\* The thread was edited meanwhile: the engine is shut down, another one is built.
DiscardEngine(q) ==
    /\ request[q].pc = "install"
    /\ ~Current(q)
    /\ engine' = [engine EXCEPT ![request[q].engine].state = "down"]
    /\ Goto(q, [request[q] EXCEPT !.pc = "ensure", !.engine = None])
    /\ UNCHANGED <<disk, memory, monitor, lost, incidents>>

\* Mutation: only an empty mailbox takes a message.
PostedToIdle(e, n) ==
    IF engine[e].state = "up" /\ engine[e].mail = <<>> THEN <<n>> ELSE engine[e].mail

\* The mailbox of an engine after a message to it; a closed one drops it.
Posted(e, n) == IF engine[e].state = "up" THEN Append(engine[e].mail, n) ELSE engine[e].mail

\* The evicted engine has its Shutdown before the build lock is released.
EvictEngine(q) ==
    /\ request[q].pc = "evict"
    /\ engine' = [engine EXCEPT ![request[q].out].mail = Posted(request[q].out, None)]
    /\ loader' = "free"
    /\ Goto(q, [request[q] EXCEPT !.pc = "check", !.out = None])
    /\ UNCHANGED <<disk, active, lru, leaving, monitor, lost, incidents>>

\* The first look at the claim; then the route is resolved.
Check(q) ==
    /\ request[q].pc = "check"
    /\ IF active[request[q].thread].turn # None THEN Leave(q)
       ELSE Goto(q, [request[q] EXCEPT !.pc = "reserve"])
    /\ UNCHANGED <<disk, memory, engine, monitor, lost, incidents>>

\* reserve_owned fails once the mailbox is closed.
Reserve(q) ==
    /\ request[q].pc = "reserve"
    /\ IF engine[request[q].engine].state = "down" THEN Leave(q)
       ELSE Goto(q, [request[q] EXCEPT !.pc = "claim"])
    /\ UNCHANGED <<disk, memory, engine, monitor, lost, incidents>>

\* thread_execution_state_matches
SameState(seen, now) == seen = now

MayClaim(q) ==
    LET t == request[q].thread
    IN  /\ active[t].engine # None
        /\ active[t].turn = None
        /\ SameState(request[q].seen, record[t])

\* The claim, the records and the message in one critical section.  The message
\* goes to the engine of the reservation; one that closed meanwhile drops it.
Claim(q) ==
    LET t == request[q].thread
        e == request[q].engine
    IN  /\ request[q].pc = "claim"
        /\ MayClaim(q)
        /\ \E n \in Turns :
             /\ turn[n] = "None"
             /\ \A k \in 1..(n - 1) : turn[k] # "None"
             /\ turn' = [turn EXCEPT ![n] = "InProgress"]
             /\ record' = [record EXCEPT ![t].latest = n]
             /\ active' = [active EXCEPT ![t].turn = n, ![t].stopping = FALSE]
             /\ engine' = [engine EXCEPT ![e].mail = Posted(e, n)]
             /\ monitor' = [monitor EXCEPT ![n] = [pc |-> "watch", thread |-> t, engine |-> e]]
        /\ lru' = Touched(lru, t)
        /\ Leave(q)
        /\ UNCHANGED <<leaving, loader, lost, incidents>>

\* Refused, or the records could not be saved and were removed again.
ClaimFails(q) ==
    /\ request[q].pc = "claim"
    /\ Leave(q)
    /\ UNCHANGED <<disk, memory, engine, monitor, lost, incidents>>

\* The record of the turn was saved, that of the thread was not, and
\* cleanup_unaccepted_turn_records failed as well: the claim is given back, the
\* record of the turn stays.
CleanupFails(q) ==
    /\ request[q].pc = "claim"
    /\ MayClaim(q)
    /\ Incident
    /\ \E n \in Turns :
         /\ turn[n] = "None"
         /\ \A k \in 1..(n - 1) : turn[k] # "None"
         /\ turn' = [turn EXCEPT ![n] = "InProgress"]
         /\ lost' = lost \cup {n}
    /\ Leave(q)
    /\ UNCHANGED <<record, memory, engine, monitor>>

Request(q) ==
    \/ TakeEngine(q) \/ BuildEngine(q) \/ InstallEngine(q) \/ DiscardEngine(q)
    \/ EvictEngine(q) \/ Check(q) \/ Reserve(q) \/ Claim(q) \/ ClaimFails(q)
    \/ CleanupFails(q)

-----------------------------------------------------------------------------
(* Other calls.                                                            *)

\* The engine an edit of the thread removes from the registry, if it has one.
Removed(t) == {active[t].engine} \ {None}

\* update_thread with another workspace.
UpdateThread(t) ==
    /\ Incident
    /\ active[t].turn = None
    /\ \E w \in Workspaces \ {record[t].workspace} :
         record' = [record EXCEPT ![t].workspace = w]
    /\ lru' = Without(lru, t)
    /\ leaving' = leaving \cup Removed(t)
    /\ active' = [active EXCEPT ![t] = NoEntry]
    /\ UNCHANGED <<turn, loader, engine, request, monitor, lost>>

\* interrupt_turn; cancelling makes the engine end the turn early.
InterruptTurn(t) ==
    /\ active[t].turn # None /\ ~active[t].stopping
    /\ active' = [active EXCEPT ![t].stopping = TRUE]
    /\ lru' = Touched(lru, t)
    /\ UNCHANGED <<disk, leaving, loader, engine, request, monitor, lost, incidents>>

-----------------------------------------------------------------------------
(* Engines.                                                                *)

\* An evicted engine is sent its Shutdown.
Stop(e) ==
    /\ e \in leaving
    /\ leaving' = leaving \ {e}
    /\ engine' = [engine EXCEPT ![e].mail = Posted(e, None)]
    /\ UNCHANGED <<disk, active, lru, loader, request, monitor, lost, incidents>>

\* One turn from its message to its TurnComplete.
RunTurn(e) ==
    /\ engine[e].state = "up" /\ engine[e].mail # <<>> /\ Head(engine[e].mail) # None
    /\ engine' = [engine EXCEPT ![e].mail = Tail(@),
                                ![e].events = Append(@, Head(engine[e].mail))]
    /\ UNCHANGED <<disk, memory, request, monitor, lost, incidents>>

Shutdown(e) ==
    /\ engine[e].state = "up" /\ engine[e].mail # <<>> /\ Head(engine[e].mail) = None
    /\ engine' = [engine EXCEPT ![e].state = "down", ![e].mail = <<>>]
    /\ UNCHANGED <<disk, memory, request, monitor, lost, incidents>>

Engine(e) == Stop(e) \/ RunTurn(e) \/ Shutdown(e)

-----------------------------------------------------------------------------
(* The monitor of a turn.                                                  *)

Live == {"watch", "publish", "release", "failing", "evict"}

Owns(n) == active[monitor[n].thread].turn = n
Interrupted(n) == Owns(n) /\ active[monitor[n].thread].stopping

\* monitor_turn reads up to a TurnComplete, whatever its status.
Observe(n) ==
    LET e == monitor[n].engine
    IN  /\ monitor[n].pc = "watch"
        /\ engine[e].events # <<>>
        /\ engine' = [engine EXCEPT ![e].events = Tail(@)]
        /\ monitor' = [monitor EXCEPT ![n].pc = "publish"]
        /\ UNCHANGED <<disk, memory, request, lost, incidents>>

ChannelClosed(n) ==
    engine[monitor[n].engine].events = <<>> /\ engine[monitor[n].engine].state = "down"

\* Mutation: the claim is given up before the terminal record is saved.
FailEvicting(n) ==
    /\ monitor' = [monitor EXCEPT ![n].pc = "failing"]
    /\ active' = IF Owns(n) THEN [active EXCEPT ![monitor[n].thread] = NoEntry] ELSE active

\* The failure path first bars the turn from being steered.
Fail(n) ==
    /\ monitor' = [monitor EXCEPT ![n].pc = "failing"]
    /\ active' = IF Owns(n) THEN [active EXCEPT ![monitor[n].thread].stopping = TRUE] ELSE active

\* The engine is gone before the end of the turn.
ObserveClosed(n) ==
    /\ monitor[n].pc = "watch"
    /\ ChannelClosed(n)
    /\ IF Interrupted(n)
         THEN /\ monitor' = [monitor EXCEPT ![n].pc = "publish"]
              /\ UNCHANGED active
         ELSE Fail(n)
    /\ UNCHANGED <<disk, lru, leaving, loader, engine, request, lost, incidents>>

\* A write failed, at any point before the claim is released.
MonitorFails(n) ==
    /\ monitor[n].pc \in {"watch", "publish", "release"}
    /\ Incident
    /\ Fail(n)
    /\ UNCHANGED <<disk, lru, leaving, loader, engine, request, lost>>

\* The last look for an interrupt, then the terminal record of the turn and of the
\* thread.
Publish(n) ==
    /\ monitor[n].pc = "publish"
    /\ turn' = [turn EXCEPT ![n] = IF Interrupted(n) THEN "Interrupted" ELSE "Reported"]
    /\ record' = [record EXCEPT ![monitor[n].thread].latest = n]
    /\ monitor' = [monitor EXCEPT ![n].pc = "release"]
    /\ UNCHANGED <<memory, engine, request, lost, incidents>>

Release(n) ==
    /\ monitor[n].pc = "release"
    /\ active' = IF Owns(n) THEN [active EXCEPT ![monitor[n].thread].turn = None,
                                                ![monitor[n].thread].stopping = FALSE] ELSE active
    /\ lru' = Touched(lru, monitor[n].thread)
    /\ monitor' = [monitor EXCEPT ![n] = NoMonitor]
    /\ UNCHANGED <<disk, leaving, loader, engine, request, lost, incidents>>

\* Mutation: the failure path overwrites a terminal record.
FailedAlways(n) == "Failed"

FailedStatus(n) == IF turn[n] = "InProgress" THEN "Failed" ELSE turn[n]

\* settle_claimed_turn_failure; when its save fails too the record stays as it is
\* until the next start of the process.
PublishFailure(n) ==
    /\ monitor[n].pc = "failing"
    /\ \/ /\ turn' = [turn EXCEPT ![n] = FailedStatus(n)]
          /\ UNCHANGED <<lost, incidents>>
       \/ /\ Incident
          /\ lost' = lost \cup {n}
          /\ UNCHANGED turn
    /\ monitor' = [monitor EXCEPT ![n].pc = "evict"]
    /\ UNCHANGED <<record, memory, engine, request>>

\* Mutation: the thread stays in the order of use.
OrderAsItIs(t) == lru

OrderWithout(t) == Without(lru, t)

EvictFailed(n) ==
    LET t == monitor[n].thread
    IN  /\ monitor[n].pc = "evict"
        /\ monitor' = [monitor EXCEPT ![n] = NoMonitor]
        /\ IF Owns(n)
             THEN /\ lru' = OrderWithout(t)
                  /\ active' = [active EXCEPT ![t] = NoEntry]
                  /\ leaving' = leaving \cup {active[t].engine}
             ELSE UNCHANGED <<lru, active, leaving>>
        /\ UNCHANGED <<disk, loader, engine, request, lost, incidents>>

Monitor(n) ==
    \/ Observe(n) \/ ObserveClosed(n) \/ Publish(n) \/ Release(n)
    \/ PublishFailure(n) \/ EvictFailed(n)

-----------------------------------------------------------------------------
(* The process dies and is started again: recover_interrupted_state.       *)

Restart ==
    /\ Incident
    /\ turn' = [n \in Turns |-> IF turn[n] = "InProgress" THEN "Interrupted" ELSE turn[n]]
    /\ active' = [t \in Threads |-> NoEntry]
    /\ lru' = <<>> /\ leaving' = {} /\ loader' = "free"
    /\ engine' = [e \in Engines |->
                    IF engine[e].state = "new" THEN engine[e]
                    ELSE [NoEngine EXCEPT !.state = "down"]]
    /\ request' = [q \in Requests |-> NoRequest]
    /\ monitor' = [n \in Turns |-> NoMonitor]
    /\ UNCHANGED <<record, lost>>

Init ==
    /\ record = [t \in Threads |-> [workspace |-> Home, latest |-> None]]
    /\ turn = [n \in Turns |-> "None"]
    /\ active = [t \in Threads |-> NoEntry]
    /\ lru = <<>> /\ leaving = {} /\ loader = "free"
    /\ engine = [e \in Engines |-> NoEngine]
    /\ request = [q \in Requests |-> NoRequest]
    /\ monitor = [n \in Turns |-> NoMonitor]
    /\ lost = {}
    /\ incidents = 0

Next ==
    \/ \E q \in Requests : Begin(q) \/ Request(q)
    \/ \E t \in Threads : UpdateThread(t) \/ InterruptTurn(t)
    \/ \E e \in Engines : Engine(e)
    \/ \E n \in Turns : Monitor(n) \/ MonitorFails(n)
    \/ Restart

Spec == Init /\ [][Next]_vars

-----------------------------------------------------------------------------
(* Properties.                                                             *)

Status      == Terminal \cup {"None", "InProgress"}
ThreadState == [workspace : Workspaces, latest : Turns \cup {None}]
Entry       == [engine : Engines \cup {None}, turn : Turns \cup {None}, stopping : BOOLEAN]
EngineState == [state : {"new", "up", "down"}, workspace : Workspaces,
                mail : Seq(Turns \cup {None}), events : Seq(Turns)]
Calling     == [pc : {"ensure", "install", "evict", "check", "reserve", "claim"},
                thread : Threads, seen : ThreadState,
                engine : Engines \cup {None}, out : Engines \cup {None}]
Watching    == [pc : Live, thread : Threads, engine : Engines]

\* Every variable has its type; in particular only engines that exist are sent
\* their Shutdown (update_thread, settle_claimed_turn_failure).
TypeOK ==
    /\ record \in [Threads -> ThreadState]
    /\ turn \in [Turns -> Status]
    /\ active \in [Threads -> Entry]
    /\ lru \in Seq(Threads)
    /\ leaving \subseteq Engines
    /\ loader \in Requests \cup {"free"}
    /\ engine \in [Engines -> EngineState]
    /\ request \in [Requests -> {NoRequest} \cup Calling]
    /\ monitor \in [Turns -> {NoMonitor} \cup Watching]
    /\ lost \subseteq Turns
    /\ incidents \in Nat

\* A thread is claimed by a turn exactly as long as the turn has a monitor:
\* no eviction, edit of the thread or engine that was built meanwhile takes the
\* claim away, and none outlives its monitor and blocks the thread.
ClaimHasMonitor ==
    \A t \in Threads, n \in Turns :
       active[t].turn = n <=> monitor[n].pc \in Live /\ monitor[n].thread = t

\* A thread has one turn in progress, the claimed one, however many calls start
\* turns at once.  Two failures leave another beside it, for good until the next
\* start of the process: the terminal record of a turn cannot be saved
\* (settle_claimed_turn_failure), or the record of a turn that was not accepted
\* cannot be removed (cleanup_unaccepted_turn_records).
OneTurnInProgress ==
    \A n \in Turns : turn[n] = "InProgress" => (monitor[n].pc \in Live /\ Owns(n)) \/ n \in lost

\* The order of use names every thread that has an engine, once, and no other:
\* the eviction scan neither misses an engine nor stops at a ghost.
OrderMatchesRegistry ==
    /\ {lru[i] : i \in DOMAIN lru} = Loaded
    /\ \A i, j \in DOMAIN lru : lru[i] = lru[j] => i = j

\* The engine a thread has was built for the workspace the thread has, although
\* engines are built without a lock and edits evict them.
EngineInWorkspace ==
    \A t \in Loaded : engine[active[t].engine].workspace = record[t].workspace

\* The events a monitor reads are those of its own turn: it never takes the end
\* of an earlier turn, left behind in an engine whose monitor failed, for its own.
NoStaleEvents ==
    \A n \in Turns :
       monitor[n].pc = "watch" =>
         LET events == engine[monitor[n].engine].events
         IN  \A i \in DOMAIN events : events[i] = n

\* A terminal record is final: the failure path of a monitor and the recovery
\* after a crash leave it alone.
TerminalIsFinal == [][\A n \in Turns : turn[n] \in Terminal => turn'[n] = turn[n]]_vars

\* An accepted turn is never forgotten, also when its engine was evicted between
\* the reservation and the claim: while its monitor watches, the message waits in
\* the mailbox, or the end of the turn in the events, or the channel is closed.
AcceptedTurnIsHeld ==
    \A n \in Turns :
       monitor[n].pc = "watch" =>
         LET e == engine[monitor[n].engine]
         IN  \/ \E i \in DOMAIN e.mail : e.mail[i] = n
             \/ e.events # <<>>
             \/ e.state = "down"
=============================================================================
