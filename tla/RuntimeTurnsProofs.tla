------------------------- MODULE RuntimeTurnsProofs -------------------------
(***************************************************************************)
(* Proofs about RuntimeTurns for every set of threads and calls, every     *)
(* limit of the registry and every number of turns, engines and incidents. *)
(*                                                                         *)
(* The inductive invariant adds to the properties what each actor may rely *)
(* on between its steps: a call that builds an engine holds the build      *)
(* lock, so that nobody registers another engine of its thread; an engine  *)
(* serves one thread, whoever holds it; and a monitor knows how far the    *)
(* record of its turn is.                                                  *)
(***************************************************************************)
EXTENDS RuntimeTurns, QueueProofs, WellFoundedInduction, NaturalsInduction, TLAPS

USE DEF disk, memory, vars

\* A call past ensure_engine_loaded has an engine that was built; one that has
\* built an engine holds the build lock until it has registered it and sent the
\* evicted engine its Shutdown.
CallOK(q) ==
    /\ request[q].pc \notin {"idle", "ensure"} =>
          request[q].engine \in Engines /\ engine[request[q].engine].state # "new"
    /\ request[q].pc \in {"install", "evict"} => loader = q
    /\ request[q].pc = "install" => active[request[q].thread].engine = None
    /\ request[q].pc = "evict" => request[q].out \in Engines

\* A claimed thread has an engine, and a registered engine was built.
EntryOK(t) ==
    /\ active[t].turn # None => active[t].engine # None
    /\ active[t].engine # None => engine[active[t].engine].state # "new"

\* A monitor knows how far the record of its turn is.
MonitorOK(n) ==
    /\ turn[n] = "None" => monitor[n] = NoMonitor
    /\ monitor[n].pc \in Live => engine[monitor[n].engine].state # "new"
    /\ monitor[n].pc \in {"watch", "publish"} => turn[n] = "InProgress"
    /\ monitor[n].pc = "release" => turn[n] \in Terminal
    /\ monitor[n].pc = "evict" => turn[n] # "InProgress" \/ n \in lost

\* The engine e serves the thread t: for a call, in the registry, or for a monitor.
Serves(e, t) ==
    \/ \E q \in Requests : /\ request[q].pc \notin {"idle", "ensure"}
                           /\ request[q].engine = e /\ request[q].thread = t
    \/ active[t].engine = e
    \/ \E n \in Turns : monitor[n].pc \in Live /\ monitor[n].engine = e /\ monitor[n].thread = t

EngineOfOneThread ==
    \A e \in Engines, t, u \in Threads : Serves(e, t) /\ Serves(e, u) => t = u

Actors ==
    /\ \A q \in Requests : CallOK(q)
    /\ \A t \in Threads : EntryOK(t)
    /\ \A n \in Turns : MonitorOK(n)

IInv ==
    /\ TypeOK /\ Actors /\ EngineOfOneThread
    /\ ClaimHasMonitor /\ OneTurnInProgress /\ OrderMatchesRegistry
    /\ EngineInWorkspace /\ AcceptedTurnIsHeld

-----------------------------------------------------------------------------
(* Types.                                                                  *)

LEMMA Constants ==
    /\ None \notin Turns /\ None \notin Engines
    /\ Home \in Workspaces
    /\ NoEntry \in Entry /\ NoEntry.engine = None /\ NoEntry.turn = None /\ ~NoEntry.stopping
    /\ NoEngine \in EngineState /\ NoEngine.state = "new"
    /\ NoRequest.pc = "idle" /\ NoMonitor.pc = "none" /\ "none" \notin Live
<1>1. Home \in Workspaces
  BY TurnsAssumption DEF Home
<1>2. None \notin Turns /\ None \notin Engines
  BY TurnsAssumption DEF None, Turns, Engines
<1>3. NoEngine \in EngineState /\ NoEngine.state = "new"
  BY <1>1 DEF NoEngine, EngineState
<1> QED BY <1>1, <1>2, <1>3 DEF NoEntry, NoRequest, NoMonitor, Entry, Live

(* The smallest member of a set of positions.                                *)
LEMMA Smallest ==
    ASSUME NEW S \in SUBSET Nat, S # {}
    PROVE  \E i \in S : \A j \in S : i <= j
<1>1. PICK x \in S : \A y \in S : ~(<<y, x>> \in OpToRel(<, Nat))
  BY NatLessThanWellFounded, WFMin
<1>2. \A y \in S : ~(y < x)
  BY <1>1 DEF OpToRel
<1> QED BY <1>2

-----------------------------------------------------------------------------
(* The order of use.                                                       *)

LEMMA WithoutFacts ==
    ASSUME NEW s \in Seq(Threads), NEW t
    PROVE  /\ Without(s, t) \in Seq(Threads)
           /\ Elements(Without(s, t)) = Elements(s) \ {t}
           /\ Distinct(s) => Distinct(Without(s, t))
<1>1. Elements(s) \subseteq Threads
  BY DEF Elements
<1> QED BY <1>1, RetainFacts DEF Without

LEMMA TouchedFacts ==
    ASSUME NEW s \in Seq(Threads), NEW t \in Threads
    PROVE  /\ Touched(s, t) \in Seq(Threads)
           /\ Elements(Touched(s, t)) = Elements(s) \cup {t}
           /\ Distinct(s) => Distinct(Touched(s, t))
<1>1. /\ Without(s, t) \in Seq(Threads)
      /\ Elements(Without(s, t)) = Elements(s) \ {t}
      /\ Distinct(s) => Distinct(Without(s, t))
  BY WithoutFacts
<1>2. /\ Append(Without(s, t), t) \in Seq(Threads)
      /\ Elements(Append(Without(s, t), t)) = Elements(Without(s, t)) \cup {t}
      /\ Distinct(Without(s, t)) => Distinct(Append(Without(s, t), t))
  BY <1>1, AppendFacts
<1> QED BY <1>1, <1>2 DEF Touched

LEMMA OrderFacts ==
    ASSUME lru \in Seq(Threads)
    PROVE  OrderMatchesRegistry <=> Elements(lru) = Loaded /\ Distinct(lru)
<1>1. DOMAIN lru = 1..Len(lru)
  OBVIOUS
<1> QED BY <1>1 DEF OrderMatchesRegistry, Elements, Distinct

LEMMA OrderTouched ==
    ASSUME TypeOK, OrderMatchesRegistry, NEW t \in Loaded
    PROVE  /\ Touched(lru, t) \in Seq(Threads) /\ Distinct(Touched(lru, t))
           /\ Elements(Touched(lru, t)) = Loaded
<1>1. lru \in Seq(Threads) /\ Elements(lru) = Loaded /\ Distinct(lru) /\ t \in Threads
  BY OrderFacts DEF TypeOK, Loaded
<1>2. /\ Touched(lru, t) \in Seq(Threads) /\ Distinct(Touched(lru, t))
      /\ Elements(Touched(lru, t)) = Elements(lru) \cup {t}
  BY <1>1, TouchedFacts
<1> QED BY <1>1, <1>2

(* The eviction scan finds a registered thread without a turn, or nothing,   *)
(* and leaves every other thread in the order of use.                        *)
LEMMA EvictedFacts ==
    ASSUME TypeOK, OrderMatchesRegistry
    PROVE  /\ Evicted = {} \/ \E u \in Loaded \ Claimed : Evicted = {u}
           /\ Scanned(Evicted) \in Seq(Threads) /\ Distinct(Scanned(Evicted))
           /\ Elements(Scanned(Evicted)) = Loaded \ Evicted
<1>1. lru \in Seq(Threads) /\ Elements(lru) = Loaded /\ Distinct(lru)
  BY OrderFacts DEF TypeOK
<1>2. Len(lru) \in Nat /\ DOMAIN lru = 1..Len(lru)
  BY <1>1
<1>3. CASE Evicted = {}
  BY <1>1, <1>3 DEF Scanned
<1>4. CASE Evicted # {}
  <2> DEFINE Quiet == {i \in DOMAIN lru : lru[i] \notin Claimed}
             least == CHOOSE i \in Quiet : \A j \in Quiet : i <= j
  <2>1. Quiet # {} /\ Evicted = {lru[least]}
    BY <1>4 DEF Evicted
  <2>2. least \in 1..Len(lru) /\ lru[least] \notin Claimed
    <3>1. Quiet \in SUBSET Nat
      BY <1>2
    <3>2. least \in Quiet
      <4> HIDE DEF Quiet
      <4> QED BY <2>1, <3>1, Smallest
    <3> QED BY <3>2, <1>2
  <2> HIDE DEF least
  <2>3. lru[least] \in Loaded
    BY <2>2, <1>1 DEF Elements
  <2> DEFINE i == CHOOSE j \in DOMAIN lru : lru[j] \in Evicted
  <2>4. i \in 1..Len(lru) /\ lru[i] = lru[least]
    BY <2>1, <2>2, <1>2
  <2>5. Scanned(Evicted) = SubSeq(lru, i + 1, Len(lru)) \o SubSeq(lru, 1, i - 1)
    BY <1>4 DEF Scanned
  <2> HIDE DEF i
  <2>6. /\ Scanned(Evicted) \in Seq(Threads) /\ Distinct(Scanned(Evicted))
        /\ Elements(Scanned(Evicted)) = Elements(lru) \ {lru[i]}
    BY <2>4, <2>5, <1>1, RotateFacts
  <2> QED BY <2>1, <2>2, <2>3, <2>4, <2>6, <1>1
<1> QED BY <1>3, <1>4

-----------------------------------------------------------------------------
(* Steps that leave the registry alone.                                    *)

(* Engines pass from one holder to another of the same thread.               *)
LEMMA ServesFrame ==
    ASSUME EngineOfOneThread,
           \A q \in Requests : request'[q].pc \notin {"idle", "ensure"} =>
              Serves(request'[q].engine, request'[q].thread),
           \A t \in Threads : active'[t].engine # None => Serves(active'[t].engine, t),
           \A n \in Turns : monitor'[n].pc \in Live =>
              Serves(monitor'[n].engine, monitor'[n].thread)
    PROVE  EngineOfOneThread'
<1>1. ASSUME NEW e \in Engines, NEW t \in Threads, Serves(e, t)' PROVE Serves(e, t)
  <2>1. e # None
    BY Constants
  <2>2. CASE \E q \in Requests : /\ request'[q].pc \notin {"idle", "ensure"}
                                 /\ request'[q].engine = e /\ request'[q].thread = t
    BY <2>2
  <2>3. CASE active'[t].engine = e
    BY <2>1, <2>3
  <2>4. CASE \E n \in Turns : /\ monitor'[n].pc \in Live
                              /\ monitor'[n].engine = e /\ monitor'[n].thread = t
    BY <2>4
  <2> QED BY <1>1, <2>2, <2>3, <2>4 DEF Serves
<1> QED BY <1>1 DEF EngineOfOneThread

(* What holds an engine serves its thread.                                   *)
LEMMA Holders ==
    /\ \A q \in Requests : request[q].pc \notin {"idle", "ensure"} =>
          Serves(request[q].engine, request[q].thread)
    /\ \A t \in Threads : active[t].engine # None => Serves(active[t].engine, t)
    /\ \A n \in Turns : monitor[n].pc \in Live => Serves(monitor[n].engine, monitor[n].thread)
BY DEF Serves

(* A call goes on, or leaves; the order of use may change with it.           *)
LEMMA CallStep ==
    ASSUME IInv, NEW q \in Requests, NEW new \in {NoRequest} \cup Calling,
           request' = [request EXCEPT ![q] = new],
           new.pc \notin {"install", "evict"},
           new.pc \notin {"idle", "ensure"} =>
              /\ new.engine \in Engines /\ engine[new.engine].state # "new"
              /\ Serves(new.engine, new.thread),
           lru' \in Seq(Threads) /\ Elements(lru') = Loaded /\ Distinct(lru'),
           UNCHANGED <<disk, active, leaving, loader, engine, monitor, lost, incidents>>
    PROVE  IInv'
<1>1. TypeOK /\ Actors
  BY DEF IInv
<1>2. TypeOK'
  BY <1>1 DEF TypeOK
<1>3. request'[q] = new /\ \A p \in Requests \ {q} : request'[p] = request[p]
  BY <1>1 DEF TypeOK
<1>4. Actors'
  <2>1. ASSUME NEW p \in Requests PROVE CallOK(p)'
    BY <1>1, <1>3 DEF Actors, CallOK
  <2>2. (\A t \in Threads : EntryOK(t)') /\ \A n \in Turns : MonitorOK(n)'
    BY <1>1 DEF Actors, EntryOK, MonitorOK
  <2> QED BY <2>1, <2>2 DEF Actors
<1>5. EngineOfOneThread'
  <2>1. \A p \in Requests : request'[p].pc \notin {"idle", "ensure"} =>
           Serves(request'[p].engine, request'[p].thread)
    BY <1>3, Holders
  <2> QED BY <2>1, Holders, ServesFrame DEF IInv
<1>6. OrderMatchesRegistry'
  <2>1. Loaded' = Loaded
    BY DEF Loaded
  <2> QED BY <2>1 DEF OrderMatchesRegistry, Elements, Distinct
<1>7. (ClaimHasMonitor /\ OneTurnInProgress /\ EngineInWorkspace /\ AcceptedTurnIsHeld)'
  BY DEF IInv, ClaimHasMonitor, OneTurnInProgress, Owns, EngineInWorkspace, Loaded,
         AcceptedTurnIsHeld
<1> QED BY <1>2, <1>4, <1>5, <1>6, <1>7 DEF IInv

(* An engine takes a message, runs a turn or stops; the call that made it do *)
(* so goes on with it.                                                       *)
LEMMA EngineStep ==
    ASSUME IInv, NEW e \in Engines, NEW new \in EngineState,
           engine' = [engine EXCEPT ![e] = new],
           new.state = engine[e].state \/ (engine[e].state # "new" /\ new.state = "down"),
           new.workspace = engine[e].workspace,
           new.state # "down" =>
              /\ engine[e].events # <<>> => new.events # <<>>
              /\ \A n \in Turns : (\E i \in DOMAIN engine[e].mail : engine[e].mail[i] = n) =>
                    new.events # <<>> \/ \E i \in DOMAIN new.mail : new.mail[i] = n,
           request' \in [Requests -> {NoRequest} \cup Calling],
           loader' \in Requests \cup {"free"},
           \A q \in Requests : CallOK(q)',
           \A q \in Requests : request'[q].pc \notin {"idle", "ensure"} =>
              Serves(request'[q].engine, request'[q].thread),
           leaving' \subseteq Engines,
           UNCHANGED <<disk, active, lru, monitor, lost, incidents>>
    PROVE  IInv'
<1>1. TypeOK /\ Actors
  BY DEF IInv
<1>2. TypeOK'
  BY <1>1 DEF TypeOK
<1>3. engine'[e] = new /\ \A d \in Engines \ {e} : engine'[d] = engine[d]
  BY <1>1 DEF TypeOK
<1>4. \A d \in Engines : engine[d].state # "new" =>
         engine'[d].state # "new" /\ engine'[d].workspace = engine[d].workspace
  BY <1>3
<1>5. \A t \in Threads : active[t].engine # None =>
         active[t].engine \in Engines /\ engine[active[t].engine].state # "new"
  BY <1>1 DEF TypeOK, Actors, EntryOK, Entry
<1>6. \A n \in Turns : monitor[n].pc \in Live =>
         monitor[n].engine \in Engines /\ engine[monitor[n].engine].state # "new"
  BY <1>1, Constants DEF TypeOK, Actors, MonitorOK, Watching
<1>7. Actors'
  <2>1. \A t \in Threads : EntryOK(t)'
    BY <1>1, <1>4, <1>5 DEF Actors, EntryOK
  <2>2. \A n \in Turns : MonitorOK(n)'
    BY <1>1, <1>4, <1>6 DEF Actors, MonitorOK
  <2> QED BY <2>1, <2>2 DEF Actors
<1>8. EngineOfOneThread'
  BY Holders, ServesFrame DEF IInv
<1>9. (OrderMatchesRegistry /\ ClaimHasMonitor /\ OneTurnInProgress)'
  BY DEF IInv, OrderMatchesRegistry, Loaded, ClaimHasMonitor, OneTurnInProgress, Owns
<1>10. EngineInWorkspace'
  BY <1>4, <1>5 DEF IInv, EngineInWorkspace, Loaded
<1>11. AcceptedTurnIsHeld'
  <2> SUFFICES ASSUME NEW n \in Turns, monitor[n].pc = "watch"
               PROVE  LET d == engine'[monitor[n].engine]
                      IN  (\E i \in DOMAIN d.mail : d.mail[i] = n) \/ d.events # <<>> \/ d.state = "down"
    BY DEF AcceptedTurnIsHeld
  <2>1. monitor[n].engine \in Engines
    BY <1>6 DEF Live
  <2>2. LET d == engine[monitor[n].engine]
        IN  (\E i \in DOMAIN d.mail : d.mail[i] = n) \/ d.events # <<>> \/ d.state = "down"
    BY DEF IInv, AcceptedTurnIsHeld
  <2>3. CASE monitor[n].engine # e
    BY <2>1, <2>2, <2>3, <1>3
  <2>4. CASE monitor[n].engine = e
    BY <2>2, <2>4, <1>3
  <2> QED BY <2>3, <2>4
<1> QED BY <1>2, <1>7, <1>8, <1>9, <1>10, <1>11 DEF IInv

LEMMA CallFacts ==
    ASSUME IInv, NEW q \in Requests, request[q].pc # "idle"
    PROVE  /\ request[q] \in Calling /\ request[q].thread \in Threads
           /\ request[q].pc # "ensure" =>
                /\ request[q].engine \in Engines /\ engine[request[q].engine].state # "new"
                /\ Serves(request[q].engine, request[q].thread)
<1>1. request[q] \in Calling
  BY Constants DEF IInv, TypeOK
<1>2. CallOK(q)
  BY DEF IInv, Actors
<1> QED BY <1>1, <1>2, Holders DEF Calling, CallOK

LEMMA BeginStep ==
    ASSUME IInv, NEW q \in Requests, Begin(q)
    PROVE  IInv'
<1>1. TypeOK /\ OrderMatchesRegistry
  BY DEF IInv
<1>2. PICK t \in Threads :
         Goto(q, [pc |-> "ensure", thread |-> t, seen |-> record[t], engine |-> None,
                  out |-> None])
  BY DEF Begin
<1> DEFINE new == [pc |-> "ensure", thread |-> t, seen |-> record[t], engine |-> None,
                   out |-> None]
<1>3. new \in Calling /\ new.pc = "ensure"
  BY <1>1 DEF TypeOK, Calling
<1>4. request' = [request EXCEPT ![q] = new]
  BY <1>2 DEF Goto
<1>5. UNCHANGED <<disk, active, lru, leaving, loader, engine, monitor, lost, incidents>>
  BY DEF Begin
<1>6. lru' \in Seq(Threads) /\ Elements(lru') = Loaded /\ Distinct(lru')
  BY <1>1, <1>5, OrderFacts DEF TypeOK
<1> HIDE DEF new
<1> QED BY <1>3, <1>4, <1>5, <1>6, CallStep

LEMMA TakeEngineStep ==
    ASSUME IInv, NEW q \in Requests, TakeEngine(q)
    PROVE  IInv'
<1> DEFINE t == request[q].thread
           new == [request[q] EXCEPT !.pc = "check", !.engine = active[t].engine]
<1>1. request[q] \in Calling /\ t \in Threads
  BY CallFacts DEF TakeEngine
<1>2. TypeOK /\ OrderMatchesRegistry /\ EntryOK(t)
  BY <1>1 DEF IInv, Actors
<1>3. /\ active[t].engine \in Engines /\ engine[active[t].engine].state # "new"
      /\ Serves(active[t].engine, t) /\ t \in Loaded
  BY <1>1, <1>2, Holders DEF TakeEngine, TypeOK, Entry, EntryOK, Loaded
<1>4. /\ new \in Calling /\ new.pc = "check"
      /\ new.engine = active[t].engine /\ new.thread = t
  BY <1>1, <1>3 DEF Calling
<1>5. request' = [request EXCEPT ![q] = new] /\ lru' = Touched(lru, t)
  BY DEF TakeEngine, Goto
<1>6. UNCHANGED <<disk, active, leaving, loader, engine, monitor, lost, incidents>>
  BY DEF TakeEngine
<1>7. lru' \in Seq(Threads) /\ Elements(lru') = Loaded /\ Distinct(lru')
  <2>1. t \in Loaded /\ lru' = Touched(lru, t)
    BY <1>3, <1>5
  <2> HIDE DEF t, new
  <2> QED BY <1>2, <2>1, OrderTouched
<1> HIDE DEF new, t
<1> QED BY <1>3, <1>4, <1>5, <1>6, <1>7, CallStep

(* Check, Reserve and a refused claim move the call or end it.               *)
LEMMA ForwardStep ==
    ASSUME IInv, NEW q \in Requests, Check(q) \/ Reserve(q) \/ ClaimFails(q)
    PROVE  IInv'
<1>1. TypeOK /\ OrderMatchesRegistry
  BY DEF IInv
<1>2. request[q].pc \in {"check", "reserve", "claim"}
  BY DEF Check, Reserve, ClaimFails
<1>3. /\ request[q] \in Calling /\ request[q].engine \in Engines
      /\ engine[request[q].engine].state # "new"
      /\ Serves(request[q].engine, request[q].thread)
  BY <1>2, CallFacts
<1>4. UNCHANGED <<disk, active, lru, leaving, loader, engine, monitor, lost, incidents>>
  BY DEF Check, Reserve, ClaimFails
<1>5. lru' \in Seq(Threads) /\ Elements(lru') = Loaded /\ Distinct(lru')
  BY <1>1, <1>4, OrderFacts DEF TypeOK
<1>6. PICK new \in {NoRequest, [request[q] EXCEPT !.pc = "reserve"],
                    [request[q] EXCEPT !.pc = "claim"]} :
         request' = [request EXCEPT ![q] = new]
  BY DEF Check, Reserve, ClaimFails, Goto, Leave
<1>7. CASE new = NoRequest
  BY <1>4, <1>5, <1>6, <1>7, Constants, CallStep
<1>8. CASE new # NoRequest
  <2>1. /\ new \in Calling /\ new.pc \in {"reserve", "claim"}
        /\ new.engine = request[q].engine /\ new.thread = request[q].thread
    BY <1>3, <1>6, <1>8 DEF Calling
  <2> QED BY <1>3, <1>4, <1>5, <1>6, <2>1, CallStep
<1> QED BY <1>7, <1>8

(* A record that could not be removed is left without claim and monitor.     *)
LEMMA CleanupFailsStep ==
    ASSUME IInv, NEW q \in Requests, CleanupFails(q)
    PROVE  IInv'
<1>1. TypeOK /\ Actors /\ OneTurnInProgress
  BY DEF IInv
<1>2. /\ request' = [request EXCEPT ![q] = NoRequest]
      /\ UNCHANGED <<record, active, lru, leaving, loader, engine, monitor>>
  BY DEF CleanupFails, Leave, Goto
<1>3. PICK n \in Turns : /\ turn[n] = "None" /\ turn' = [turn EXCEPT ![n] = "InProgress"]
                         /\ lost' = lost \cup {n}
  BY DEF CleanupFails
<1>4. incidents' \in Nat
  BY <1>1 DEF CleanupFails, Incident, TypeOK
<1>5. /\ turn' \in [Turns -> Status]
      /\ turn'[n] = "InProgress" /\ \A k \in Turns \ {n} : turn'[k] = turn[k]
  BY <1>1, <1>3 DEF TypeOK, Status
<1>6. /\ request' \in [Requests -> {NoRequest} \cup Calling]
      /\ request'[q] = NoRequest /\ \A p \in Requests \ {q} : request'[p] = request[p]
  BY <1>1, <1>2 DEF TypeOK
<1>7. TypeOK'
  BY <1>1, <1>2, <1>3, <1>4, <1>5, <1>6 DEF TypeOK
<1>8. Actors'
  <2>1. ASSUME NEW p \in Requests PROVE CallOK(p)'
    <3>1. CASE p = q
      BY <3>1, <1>6, Constants DEF CallOK
    <3>2. CASE p # q
      BY <3>2, <1>1, <1>2, <1>6 DEF Actors, CallOK
    <3> QED BY <3>1, <3>2
  <2>2. \A t \in Threads : EntryOK(t)'
    BY <1>1, <1>2 DEF Actors, EntryOK
  <2>3. ASSUME NEW k \in Turns PROVE MonitorOK(k)'
    <3>1. MonitorOK(k)
      BY <1>1 DEF Actors
    <3>2. CASE k = n
      <4>1. monitor'[k] = NoMonitor /\ turn'[k] = "InProgress"
        BY <3>1, <3>2, <1>2, <1>3, <1>5 DEF MonitorOK
      <4> QED BY <4>1, Constants DEF MonitorOK, NoMonitor, Live
    <3>3. CASE k # n
      BY <3>1, <3>3, <1>2, <1>3, <1>5 DEF MonitorOK
    <3> QED BY <3>2, <3>3
  <2> QED BY <2>1, <2>2, <2>3 DEF Actors
<1>9. EngineOfOneThread'
  <2>1. \A p \in Requests : request'[p].pc \notin {"idle", "ensure"} =>
           Serves(request'[p].engine, request'[p].thread)
    BY <1>6, Holders, Constants
  <2> QED BY <1>2, <2>1, Holders, ServesFrame DEF IInv
<1>10. OneTurnInProgress'
  BY <1>1, <1>2, <1>3, <1>5 DEF OneTurnInProgress, Owns
<1>11. (ClaimHasMonitor /\ OrderMatchesRegistry /\ EngineInWorkspace /\ AcceptedTurnIsHeld)'
  BY <1>2 DEF IInv, ClaimHasMonitor, OrderMatchesRegistry, EngineInWorkspace, Loaded,
              AcceptedTurnIsHeld
<1> QED BY <1>7, <1>8, <1>9, <1>10, <1>11 DEF IInv

LEMMA DiscardEngineStep ==
    ASSUME IInv, NEW q \in Requests, DiscardEngine(q)
    PROVE  IInv'
<1> DEFINE e == request[q].engine
           new == [engine[e] EXCEPT !.state = "down"]
           call == [request[q] EXCEPT !.pc = "ensure", !.engine = None]
<1>1. TypeOK /\ Actors
  BY DEF IInv
<1>2. request[q] \in Calling /\ e \in Engines /\ engine[e].state # "new"
  BY CallFacts DEF DiscardEngine
<1>3. /\ new \in EngineState /\ new.state = "down" /\ new.workspace = engine[e].workspace
      /\ engine' = [engine EXCEPT ![e] = new]
  BY <1>1, <1>2 DEF TypeOK, EngineState, DiscardEngine
<1>4. call \in Calling /\ call.pc = "ensure"
  BY <1>2 DEF Calling
<1>5. request' = [request EXCEPT ![q] = call]
  BY DEF DiscardEngine, Goto
<1>6. UNCHANGED <<disk, active, lru, leaving, loader, monitor, lost, incidents>>
  BY DEF DiscardEngine
<1> HIDE DEF call
<1>7. /\ request' \in [Requests -> {NoRequest} \cup Calling]
      /\ request'[q] = call /\ \A p \in Requests \ {q} : request'[p] = request[p]
  BY <1>1, <1>4, <1>5 DEF TypeOK
<1>8. ASSUME NEW p \in Requests
      PROVE  /\ CallOK(p)'
             /\ request'[p].pc \notin {"idle", "ensure"} =>
                  Serves(request'[p].engine, request'[p].thread)
  <2>1. CASE p = q
    BY <1>4, <1>7, <2>1 DEF CallOK
  <2>2. CASE p # q
    <3>1. CallOK(p)'
      <4> HIDE DEF e, new
      <4> QED BY <1>1, <1>2, <1>3, <1>6, <1>7, <2>2 DEF Actors, CallOK, TypeOK
    <3> QED BY <3>1, <1>7, <2>2, Holders
  <2> QED BY <2>1, <2>2
<1>9. loader' \in Requests \cup {"free"} /\ leaving' \subseteq Engines
  BY <1>1, <1>6 DEF TypeOK
<1> HIDE DEF new, e
<1> QED BY <1>2, <1>3, <1>6, <1>7, <1>8, <1>9, EngineStep

(* A message to an engine is queued, or dropped by a closed mailbox.         *)
LEMMA PostedFacts ==
    ASSUME TypeOK, NEW e \in Engines, NEW n \in Turns \cup {None}
    PROVE  LET new == [engine[e] EXCEPT !.mail = Posted(e, n)]
           IN  /\ new \in EngineState /\ new.state = engine[e].state
               /\ new.workspace = engine[e].workspace /\ new.events = engine[e].events
               /\ new.mail = Posted(e, n)
               /\ \A k : (\E i \in DOMAIN engine[e].mail : engine[e].mail[i] = k) =>
                           \E i \in DOMAIN Posted(e, n) : Posted(e, n)[i] = k
               /\ engine[e].state = "up" => \E i \in DOMAIN Posted(e, n) : Posted(e, n)[i] = n
               /\ [engine EXCEPT ![e].mail = Posted(e, n)] = [engine EXCEPT ![e] = new]
<1> DEFINE mail == engine[e].mail
<1>1. engine[e] \in EngineState /\ mail \in Seq(Turns \cup {None})
  BY DEF TypeOK, EngineState
<1>2. /\ Posted(e, n) \in Seq(Turns \cup {None})
      /\ \A k : (\E i \in DOMAIN mail : mail[i] = k) =>
                  \E i \in DOMAIN Posted(e, n) : Posted(e, n)[i] = k
      /\ engine[e].state = "up" => \E i \in DOMAIN Posted(e, n) : Posted(e, n)[i] = n
  <2>1. CASE engine[e].state = "up"
    <3>1. Posted(e, n) = Append(mail, n)
      BY <2>1 DEF Posted
    <3>2. /\ Append(mail, n) \in Seq(Turns \cup {None})
          /\ Len(mail) \in Nat /\ DOMAIN mail = 1..Len(mail)
          /\ DOMAIN Append(mail, n) = 1..(Len(mail) + 1)
          /\ \A i \in 1..Len(mail) : Append(mail, n)[i] = mail[i]
          /\ Append(mail, n)[Len(mail) + 1] = n
      BY <1>1
    <3> HIDE DEF mail
    <3>3. \A i \in 1..Len(mail) : i \in 1..(Len(mail) + 1)
      BY <3>2
    <3>4. Len(mail) + 1 \in 1..(Len(mail) + 1)
      BY <3>2
    <3> QED BY <3>1, <3>2, <3>3, <3>4
  <2>2. CASE engine[e].state # "up"
    BY <1>1, <2>2 DEF Posted
  <2> QED BY <2>1, <2>2
<1> QED BY <1>1, <1>2 DEF TypeOK, EngineState

LEMMA EvictEngineStep ==
    ASSUME IInv, NEW q \in Requests, EvictEngine(q)
    PROVE  IInv'
<1> DEFINE e == request[q].out
           new == [engine[e] EXCEPT !.mail = Posted(e, None)]
           call == [request[q] EXCEPT !.pc = "check", !.out = None]
<1>1. TypeOK /\ Actors
  BY DEF IInv
<1>2. /\ request[q] \in Calling /\ request[q].engine \in Engines
      /\ engine[request[q].engine].state # "new"
      /\ Serves(request[q].engine, request[q].thread)
  BY CallFacts DEF EvictEngine
<1>3. e \in Engines
  BY <1>1 DEF EvictEngine, Actors, CallOK
<1>4. /\ call \in Calling /\ call.pc = "check"
      /\ call.engine = request[q].engine /\ call.thread = request[q].thread
  BY <1>2 DEF Calling
<1>5. /\ new \in EngineState /\ new.state = engine[e].state
      /\ new.workspace = engine[e].workspace /\ new.events = engine[e].events
      /\ \A k : (\E i \in DOMAIN engine[e].mail : engine[e].mail[i] = k) =>
                  \E i \in DOMAIN new.mail : new.mail[i] = k
      /\ [engine EXCEPT ![e].mail = Posted(e, None)] = [engine EXCEPT ![e] = new]
  <2> HIDE DEF e
  <2> QED BY <1>1, <1>3, PostedFacts
<1>6. engine' = [engine EXCEPT ![e] = new]
  BY <1>5 DEF EvictEngine
<1>7. request' = [request EXCEPT ![q] = call] /\ loader' = "free"
  BY DEF EvictEngine, Goto
<1>8. UNCHANGED <<disk, active, lru, leaving, monitor, lost, incidents>>
  BY DEF EvictEngine
<1> HIDE DEF call, new, e
<1>9. /\ request' \in [Requests -> {NoRequest} \cup Calling]
      /\ request'[q] = call /\ \A p \in Requests \ {q} : request'[p] = request[p]
  BY <1>1, <1>4, <1>7 DEF TypeOK
<1>10. \A d \in Engines : engine[d].state # "new" => engine'[d].state # "new"
  BY <1>1, <1>3, <1>5, <1>6 DEF TypeOK
<1>11. loader = q
  BY <1>1 DEF Actors, CallOK, EvictEngine
<1>12. ASSUME NEW p \in Requests
      PROVE  /\ CallOK(p)'
             /\ request'[p].pc \notin {"idle", "ensure"} =>
                  Serves(request'[p].engine, request'[p].thread)
  <2>1. CASE p = q
    BY <1>2, <1>4, <1>9, <1>10, <2>1 DEF CallOK
  <2>2. CASE p # q
    <3>1. CallOK(p)'
      BY <1>1, <1>8, <1>9, <1>10, <1>11, <2>2 DEF Actors, CallOK
    <3> QED BY <3>1, <1>9, <2>2, Holders
  <2> QED BY <2>1, <2>2
<1>13. loader' \in Requests \cup {"free"} /\ leaving' \subseteq Engines
  BY <1>1, <1>7, <1>8 DEF TypeOK
<1> QED BY <1>3, <1>5, <1>6, <1>8, <1>9, <1>12, <1>13, EngineStep

(* The steps of an engine itself.                                            *)
LEMMA EngineSteps ==
    ASSUME IInv, NEW e \in Engines, Engine(e)
    PROVE  IInv'
<1>1. TypeOK /\ Actors
  BY DEF IInv
<1>2. UNCHANGED <<disk, active, lru, loader, request, monitor, lost, incidents>>
  BY DEF Engine, Stop, RunTurn, Shutdown
<1>3. leaving' \subseteq Engines
  BY <1>1 DEF Engine, Stop, RunTurn, Shutdown, TypeOK
<1>4. engine[e] \in EngineState
  BY <1>1 DEF TypeOK
<1>5. ASSUME NEW new \in EngineState,
             engine' = [engine EXCEPT ![e] = new],
             new.state = engine[e].state \/ (engine[e].state # "new" /\ new.state = "down"),
             new.workspace = engine[e].workspace,
             new.state # "down" =>
                /\ engine[e].events # <<>> => new.events # <<>>
                /\ \A n \in Turns : (\E i \in DOMAIN engine[e].mail : engine[e].mail[i] = n) =>
                      new.events # <<>> \/ \E i \in DOMAIN new.mail : new.mail[i] = n
      PROVE  IInv'
  <2>1. \A d \in Engines : engine[d].state # "new" => engine'[d].state # "new"
    BY <1>1, <1>5 DEF TypeOK
  <2>2. \A q \in Requests : CallOK(q)'
    BY <1>1, <1>2, <2>1 DEF Actors, CallOK
  <2>3. request' \in [Requests -> {NoRequest} \cup Calling] /\ loader' \in Requests \cup {"free"}
    BY <1>1, <1>2 DEF TypeOK
  <2>4. \A q \in Requests : request'[q].pc \notin {"idle", "ensure"} =>
              Serves(request'[q].engine, request'[q].thread)
    BY <1>2, Holders
  <2> QED BY <1>2, <1>3, <1>5, <2>2, <2>3, <2>4, EngineStep
<1>6. CASE Stop(e)
  <2> DEFINE new == [engine[e] EXCEPT !.mail = Posted(e, None)]
  <2>1. /\ new \in EngineState /\ new.state = engine[e].state
        /\ new.workspace = engine[e].workspace /\ new.events = engine[e].events
        /\ \A k : (\E i \in DOMAIN engine[e].mail : engine[e].mail[i] = k) =>
                    \E i \in DOMAIN new.mail : new.mail[i] = k
        /\ [engine EXCEPT ![e].mail = Posted(e, None)] = [engine EXCEPT ![e] = new]
    BY <1>1, PostedFacts
  <2>2. engine' = [engine EXCEPT ![e] = new]
    BY <1>6, <2>1 DEF Stop
  <2> HIDE DEF new
  <2> QED BY <1>5, <2>1, <2>2
<1>7. CASE RunTurn(e)
  <2> DEFINE mail == engine[e].mail
             new == [engine[e] EXCEPT !.mail = Tail(mail),
                                      !.events = Append(engine[e].events, Head(mail))]
  <2>1. mail \in Seq(Turns \cup {None}) /\ engine[e].events \in Seq(Turns)
    BY <1>4 DEF EngineState
  <2>2. Tail(mail) \in Seq(Turns \cup {None}) /\ Head(mail) \in Turns
    <3> HIDE DEF mail
    <3> QED BY <2>1, <1>7 DEF RunTurn, mail
  <2>3. /\ Append(engine[e].events, Head(mail)) \in Seq(Turns)
        /\ Append(engine[e].events, Head(mail)) # <<>>
    <3> HIDE DEF mail
    <3> QED BY <2>1, <2>2
  <2>4. engine' = [engine EXCEPT ![e] = new]
    BY <1>1, <1>7 DEF RunTurn, TypeOK
  <2>5. /\ new \in EngineState /\ new.state = engine[e].state
        /\ new.workspace = engine[e].workspace /\ new.events # <<>>
    BY <1>4, <2>2, <2>3 DEF EngineState
  <2> HIDE DEF new, mail
  <2> QED BY <1>5, <2>4, <2>5
<1>8. CASE Shutdown(e)
  <2> DEFINE new == [engine[e] EXCEPT !.state = "down", !.mail = <<>>]
  <2>1. new \in EngineState /\ new.state = "down" /\ new.workspace = engine[e].workspace
    <3>1. <<>> \in Seq(Turns \cup {None})
      OBVIOUS
    <3> QED BY <3>1, <1>4 DEF EngineState
  <2>2. engine' = [engine EXCEPT ![e] = new] /\ engine[e].state # "new"
    BY <1>1, <1>8 DEF Shutdown, TypeOK
  <2> HIDE DEF new
  <2> QED BY <1>5, <2>1, <2>2
<1> QED BY <1>6, <1>7, <1>8 DEF Engine

-----------------------------------------------------------------------------
(* The build of an engine.                                                 *)

LEMMA BuildEngineStep ==
    ASSUME IInv, NEW q \in Requests, BuildEngine(q)
    PROVE  IInv'
<1> DEFINE t == request[q].thread
<1>1. TypeOK /\ Actors
  BY DEF IInv
<1>2. request[q] \in Calling /\ t \in Threads
  BY CallFacts DEF BuildEngine
<1>3. PICK e \in Engines :
         /\ engine[e].state = "new"
         /\ engine' = [engine EXCEPT ![e].state = "up", ![e].workspace = record[t].workspace]
         /\ Goto(q, [request[q] EXCEPT !.pc = "install", !.engine = e])
  BY DEF BuildEngine
<1> DEFINE new == [engine[e] EXCEPT !.state = "up", !.workspace = record[t].workspace]
           call == [request[q] EXCEPT !.pc = "install", !.engine = e]
<1>4. /\ call \in Calling /\ call.pc = "install" /\ call.engine = e /\ call.thread = t
      /\ request' = [request EXCEPT ![q] = call]
  BY <1>2, <1>3 DEF Calling, Goto
<1>5. /\ new \in EngineState /\ new.state = "up"
      /\ engine' = [engine EXCEPT ![e] = new]
  BY <1>1, <1>2, <1>3 DEF TypeOK, EngineState, ThreadState
<1>6. /\ loader \in {"free", q} /\ loader' = q /\ active[t].engine = None
      /\ UNCHANGED <<disk, active, lru, leaving, monitor, lost, incidents>>
  BY DEF BuildEngine
<1> HIDE DEF call, new, t
<1>7. TypeOK'
  BY <1>1, <1>4, <1>5, <1>6 DEF TypeOK
<1>8. request'[q] = call /\ \A p \in Requests \ {q} : request'[p] = request[p]
  BY <1>1, <1>4 DEF TypeOK
<1>9. engine'[e] = new /\ \A d \in Engines \ {e} : engine'[d] = engine[d]
  BY <1>1, <1>5 DEF TypeOK
<1>10. \A d \in Engines : engine[d].state # "new" => engine'[d] = engine[d]
  BY <1>3, <1>9
<1>11. \A u \in Threads : active[u].engine # None =>
         active[u].engine \in Engines /\ engine[active[u].engine].state # "new"
  BY <1>1 DEF TypeOK, Entry, Actors, EntryOK
<1>12. \A n \in Turns : monitor[n].pc \in Live =>
         monitor[n].engine \in Engines /\ engine[monitor[n].engine].state # "new"
  BY <1>1, Constants DEF TypeOK, Watching, Actors, MonitorOK
<1>13. Actors'
  <2>1. ASSUME NEW p \in Requests PROVE CallOK(p)'
    <3>1. CASE p = q
      BY <3>1, <1>4, <1>5, <1>6, <1>8, <1>9 DEF CallOK
    <3>2. CASE p # q
      <4>1. request'[p] = request[p] /\ CallOK(p)
        BY <3>2, <1>1, <1>8 DEF Actors
      <4>2. request[p].pc \notin {"install", "evict"}
        BY <4>1, <3>2, <1>6, TurnsAssumption DEF CallOK
      <4> QED BY <4>1, <4>2, <1>10 DEF CallOK
    <3> QED BY <3>1, <3>2
  <2>2. \A u \in Threads : EntryOK(u)'
    BY <1>1, <1>6, <1>10, <1>11 DEF Actors, EntryOK
  <2>3. \A n \in Turns : MonitorOK(n)'
    BY <1>1, <1>6, <1>10, <1>12 DEF Actors, MonitorOK
  <2> QED BY <2>1, <2>2, <2>3 DEF Actors
<1>14. EngineOfOneThread'
  <2>1. ASSUME NEW u \in Threads, Serves(e, u)' PROVE u = t
    <3>1. CASE \E p \in Requests : /\ request'[p].pc \notin {"idle", "ensure"}
                                   /\ request'[p].engine = e /\ request'[p].thread = u
      <4>1. PICK p \in Requests : /\ request'[p].pc \notin {"idle", "ensure"}
                                  /\ request'[p].engine = e /\ request'[p].thread = u
        BY <3>1
      <4>2. CASE p # q
        BY <4>1, <4>2, <1>1, <1>3, <1>8 DEF Actors, CallOK
      <4> QED BY <4>1, <4>2, <1>4, <1>8
    <3>2. active'[u].engine # e
      BY <1>3, <1>6, <1>11, Constants
    <3>3. \A n \in Turns : monitor'[n].pc \in Live => monitor'[n].engine # e
      BY <1>3, <1>6, <1>12
    <3> QED BY <2>1, <3>1, <3>2, <3>3 DEF Serves
  <2>2. ASSUME NEW d \in Engines, d # e, NEW u \in Threads, Serves(d, u)' PROVE Serves(d, u)
    <3>1. ASSUME NEW p \in Requests, request'[p].pc \notin {"idle", "ensure"},
                 request'[p].engine = d, request'[p].thread = u
          PROVE  Serves(d, u)
      <4>1. p # q
        BY <3>1, <2>2, <1>4, <1>8
      <4> QED BY <4>1, <3>1, <1>8 DEF Serves
    <3> QED BY <2>2, <3>1, <1>6 DEF Serves
  <2>3. ASSUME NEW d \in Engines, NEW u \in Threads, NEW v \in Threads,
               Serves(d, u)', Serves(d, v)'
        PROVE  u = v
    <3>1. CASE d = e
      BY <2>1, <2>3, <3>1
    <3>2. CASE d # e
      BY <2>2, <2>3, <3>2 DEF IInv, EngineOfOneThread
    <3> QED BY <3>1, <3>2
  <2> QED BY <2>3 DEF EngineOfOneThread
<1>15. (OrderMatchesRegistry /\ ClaimHasMonitor /\ OneTurnInProgress)'
  BY <1>6 DEF IInv, OrderMatchesRegistry, Loaded, ClaimHasMonitor, OneTurnInProgress, Owns
<1>16. EngineInWorkspace'
  BY <1>6, <1>10, <1>11 DEF IInv, EngineInWorkspace, Loaded
<1>17. AcceptedTurnIsHeld'
  <2>1. \A n \in Turns : monitor[n].pc = "watch" =>
           engine'[monitor[n].engine] = engine[monitor[n].engine]
    BY <1>10, <1>12 DEF Live
  <2> QED BY <2>1, <1>6 DEF IInv, AcceptedTurnIsHeld
<1> QED BY <1>7, <1>13, <1>14, <1>15, <1>16, <1>17 DEF IInv

-----------------------------------------------------------------------------
(* The monitor of a turn, up to the end of its claim.                      *)

LEMMA MonitorFacts ==
    ASSUME IInv, NEW n \in Turns, monitor[n].pc \in Live
    PROVE  /\ monitor[n] \in Watching
           /\ monitor[n].thread \in Threads /\ monitor[n].engine \in Engines
           /\ engine[monitor[n].engine].state # "new"
           /\ Owns(n) /\ active[monitor[n].thread].engine # None
           /\ turn[n] # "None" /\ turn[n] \in Status
<1>1. monitor[n] \in Watching
  BY Constants DEF IInv, TypeOK
<1>2. monitor[n].thread \in Threads /\ monitor[n].engine \in Engines
  BY <1>1 DEF Watching
<1>3. Owns(n)
  BY <1>2 DEF IInv, ClaimHasMonitor, Owns
<1>4. MonitorOK(n) /\ EntryOK(monitor[n].thread) /\ turn[n] \in Status
  BY <1>2 DEF IInv, Actors, TypeOK
<1>5. n # None
  BY Constants
<1> QED BY <1>1, <1>2, <1>3, <1>4, <1>5, Constants DEF MonitorOK, EntryOK, Owns

(* A monitor goes on: it may read its engine's events, bar its turn from     *)
(* being steered and write the record of its turn.                           *)
LEMMA MonitorStep ==
    ASSUME IInv, NEW n \in Turns, monitor[n].pc \in Live,
           NEW pc \in Live \ {"watch"}, NEW status \in Status \ {"None"},
           monitor' = [monitor EXCEPT ![n].pc = pc],
           turn' \in [Turns -> Status], turn'[n] = status,
           \A k \in Turns \ {n} : turn'[k] = turn[k],
           pc = "publish" => status = "InProgress",
           pc = "release" => status \in Terminal,
           pc = "evict" => status # "InProgress" \/ n \in lost',
           active' \in [Threads -> Entry],
           \A t \in Threads : /\ active'[t].engine = active[t].engine
                              /\ active'[t].turn = active[t].turn,
           record' \in [Threads -> ThreadState],
           \A t \in Threads : record'[t].workspace = record[t].workspace,
           engine' \in [Engines -> EngineState],
           \A e \in Engines : /\ engine'[e].state = engine[e].state
                              /\ engine'[e].workspace = engine[e].workspace
                              /\ e # monitor[n].engine => engine'[e] = engine[e],
           lost \subseteq lost' /\ lost' \subseteq Turns /\ incidents' \in Nat,
           UNCHANGED <<lru, leaving, loader, request>>
    PROVE  IInv'
<1>1. TypeOK /\ Actors
  BY DEF IInv
<1>2. /\ monitor[n] \in Watching /\ monitor[n].thread \in Threads /\ Owns(n)
      /\ monitor[n].engine \in Engines
  BY MonitorFacts
<1> DEFINE new == [monitor[n] EXCEPT !.pc = pc]
<1>3. /\ new \in Watching /\ new.pc = pc
      /\ new.thread = monitor[n].thread /\ new.engine = monitor[n].engine
      /\ monitor' = [monitor EXCEPT ![n] = new]
  BY <1>1, <1>2 DEF Watching, TypeOK
<1> HIDE DEF new
<1>4. /\ monitor' \in [Turns -> {NoMonitor} \cup Watching]
      /\ monitor'[n] = new /\ \A k \in Turns \ {n} : monitor'[k] = monitor[k]
  BY <1>1, <1>3 DEF TypeOK
<1>5. turn'[n] = status /\ \A k \in Turns \ {n} : turn'[k] = turn[k]
  OBVIOUS
<1>6. TypeOK'
  BY <1>1, <1>4 DEF TypeOK
<1>7. \A t \in Threads : active[t].engine # None => active[t].engine \in Engines
  BY <1>1 DEF TypeOK, Entry
<1>8. \A k \in Turns : monitor[k].pc \in Live =>
         monitor[k].engine \in Engines /\ monitor[k].thread \in Threads
  BY MonitorFacts
<1>9. /\ \A k \in Turns : monitor'[k].pc \in Live <=> monitor[k].pc \in Live
      /\ \A k \in Turns : monitor[k].pc \in Live =>
            monitor'[k].engine = monitor[k].engine /\ monitor'[k].thread = monitor[k].thread
  BY <1>3, <1>4
<1>10. Actors'
  <2>1. ASSUME NEW q \in Requests PROVE CallOK(q)'
    <3>1. CallOK(q) /\ request[q].pc # "idle" => request[q].thread \in Threads
      BY <1>1, CallFacts DEF Actors
    <3> QED BY <3>1, <1>1 DEF CallOK, Actors
  <2>2. \A t \in Threads : EntryOK(t)'
    BY <1>1, <1>7 DEF Actors, EntryOK
  <2>3. ASSUME NEW k \in Turns PROVE MonitorOK(k)'
    <3>1. CASE k = n
      BY <3>1, <1>1, <1>2, <1>3, <1>4, <1>5, MonitorFacts DEF MonitorOK, Live
    <3>2. CASE k # n
      BY <3>2, <1>1, <1>4, <1>5, <1>8 DEF MonitorOK, Actors
    <3> QED BY <3>1, <3>2
  <2> QED BY <2>1, <2>2, <2>3 DEF Actors
<1>11. EngineOfOneThread'
  <2>1. \A k \in Turns : monitor'[k].pc \in Live =>
           Serves(monitor'[k].engine, monitor'[k].thread)
    BY <1>9, Holders
  <2>2. \A t \in Threads : active'[t].engine # None => Serves(active'[t].engine, t)
    BY Holders
  <2> QED BY <2>1, <2>2, Holders, ServesFrame DEF IInv
<1>12. Loaded' = Loaded
  BY DEF Loaded
<1>13. OrderMatchesRegistry'
  BY <1>12 DEF IInv, OrderMatchesRegistry
<1>14. ClaimHasMonitor'
  BY <1>9 DEF IInv, ClaimHasMonitor
<1>15. OneTurnInProgress'
  BY <1>2, <1>4, <1>5, <1>8, <1>9 DEF IInv, OneTurnInProgress, Owns
<1>16. EngineInWorkspace'
  BY <1>7, <1>12 DEF IInv, EngineInWorkspace, Loaded
<1>17. AcceptedTurnIsHeld'
  <2> SUFFICES ASSUME NEW k \in Turns, monitor'[k].pc = "watch"
               PROVE  /\ monitor[k].pc = "watch" /\ monitor'[k].engine = monitor[k].engine
                      /\ engine'[monitor[k].engine] = engine[monitor[k].engine]
    BY DEF IInv, AcceptedTurnIsHeld
  <2>1. k # n /\ monitor'[k] = monitor[k] /\ monitor[k].pc \in Live
    BY <1>3, <1>4 DEF Live
  <2>2. monitor[k].engine \in Engines /\ monitor[k].thread \in Threads /\ Owns(k)
    BY <2>1, MonitorFacts
  <2>3. monitor[k].engine # monitor[n].engine
    <3> SUFFICES ASSUME monitor[k].engine = monitor[n].engine PROVE FALSE
      OBVIOUS
    <3>1. monitor[k].thread = monitor[n].thread
      BY <2>1, <2>2, <1>2, Holders DEF IInv, EngineOfOneThread
    <3> QED BY <3>1, <2>1, <2>2, <1>2 DEF Owns
  <2> QED BY <2>1, <2>2, <2>3
<1> QED BY <1>6, <1>10, <1>11, <1>13, <1>14, <1>15, <1>16, <1>17 DEF IInv

LEMMA ObserveStep ==
    ASSUME IInv, NEW n \in Turns, Observe(n)
    PROVE  IInv'
<1> DEFINE e == monitor[n].engine
<1>1. TypeOK /\ Actors
  BY DEF IInv
<1>2. /\ monitor[n].pc = "watch" /\ monitor[n].pc \in Live /\ engine[e].events # <<>>
      /\ engine' = [engine EXCEPT ![e].events = Tail(@)]
      /\ monitor' = [monitor EXCEPT ![n].pc = "publish"]
      /\ UNCHANGED <<disk, memory, request, lost, incidents>>
  BY DEF Observe, Live
<1>3. e \in Engines
  BY <1>2, MonitorFacts
<1>4. turn' \in [Turns -> Status] /\ turn'[n] = "InProgress" /\ \A k \in Turns : turn'[k] = turn[k]
  BY <1>1, <1>2 DEF Actors, MonitorOK, TypeOK
<1> HIDE DEF e
<1>5. engine[e] \in EngineState /\ Tail(engine[e].events) \in Seq(Turns)
  <2>1. engine[e] \in EngineState /\ engine[e].events \in Seq(Turns)
    BY <1>1, <1>3 DEF TypeOK, EngineState
  <2> QED BY <1>2, <2>1
<1>6. [engine[e] EXCEPT !.events = Tail(engine[e].events)] \in EngineState
  BY <1>5 DEF EngineState
<1>7. engine' \in [Engines -> EngineState]
  BY <1>1, <1>2, <1>3, <1>6 DEF TypeOK
<1>8. \A d \in Engines : /\ engine'[d].state = engine[d].state
                         /\ engine'[d].workspace = engine[d].workspace
                         /\ d # e => engine'[d] = engine[d]
  BY <1>1, <1>2, <1>3, <1>5 DEF TypeOK, EngineState
<1>9. /\ active' \in [Threads -> Entry] /\ record' \in [Threads -> ThreadState]
      /\ lost \subseteq lost' /\ lost' \subseteq Turns /\ incidents' \in Nat
      /\ active' = active /\ record' = record /\ UNCHANGED <<lru, leaving, loader, request>>
  BY <1>1, <1>2 DEF TypeOK
<1>10. "publish" \in Live \ {"watch"} /\ "InProgress" \in Status \ {"None"}
  BY DEF Live, Status
<1> USE DEF e
<1>11. \A t \in Threads : record'[t].workspace = record[t].workspace
  BY <1>9
<1>12. \A t \in Threads : active'[t] = active[t]
  BY <1>9
<1> QED BY <1>2, <1>4, <1>7, <1>8, <1>9, <1>10, <1>11, <1>12, MonitorStep

(* The failure path sets the flag of the claim.                              *)
LEMMA FailStep ==
    ASSUME IInv, NEW n \in Turns, monitor[n].pc \in Live,
           Fail(n), incidents' \in Nat,
           UNCHANGED <<disk, lru, leaving, loader, engine, request, lost>>
    PROVE  IInv'
<1>1. TypeOK /\ Actors
  BY DEF IInv
<1>2. Owns(n) /\ monitor[n].thread \in Threads /\ turn[n] \in Status \ {"None"}
  BY MonitorFacts
<1>3. /\ monitor' = [monitor EXCEPT ![n].pc = "failing"]
      /\ active' = [active EXCEPT ![monitor[n].thread].stopping = TRUE]
  BY <1>2 DEF Fail
<1>4. /\ active' \in [Threads -> Entry]
      /\ \A t \in Threads : /\ active'[t].engine = active[t].engine
                            /\ active'[t].turn = active[t].turn
  BY <1>1, <1>2, <1>3 DEF TypeOK, Entry
<1>5. turn' \in [Turns -> Status] /\ turn'[n] = turn[n] /\ \A k \in Turns : turn'[k] = turn[k]
  BY <1>1 DEF TypeOK
<1>6. /\ record' \in [Threads -> ThreadState] /\ engine' \in [Engines -> EngineState]
      /\ lost \subseteq lost' /\ lost' \subseteq Turns
      /\ record' = record /\ engine' = engine /\ UNCHANGED <<lru, leaving, loader, request>>
  BY <1>1 DEF TypeOK
<1>7. "failing" \in Live \ {"watch"}
  BY DEF Live
<1>8. \A t \in Threads : record'[t].workspace = record[t].workspace
  BY <1>6
<1>9. \A e \in Engines : engine'[e] = engine[e]
  BY <1>6
<1> QED BY <1>2, <1>3, <1>4, <1>5, <1>6, <1>7, <1>8, <1>9, MonitorStep

LEMMA ObserveClosedStep ==
    ASSUME IInv, NEW n \in Turns, ObserveClosed(n)
    PROVE  IInv'
<1>1. TypeOK /\ Actors
  BY DEF IInv
<1>2. /\ monitor[n].pc = "watch" /\ monitor[n].pc \in Live
      /\ UNCHANGED <<disk, lru, leaving, loader, engine, request, lost, incidents>>
  BY DEF ObserveClosed, Live
<1>3. CASE Fail(n)
  BY <1>1, <1>2, <1>3, FailStep DEF TypeOK
<1>4. CASE monitor' = [monitor EXCEPT ![n].pc = "publish"] /\ UNCHANGED active
  <2>1. turn' \in [Turns -> Status] /\ turn'[n] = "InProgress" /\ \A k \in Turns : turn'[k] = turn[k]
    BY <1>1, <1>2 DEF Actors, MonitorOK, TypeOK
  <2>2. "publish" \in Live \ {"watch"} /\ "InProgress" \in Status \ {"None"}
    BY DEF Live, Status
  <2>3. /\ active' \in [Threads -> Entry] /\ record' \in [Threads -> ThreadState]
        /\ engine' \in [Engines -> EngineState]
        /\ lost \subseteq lost' /\ lost' \subseteq Turns /\ incidents' \in Nat
        /\ active' = active /\ engine' = engine /\ record' = record
        /\ UNCHANGED <<lru, leaving, loader, request>>
    BY <1>1, <1>2, <1>4 DEF TypeOK
  <2> QED BY <1>2, <1>4, <2>1, <2>2, <2>3, MonitorStep
<1> QED BY <1>3, <1>4 DEF ObserveClosed

LEMMA MonitorFailsStep ==
    ASSUME IInv, NEW n \in Turns, MonitorFails(n)
    PROVE  IInv'
<1>1. monitor[n].pc \in Live
  BY DEF MonitorFails, Live
<1>2. incidents' \in Nat
  BY DEF MonitorFails, Incident, IInv, TypeOK
<1> QED BY <1>1, <1>2, FailStep DEF MonitorFails

LEMMA PublishStep ==
    ASSUME IInv, NEW n \in Turns, Publish(n)
    PROVE  IInv'
<1> DEFINE status == IF Interrupted(n) THEN "Interrupted" ELSE "Reported"
           t == monitor[n].thread
<1>1. TypeOK /\ Actors
  BY DEF IInv
<1>2. /\ monitor[n].pc \in Live /\ monitor' = [monitor EXCEPT ![n].pc = "release"]
      /\ turn' = [turn EXCEPT ![n] = status]
      /\ record' = [record EXCEPT ![t].latest = n]
      /\ UNCHANGED <<memory, engine, request, lost, incidents>>
  BY DEF Publish, Live
<1>3. status \in Terminal /\ status \in Status \ {"None"}
  BY DEF Terminal, Status
<1>4. t \in Threads
  BY <1>2, MonitorFacts
<1> HIDE DEF status, t
<1>5. /\ record' \in [Threads -> ThreadState]
      /\ \A u \in Threads : record'[u].workspace = record[u].workspace
  BY <1>1, <1>2, <1>4 DEF TypeOK, ThreadState
<1>6. /\ active' \in [Threads -> Entry] /\ engine' \in [Engines -> EngineState]
      /\ lost \subseteq lost' /\ lost' \subseteq Turns /\ incidents' \in Nat
      /\ active' = active /\ engine' = engine /\ UNCHANGED <<lru, leaving, loader, request>>
  BY <1>1, <1>2 DEF TypeOK
<1>7. "release" \in Live \ {"watch"}
  BY DEF Live
<1>8. /\ turn' \in [Turns -> Status] /\ turn'[n] = status
      /\ \A k \in Turns \ {n} : turn'[k] = turn[k]
  BY <1>1, <1>2, <1>3 DEF TypeOK
<1> QED BY <1>2, <1>3, <1>5, <1>6, <1>7, <1>8, MonitorStep

LEMMA PublishFailureStep ==
    ASSUME IInv, NEW n \in Turns, PublishFailure(n)
    PROVE  IInv'
<1>1. TypeOK /\ Actors
  BY DEF IInv
<1>2. /\ monitor[n].pc \in Live /\ monitor' = [monitor EXCEPT ![n].pc = "evict"]
      /\ UNCHANGED <<record, memory, engine, request>>
  BY DEF PublishFailure, Live
<1>3. turn[n] \in Status \ {"None"}
  BY <1>2, MonitorFacts
<1>4. /\ active' \in [Threads -> Entry] /\ engine' \in [Engines -> EngineState]
      /\ record' \in [Threads -> ThreadState]
      /\ active' = active /\ engine' = engine /\ record' = record
      /\ UNCHANGED <<lru, leaving, loader, request>>
  BY <1>1, <1>2 DEF TypeOK
<1>5. "evict" \in Live \ {"watch"}
  BY DEF Live
<1>6. CASE turn' = [turn EXCEPT ![n] = FailedStatus(n)] /\ UNCHANGED <<lost, incidents>>
  <2>1. FailedStatus(n) \in Status \ {"None"} /\ FailedStatus(n) # "InProgress"
    BY <1>3 DEF FailedStatus, Status, Terminal
  <2>2. lost \subseteq lost' /\ lost' \subseteq Turns /\ incidents' \in Nat
    BY <1>1, <1>6 DEF TypeOK
  <2>3. /\ turn' \in [Turns -> Status] /\ turn'[n] = FailedStatus(n)
        /\ \A k \in Turns \ {n} : turn'[k] = turn[k]
    BY <1>1, <1>6, <2>1 DEF TypeOK
  <2> QED BY <1>2, <1>4, <1>5, <2>1, <2>2, <2>3, MonitorStep
<1>7. CASE Incident /\ lost' = lost \cup {n} /\ UNCHANGED turn
  <2>1. turn' \in [Turns -> Status] /\ turn'[n] = turn[n] /\ \A k \in Turns : turn'[k] = turn[k]
    BY <1>1, <1>7 DEF TypeOK
  <2>2. lost \subseteq lost' /\ lost' \subseteq Turns /\ incidents' \in Nat /\ n \in lost'
    BY <1>1, <1>7 DEF TypeOK, Incident
  <2> QED BY <1>2, <1>3, <1>4, <1>5, <2>1, <2>2, MonitorStep
<1> QED BY <1>6, <1>7 DEF PublishFailure

-----------------------------------------------------------------------------
(* Steps that change the registry.                                         *)

(* The entry of a thread loses its engine or its claim, or neither; a claim  *)
(* goes with its monitor, once the turn has ended.                           *)
LEMMA EntryStep ==
    ASSUME IInv, NEW t \in Threads, NEW new \in Entry,
           active' = [active EXCEPT ![t] = new],
           new.engine \in {active[t].engine, None}, new.turn \in {active[t].turn, None},
           new.turn # None => new.engine # None,
           lru' \in Seq(Threads), Distinct(lru'),
           \A u \in Threads : u \in Elements(lru') <=> active'[u].engine # None,
           monitor' \in [Turns -> {NoMonitor} \cup Watching],
           \A n \in Turns : active[t].turn = n /\ new.turn # n =>
              monitor'[n] = NoMonitor /\ (turn[n] # "InProgress" \/ n \in lost),
           \A n \in Turns : (active[t].turn = n /\ new.turn # n) \/ monitor'[n] = monitor[n],
           record' \in [Threads -> ThreadState],
           \A u \in Threads : u # t \/ new.engine # None =>
              record'[u].workspace = record[u].workspace,
           leaving' \subseteq Engines, incidents' \in Nat,
           UNCHANGED <<turn, loader, engine, request, lost>>
    PROVE  IInv'
<1>1. TypeOK /\ Actors /\ ClaimHasMonitor
  BY DEF IInv
<1>2. active'[t] = new /\ \A u \in Threads \ {t} : active'[u] = active[u]
  BY <1>1 DEF TypeOK
<1>3. TypeOK'
  BY <1>1 DEF TypeOK
<1>4. \A n \in Turns : monitor'[n].pc \in Live =>
         /\ monitor'[n] = monitor[n] /\ monitor[n].pc \in Live
         /\ monitor[n].thread = t => new.turn = n
  <2> SUFFICES ASSUME NEW n \in Turns, monitor'[n].pc \in Live
               PROVE  /\ monitor'[n] = monitor[n] /\ monitor[n].pc \in Live
                      /\ monitor[n].thread = t => new.turn = n
    OBVIOUS
  <2>1. monitor'[n] # NoMonitor
    BY Constants
  <2>2. monitor'[n] = monitor[n] /\ (active[t].turn = n => new.turn = n)
    BY <2>1
  <2>3. monitor[n].thread = t => active[t].turn = n
    BY <2>2, <1>1 DEF ClaimHasMonitor
  <2> QED BY <2>2, <2>3
<1>5. Actors'
  <2>1. ASSUME NEW q \in Requests PROVE CallOK(q)'
    <3>1. CallOK(q) /\ (request[q].pc # "idle" => request[q].thread \in Threads)
      BY <1>1, CallFacts DEF Actors
    <3> QED BY <3>1, <1>2 DEF CallOK
  <2>2. \A u \in Threads : EntryOK(u)'
    BY <1>1, <1>2 DEF Actors, EntryOK
  <2>3. ASSUME NEW n \in Turns PROVE MonitorOK(n)'
    <3>1. MonitorOK(n)
      BY <1>1 DEF Actors
    <3>2. CASE monitor'[n] = monitor[n]
      BY <3>1, <3>2 DEF MonitorOK
    <3>3. CASE monitor'[n] = NoMonitor
      BY <3>3, Constants DEF MonitorOK, NoMonitor, Live
    <3> QED BY <3>2, <3>3
  <2> QED BY <2>1, <2>2, <2>3 DEF Actors
<1>6. EngineOfOneThread'
  <2>1. \A n \in Turns : monitor'[n].pc \in Live =>
           Serves(monitor'[n].engine, monitor'[n].thread)
    BY <1>4, Holders
  <2>2. \A u \in Threads : active'[u].engine # None => Serves(active'[u].engine, u)
    BY <1>2, Holders
  <2> QED BY <2>1, <2>2, Holders, ServesFrame DEF IInv
<1>7. OrderMatchesRegistry'
  <2>1. Elements(lru') \subseteq Threads
    BY DEF Elements
  <2>2. Elements(lru') = Loaded'
    BY <2>1 DEF Loaded
  <2> QED BY <2>2 DEF OrderMatchesRegistry, Elements, Distinct
<1>8. ClaimHasMonitor'
  <2> SUFFICES ASSUME NEW u \in Threads, NEW n \in Turns
               PROVE  active'[u].turn = n <=> monitor'[n].pc \in Live /\ monitor'[n].thread = u
    BY DEF ClaimHasMonitor
  <2>1. active[u].turn = n <=> monitor[n].pc \in Live /\ monitor[n].thread = u
    BY <1>1 DEF ClaimHasMonitor
  <2>2. n # None
    BY Constants
  <2>3. ASSUME active'[u].turn = n PROVE monitor'[n] = monitor[n] /\ active[u].turn = n
    <3>1. active[u].turn = n
      BY <2>2, <2>3, <1>2
    <3>2. CASE u = t
      BY <3>1, <3>2, <2>3, <1>2
    <3>3. CASE u # t
      <4>1. active[t].turn # n
        BY <3>1, <3>3, <1>1 DEF ClaimHasMonitor
      <4> QED BY <3>1, <4>1
    <3> QED BY <3>2, <3>3
  <2>4. ASSUME monitor'[n].pc \in Live, monitor'[n].thread = u PROVE active'[u].turn = n
    <3>1. monitor'[n] = monitor[n] /\ active[u].turn = n
      BY <2>1, <2>4, <1>4
    <3> QED BY <3>1, <1>2, <1>4, <2>4
  <2> QED BY <2>1, <2>3, <2>4
<1>9. OneTurnInProgress'
  <2> SUFFICES ASSUME NEW n \in Turns, turn[n] = "InProgress", n \notin lost
               PROVE  monitor'[n].pc \in Live /\ Owns(n)'
    BY DEF OneTurnInProgress
  <2>1. monitor[n].pc \in Live /\ monitor'[n] = monitor[n]
    BY DEF IInv, OneTurnInProgress
  <2>2. monitor[n].thread \in Threads
    BY <2>1, MonitorFacts
  <2> QED BY <2>1, <2>2, <1>8 DEF ClaimHasMonitor, Owns
<1>10. EngineInWorkspace'
  BY <1>2 DEF IInv, EngineInWorkspace, Loaded
<1>11. AcceptedTurnIsHeld'
  <2>1. \A n \in Turns : monitor'[n].pc = "watch" => monitor'[n] = monitor[n]
    BY <1>4 DEF Live
  <2> QED BY <2>1 DEF IInv, AcceptedTurnIsHeld
<1> QED BY <1>3, <1>5, <1>6, <1>7, <1>8, <1>9, <1>10, <1>11 DEF IInv

LEMMA InterruptTurnStep ==
    ASSUME IInv, NEW t \in Threads, InterruptTurn(t)
    PROVE  IInv'
<1> DEFINE new == [active[t] EXCEPT !.stopping = TRUE]
<1>1. TypeOK /\ OrderMatchesRegistry /\ EntryOK(t)
  BY DEF IInv, Actors
<1>2. /\ new \in Entry /\ new.engine = active[t].engine /\ new.turn = active[t].turn
      /\ active' = [active EXCEPT ![t] = new]
  BY <1>1 DEF TypeOK, Entry, InterruptTurn
<1>3. /\ active[t].turn # None /\ lru' = Touched(lru, t)
      /\ UNCHANGED <<record, turn, leaving, loader, engine, request, monitor, lost, incidents>>
  BY DEF InterruptTurn
<1>4. t \in Loaded
  BY <1>1, <1>3 DEF EntryOK, Loaded
<1> HIDE DEF new
<1>5. \A u \in Threads : u \in Loaded <=> active'[u].engine # None
  BY <1>1, <1>2 DEF TypeOK, Loaded
<1>7. lru' \in Seq(Threads) /\ Distinct(lru') /\ Elements(lru') = Loaded
  BY <1>1, <1>3, <1>4, OrderTouched
<1>8. /\ record' \in [Threads -> ThreadState] /\ leaving' \subseteq Engines /\ incidents' \in Nat
      /\ monitor' \in [Turns -> {NoMonitor} \cup Watching]
  BY <1>1, <1>3 DEF TypeOK
<1>9. new.turn # None => new.engine # None
  BY <1>1, <1>2 DEF EntryOK
<1> QED BY <1>2, <1>3, <1>5, <1>7, <1>8, <1>9, EntryStep

LEMMA UpdateThreadStep ==
    ASSUME IInv, NEW t \in Threads, UpdateThread(t)
    PROVE  IInv'
<1>1. TypeOK /\ OrderMatchesRegistry
  BY DEF IInv
<1>2. /\ active[t].turn = None /\ lru' = Without(lru, t)
      /\ active' = [active EXCEPT ![t] = NoEntry]
      /\ leaving' = leaving \cup Removed(t)
      /\ UNCHANGED <<turn, loader, engine, request, monitor, lost>>
  BY DEF UpdateThread
<1>3. incidents' \in Nat /\ leaving' \subseteq Engines
  BY <1>1, <1>2 DEF TypeOK, Entry, UpdateThread, Incident, Removed
<1>4. /\ record' \in [Threads -> ThreadState]
      /\ \A u \in Threads \ {t} : record'[u] = record[u]
  BY <1>1 DEF TypeOK, ThreadState, UpdateThread
<1>5. \A u \in Threads : u \in Loaded \ {t} <=> active'[u].engine # None
  BY <1>1, <1>2, Constants DEF TypeOK, Loaded
<1>6. lru \in Seq(Threads) /\ Elements(lru) = Loaded /\ Distinct(lru)
  BY <1>1, OrderFacts DEF TypeOK
<1>7. lru' \in Seq(Threads) /\ Distinct(lru') /\ Elements(lru') = Loaded \ {t}
  BY <1>2, <1>6, WithoutFacts
<1>8. monitor' \in [Turns -> {NoMonitor} \cup Watching]
  BY <1>1, <1>2 DEF TypeOK
<1>9. \A n \in Turns : active[t].turn # n /\ monitor'[n] = monitor[n]
  BY <1>2, Constants
<1>11. /\ NoEntry \in Entry /\ NoEntry.engine = None /\ NoEntry.turn = None
       /\ \A u \in Threads : u \in Elements(lru') <=> active'[u].engine # None
  BY <1>5, <1>7, Constants
<1>12. \A u \in Threads : u # t \/ NoEntry.engine # None =>
          record'[u].workspace = record[u].workspace
  BY <1>4, <1>11
<1>13. lru' \in Seq(Threads) /\ Distinct(lru') /\ record' \in [Threads -> ThreadState]
  BY <1>4, <1>7
<1>14. active' = [active EXCEPT ![t] = NoEntry] /\ UNCHANGED <<turn, loader, engine, request, lost>>
  BY <1>2
<1> QED BY <1>3, <1>8, <1>9, <1>11, <1>12, <1>13, <1>14, EntryStep

LEMMA ReleaseStep ==
    ASSUME IInv, NEW n \in Turns, Release(n)
    PROVE  IInv'
<1> DEFINE t == monitor[n].thread
           new == [active[t] EXCEPT !.turn = None, !.stopping = FALSE]
<1>1. TypeOK /\ OrderMatchesRegistry /\ MonitorOK(n)
  BY DEF IInv, Actors
<1>2. /\ monitor[n].pc = "release" /\ monitor[n].pc \in Live
      /\ lru' = Touched(lru, t) /\ monitor' = [monitor EXCEPT ![n] = NoMonitor]
      /\ UNCHANGED <<record, turn, leaving, loader, engine, request, lost, incidents>>
  BY DEF Release, Live
<1>3. t \in Threads /\ active[t].turn = n /\ active[t].engine # None
  BY <1>2, MonitorFacts DEF Owns
<1>4. /\ new \in Entry /\ new.engine = active[t].engine /\ new.turn = None
      /\ active' = [active EXCEPT ![t] = new]
  BY <1>1, <1>3 DEF TypeOK, Entry, Release, Owns
<1>5. turn[n] # "InProgress"
  BY <1>1, <1>2 DEF MonitorOK, Terminal
<1> HIDE DEF new, t
<1>6. \A u \in Threads : u \in Loaded <=> active'[u].engine # None
  BY <1>1, <1>4 DEF TypeOK, Loaded
<1>7. t \in Loaded
  BY <1>3 DEF Loaded
<1>8. lru' \in Seq(Threads) /\ Distinct(lru') /\ Elements(lru') = Loaded
  BY <1>1, <1>2, <1>7, OrderTouched
<1>9. /\ record' \in [Threads -> ThreadState] /\ leaving' \subseteq Engines /\ incidents' \in Nat
      /\ monitor' \in [Turns -> {NoMonitor} \cup Watching]
      /\ monitor'[n] = NoMonitor /\ \A k \in Turns \ {n} : monitor'[k] = monitor[k]
  BY <1>1, <1>2 DEF TypeOK
<1>10. new.turn # n
  BY <1>4, Constants
<1>11. \A k \in Turns :
          /\ (active[t].turn = k /\ new.turn # k) \/ monitor'[k] = monitor[k]
          /\ active[t].turn = k /\ new.turn # k =>
               monitor'[k] = NoMonitor /\ (turn[k] # "InProgress" \/ k \in lost)
  BY <1>3, <1>5, <1>9, <1>10
<1>12. /\ \A u \in Threads : u \in Elements(lru') <=> active'[u].engine # None
       /\ \A u \in Threads : record'[u].workspace = record[u].workspace
  BY <1>2, <1>6, <1>8
<1> QED BY <1>2, <1>3, <1>4, <1>5, <1>6, <1>8, <1>9, <1>10, <1>11, <1>12, EntryStep

LEMMA EvictFailedStep ==
    ASSUME IInv, NEW n \in Turns, EvictFailed(n)
    PROVE  IInv'
<1> DEFINE t == monitor[n].thread
<1>1. TypeOK /\ OrderMatchesRegistry /\ MonitorOK(n)
  BY DEF IInv, Actors
<1>2. /\ monitor[n].pc = "evict" /\ monitor[n].pc \in Live
      /\ monitor' = [monitor EXCEPT ![n] = NoMonitor]
      /\ UNCHANGED <<record, turn, loader, engine, request, lost, incidents>>
  BY DEF EvictFailed, Live
<1>3. Owns(n) /\ t \in Threads /\ active[t].turn = n /\ active[t].engine # None
  BY <1>2, MonitorFacts DEF Owns
<1>4. /\ lru' = Without(lru, t) /\ active' = [active EXCEPT ![t] = NoEntry]
      /\ leaving' = leaving \cup {active[t].engine}
  BY <1>3 DEF EvictFailed, OrderWithout
<1>5. turn[n] # "InProgress" \/ n \in lost
  BY <1>1, <1>2 DEF MonitorOK
<1> HIDE DEF t
<1>6. \A u \in Threads : u \in Loaded \ {t} <=> active'[u].engine # None
  BY <1>1, <1>4, Constants DEF TypeOK, Loaded
<1>7. lru \in Seq(Threads) /\ Elements(lru) = Loaded /\ Distinct(lru)
  BY <1>1, OrderFacts DEF TypeOK
<1>8. lru' \in Seq(Threads) /\ Distinct(lru') /\ Elements(lru') = Loaded \ {t}
  BY <1>4, <1>7, WithoutFacts
<1>9. /\ record' \in [Threads -> ThreadState] /\ leaving' \subseteq Engines /\ incidents' \in Nat
      /\ monitor' \in [Turns -> {NoMonitor} \cup Watching]
      /\ monitor'[n] = NoMonitor /\ \A k \in Turns \ {n} : monitor'[k] = monitor[k]
  BY <1>1, <1>2, <1>3, <1>4 DEF TypeOK, Entry
<1>10. NoEntry.turn # n
  BY Constants
<1>11. \A k \in Turns :
          /\ (active[t].turn = k /\ NoEntry.turn # k) \/ monitor'[k] = monitor[k]
          /\ active[t].turn = k /\ NoEntry.turn # k =>
               monitor'[k] = NoMonitor /\ (turn[k] # "InProgress" \/ k \in lost)
  BY <1>3, <1>5, <1>9, <1>10
<1>12. /\ NoEntry \in Entry /\ NoEntry.engine = None /\ NoEntry.turn = None
       /\ \A u \in Threads : u \in Elements(lru') <=> active'[u].engine # None
       /\ \A u \in Threads : record'[u].workspace = record[u].workspace
  BY <1>2, <1>6, <1>8, Constants
<1> QED BY <1>2, <1>3, <1>4, <1>5, <1>6, <1>8, <1>9, <1>10, <1>11, <1>12, EntryStep

LEMMA InstallEngineStep ==
    ASSUME IInv, NEW q \in Requests, InstallEngine(q)
    PROVE  IInv'
<1> DEFINE t == request[q].thread
           e == request[q].engine
<1>1. TypeOK /\ Actors /\ OrderMatchesRegistry
  BY DEF IInv
<1>2. /\ request[q] \in Calling /\ t \in Threads /\ e \in Engines
      /\ engine[e].state # "new" /\ Serves(e, t)
  BY CallFacts DEF InstallEngine
<1>3. /\ request[q].pc = "install" /\ loader = q /\ active[t].engine = None
      /\ active[t].turn = None
  BY <1>1, <1>2 DEF InstallEngine, Actors, CallOK, EntryOK
<1>4. /\ record[t].workspace = engine[e].workspace
      /\ active' = [u \in Threads |-> IF u = t THEN [NoEntry EXCEPT !.engine = e]
                                      ELSE IF u \in Evicted THEN NoEntry ELSE active[u]]
      /\ lru' = Touched(Scanned(Evicted), t)
      /\ UNCHANGED <<record, turn, leaving, engine, monitor, lost, incidents>>
  BY DEF InstallEngine, Current
<1>5. /\ Evicted \subseteq Loaded \ Claimed /\ t \notin Loaded
      /\ Scanned(Evicted) \in Seq(Threads) /\ Distinct(Scanned(Evicted))
      /\ Elements(Scanned(Evicted)) = Loaded \ Evicted
  BY <1>1, <1>3, EvictedFacts DEF Loaded
<1>6. PICK call \in Calling :
         /\ request' = [request EXCEPT ![q] = call]
         /\ call.engine = e /\ call.thread = t
         /\ \/ call.pc = "check" /\ loader' = "free"
            \/ call.pc = "evict" /\ call.out \in Engines /\ loader' = loader
  <2>1. CASE Goto(q, [request[q] EXCEPT !.pc = "check"]) /\ loader' = "free"
    <3>1. /\ [request[q] EXCEPT !.pc = "check"] \in Calling
          /\ [request[q] EXCEPT !.pc = "check"].pc = "check"
          /\ [request[q] EXCEPT !.pc = "check"].engine = e
          /\ [request[q] EXCEPT !.pc = "check"].thread = t
      BY <1>2 DEF Calling
    <3> QED BY <2>1, <3>1 DEF Goto
  <2>2. ASSUME NEW u \in Evicted,
               Goto(q, [request[q] EXCEPT !.pc = "evict", !.out = active[u].engine]),
               UNCHANGED loader
        PROVE  \E call \in Calling :
                 /\ request' = [request EXCEPT ![q] = call]
                 /\ call.engine = e /\ call.thread = t
                 /\ call.pc = "evict" /\ call.out \in Engines
    <3> DEFINE call == [request[q] EXCEPT !.pc = "evict", !.out = active[u].engine]
    <3>1. active[u].engine \in Engines
      BY <1>1, <1>5 DEF Loaded, TypeOK, Entry
    <3>2. /\ call \in Calling /\ call.pc = "evict" /\ call.out \in Engines
          /\ call.engine = e /\ call.thread = t
      BY <1>2, <3>1 DEF Calling
    <3> QED BY <2>2, <3>2 DEF Goto
  <2> HIDE DEF e, t
  <2> QED BY <2>1, <2>2 DEF InstallEngine
<1> HIDE DEF t, e
<1> DEFINE new == [NoEntry EXCEPT !.engine = e]
<1>7. new \in Entry /\ new.engine = e /\ new.turn = None
  BY <1>2 DEF NoEntry, Entry, None
<1> HIDE DEF new
<1>8. active' = [u \in Threads |-> IF u = t THEN new ELSE IF u \in Evicted THEN NoEntry ELSE active[u]]
  BY <1>4 DEF new
<1>9. /\ active'[t] = new
      /\ \A u \in Threads \ {t} : active'[u] = IF u \in Evicted THEN NoEntry ELSE active[u]
  BY <1>2, <1>8
<1>10. active' \in [Threads -> Entry]
  BY <1>1, <1>7, <1>8, Constants DEF TypeOK
<1>11. \A u \in Threads : active'[u].turn = active[u].turn
  BY <1>3, <1>5, <1>7, <1>9, Constants DEF Claimed
<1>12. /\ \A u \in Threads \ {t} : active'[u].engine # None => active'[u].engine = active[u].engine
       /\ \A u \in Threads : active'[u].engine # None <=> u \in (Loaded \ Evicted) \cup {t}
  <2>1. e # None
    BY <1>2, Constants
  <2> QED BY <2>1, <1>2, <1>7, <1>9, Constants DEF Loaded
<1>13. /\ lru' \in Seq(Threads) /\ Distinct(lru')
       /\ Elements(lru') = (Loaded \ Evicted) \cup {t}
  BY <1>2, <1>4, <1>5, TouchedFacts
<1>14. /\ request' \in [Requests -> {NoRequest} \cup Calling]
       /\ request'[q] = call /\ \A p \in Requests \ {q} : request'[p] = request[p]
  BY <1>1, <1>6 DEF TypeOK
<1>15. TypeOK'
  BY <1>1, <1>4, <1>6, <1>10, <1>13, <1>14 DEF TypeOK
<1>16. Actors'
  <2>1. ASSUME NEW p \in Requests PROVE CallOK(p)'
    <3>1. CASE p = q
      BY <3>1, <1>2, <1>3, <1>4, <1>6, <1>14 DEF CallOK
    <3>2. CASE p # q
      BY <3>2, <1>1, <1>3, <1>4, <1>14 DEF Actors, CallOK
    <3> QED BY <3>1, <3>2
  <2>2. ASSUME NEW u \in Threads PROVE EntryOK(u)'
    <3>1. CASE u = t
      BY <3>1, <1>2, <1>4, <1>7, <1>9 DEF EntryOK
    <3>2. CASE u # t
      BY <3>2, <1>1, <1>4, <1>9, <1>12, Constants DEF Actors, EntryOK
    <3> QED BY <3>1, <3>2
  <2>3. \A n \in Turns : MonitorOK(n)'
    BY <1>1, <1>4 DEF Actors, MonitorOK
  <2> QED BY <2>1, <2>2, <2>3 DEF Actors
<1>17. EngineOfOneThread'
  <2>1. \A p \in Requests : request'[p].pc \notin {"idle", "ensure"} =>
           Serves(request'[p].engine, request'[p].thread)
    BY <1>2, <1>6, <1>14, Holders
  <2>2. \A u \in Threads : active'[u].engine # None => Serves(active'[u].engine, u)
    BY <1>2, <1>7, <1>9, <1>12, Holders
  <2>3. \A n \in Turns : monitor'[n].pc \in Live => Serves(monitor'[n].engine, monitor'[n].thread)
    BY <1>4, Holders
  <2> QED BY <2>1, <2>2, <2>3, ServesFrame DEF IInv
<1>18. OrderMatchesRegistry'
  <2>1. Elements(lru') = Loaded'
    BY <1>2, <1>12, <1>13 DEF Loaded
  <2> QED BY <2>1, <1>13 DEF OrderMatchesRegistry, Elements, Distinct
<1>19. ClaimHasMonitor'
  BY <1>4, <1>11 DEF IInv, ClaimHasMonitor
<1>20. OneTurnInProgress'
  <2>1. \A n \in Turns : monitor[n].pc \in Live => monitor[n].thread \in Threads
    BY MonitorFacts
  <2> QED BY <2>1, <1>4, <1>11 DEF IInv, OneTurnInProgress, Owns
<1>21. EngineInWorkspace'
  <2> SUFFICES ASSUME NEW u \in Threads, active'[u].engine # None
               PROVE  engine[active'[u].engine].workspace = record[u].workspace
    BY <1>4 DEF EngineInWorkspace, Loaded
  <2>1. CASE u = t
    BY <2>1, <1>4, <1>7, <1>9
  <2>2. CASE u # t
    BY <2>2, <1>12 DEF IInv, EngineInWorkspace, Loaded
  <2> QED BY <2>1, <2>2
<1>22. AcceptedTurnIsHeld'
  BY <1>4 DEF IInv, AcceptedTurnIsHeld
<1> QED BY <1>15, <1>16, <1>17, <1>18, <1>19, <1>20, <1>21, <1>22 DEF IInv

LEMMA ClaimStep ==
    ASSUME IInv, NEW q \in Requests, Claim(q)
    PROVE  IInv'
<1> DEFINE t == request[q].thread
           e == request[q].engine
<1>1. TypeOK /\ Actors /\ OrderMatchesRegistry /\ ClaimHasMonitor
  BY DEF IInv
<1>2. /\ request[q] \in Calling /\ t \in Threads /\ e \in Engines
      /\ engine[e].state # "new" /\ Serves(e, t)
  BY CallFacts DEF Claim
<1>3. /\ active[t].engine # None /\ active[t].turn = None
      /\ lru' = Touched(lru, t) /\ request' = [request EXCEPT ![q] = NoRequest]
      /\ UNCHANGED <<leaving, loader, lost, incidents>>
  BY DEF Claim, MayClaim, Leave, Goto
<1>4. PICK n \in Turns :
         /\ turn[n] = "None"
         /\ turn' = [turn EXCEPT ![n] = "InProgress"]
         /\ record' = [record EXCEPT ![t].latest = n]
         /\ active' = [active EXCEPT ![t].turn = n, ![t].stopping = FALSE]
         /\ engine' = [engine EXCEPT ![e].mail = Posted(e, n)]
         /\ monitor' = [monitor EXCEPT ![n] = [pc |-> "watch", thread |-> t, engine |-> e]]
  BY DEF Claim
<1> HIDE DEF t, e
<1> DEFINE new == [pc |-> "watch", thread |-> t, engine |-> e]
           entry == [active[t] EXCEPT !.turn = n, !.stopping = FALSE]
<1>5. new \in Watching /\ new.pc = "watch" /\ "watch" \in Live /\ new.thread = t /\ new.engine = e
  BY <1>2 DEF Watching, Live
<1>6. /\ entry \in Entry /\ entry.engine = active[t].engine /\ entry.turn = n
      /\ active' = [active EXCEPT ![t] = entry]
  BY <1>1, <1>2, <1>4 DEF TypeOK, Entry
<1> HIDE DEF entry
<1>7. /\ active' \in [Threads -> Entry]
      /\ active'[t] = entry /\ \A u \in Threads \ {t} : active'[u] = active[u]
  BY <1>1, <1>2, <1>6 DEF TypeOK
<1>8. /\ turn' \in [Turns -> Status]
      /\ turn'[n] = "InProgress" /\ \A k \in Turns \ {n} : turn'[k] = turn[k]
  BY <1>1, <1>4 DEF TypeOK, Status
<1>9. monitor' = [monitor EXCEPT ![n] = new]
  BY <1>4
<1> HIDE DEF new
<1>10. /\ monitor' \in [Turns -> {NoMonitor} \cup Watching]
       /\ monitor'[n] = new /\ \A k \in Turns \ {n} : monitor'[k] = monitor[k]
  BY <1>1, <1>5, <1>9 DEF TypeOK
<1>11. /\ record' \in [Threads -> ThreadState]
       /\ \A u \in Threads : record'[u].workspace = record[u].workspace
  BY <1>1, <1>2, <1>4 DEF TypeOK, ThreadState
<1>12. /\ engine' \in [Engines -> EngineState]
       /\ \A d \in Engines : /\ engine'[d].state = engine[d].state
                             /\ engine'[d].workspace = engine[d].workspace
                             /\ engine'[d].events = engine[d].events
                             /\ \A k : (\E i \in DOMAIN engine[d].mail : engine[d].mail[i] = k) =>
                                         \E i \in DOMAIN engine'[d].mail : engine'[d].mail[i] = k
       /\ engine[e].state = "up" => \E i \in DOMAIN engine'[e].mail : engine'[e].mail[i] = n
  <2> DEFINE box == [engine[e] EXCEPT !.mail = Posted(e, n)]
  <2>1. /\ box \in EngineState /\ box.state = engine[e].state
        /\ box.workspace = engine[e].workspace /\ box.events = engine[e].events
        /\ \A k : (\E i \in DOMAIN engine[e].mail : engine[e].mail[i] = k) =>
                    \E i \in DOMAIN box.mail : box.mail[i] = k
        /\ engine[e].state = "up" => \E i \in DOMAIN box.mail : box.mail[i] = n
        /\ [engine EXCEPT ![e].mail = Posted(e, n)] = [engine EXCEPT ![e] = box]
    BY <1>1, <1>2, PostedFacts
  <2> HIDE DEF box
  <2>2. /\ engine' \in [Engines -> EngineState]
        /\ engine'[e] = box /\ \A d \in Engines \ {e} : engine'[d] = engine[d]
    BY <1>1, <1>2, <1>4, <2>1 DEF TypeOK
  <2> QED BY <2>1, <2>2
<1>13. monitor[n] = NoMonitor /\ \A u \in Threads : active[u].turn # n
  <2>1. monitor[n] = NoMonitor
    BY <1>1, <1>4 DEF Actors, MonitorOK
  <2> QED BY <2>1, <1>1, Constants DEF ClaimHasMonitor
<1>14. /\ request' \in [Requests -> {NoRequest} \cup Calling]
       /\ request'[q] = NoRequest /\ \A p \in Requests \ {q} : request'[p] = request[p]
  BY <1>1, <1>3 DEF TypeOK
<1>15. lru' \in Seq(Threads) /\ Distinct(lru') /\ Elements(lru') = Loaded
  <2>1. t \in Loaded
    BY <1>2, <1>3 DEF Loaded
  <2> QED BY <2>1, <1>1, <1>3, OrderTouched
<1>16. TypeOK'
  BY <1>1, <1>3, <1>7, <1>8, <1>10, <1>11, <1>12, <1>14, <1>15 DEF TypeOK
<1>17. \A u \in Threads : active'[u].engine = active[u].engine
  BY <1>6, <1>7
<1>18. \A u \in Threads : active[u].engine # None => active[u].engine \in Engines
  BY <1>1 DEF TypeOK, Entry
<1>19. Actors'
  <2>1. ASSUME NEW p \in Requests PROVE CallOK(p)'
    <3>1. CASE p = q
      BY <3>1, <1>14, Constants DEF CallOK
    <3>2. CASE p # q
      <4>1. request'[p] = request[p] /\ CallOK(p)
        BY <3>2, <1>1, <1>14 DEF Actors
      <4>2. request[p].pc # "idle" => request[p].thread \in Threads
        BY CallFacts
      <4> QED BY <4>1, <4>2, <1>3, <1>12, <1>17 DEF CallOK
    <3> QED BY <3>1, <3>2
  <2>2. ASSUME NEW u \in Threads PROVE EntryOK(u)'
    <3>1. EntryOK(u)
      BY <1>1 DEF Actors
    <3>2. active'[u].turn # None => active'[u].engine # None
      BY <3>1, <1>3, <1>7, <1>17 DEF EntryOK
    <3> QED BY <3>1, <3>2, <1>12, <1>17, <1>18 DEF EntryOK
  <2>3. ASSUME NEW k \in Turns PROVE MonitorOK(k)'
    <3>1. CASE k = n
      BY <3>1, <1>2, <1>5, <1>8, <1>10, <1>12 DEF MonitorOK
    <3>2. CASE k # n
      <4>1. MonitorOK(k) /\ monitor'[k] = monitor[k] /\ turn'[k] = turn[k]
        BY <3>2, <1>1, <1>8, <1>10 DEF Actors
      <4>2. monitor[k].pc \in Live => monitor[k].engine \in Engines
        BY MonitorFacts
      <4> QED BY <4>1, <4>2, <1>3, <1>12 DEF MonitorOK
    <3> QED BY <3>1, <3>2
  <2> QED BY <2>1, <2>2, <2>3 DEF Actors
<1>20. EngineOfOneThread'
  <2>1. \A p \in Requests : request'[p].pc \notin {"idle", "ensure"} =>
           Serves(request'[p].engine, request'[p].thread)
    BY <1>14, Holders, Constants
  <2>2. \A u \in Threads : active'[u].engine # None => Serves(active'[u].engine, u)
    BY <1>17, Holders
  <2>3. \A k \in Turns : monitor'[k].pc \in Live => Serves(monitor'[k].engine, monitor'[k].thread)
    BY <1>2, <1>5, <1>10, Holders
  <2> QED BY <2>1, <2>2, <2>3, ServesFrame DEF IInv
<1>21. OrderMatchesRegistry'
  <2>1. Elements(lru') = Loaded'
    BY <1>15, <1>17 DEF Loaded
  <2> QED BY <2>1, <1>15 DEF OrderMatchesRegistry, Elements, Distinct
<1>22. ClaimHasMonitor'
  <2> SUFFICES ASSUME NEW u \in Threads, NEW k \in Turns
               PROVE  active'[u].turn = k <=> monitor'[k].pc \in Live /\ monitor'[k].thread = u
    BY DEF ClaimHasMonitor
  <2>1. CASE k = n
    BY <2>1, <1>5, <1>6, <1>7, <1>10, <1>13
  <2>2. CASE k # n
    <3>1. active'[u].turn = k <=> active[u].turn = k
      <4>1. CASE u = t
        BY <4>1, <2>2, <1>3, <1>6, <1>7, Constants
      <4>2. CASE u # t
        BY <4>2, <1>7
      <4> QED BY <4>1, <4>2
    <3> QED BY <3>1, <2>2, <1>1, <1>10 DEF ClaimHasMonitor
  <2> QED BY <2>1, <2>2
<1>23. OneTurnInProgress'
  <2> SUFFICES ASSUME NEW k \in Turns, turn'[k] = "InProgress", k \notin lost
               PROVE  monitor'[k].pc \in Live /\ Owns(k)'
    BY <1>3 DEF OneTurnInProgress
  <2>1. monitor'[k].pc \in Live
    <3>1. CASE k = n
      BY <3>1, <1>5, <1>10
    <3>2. CASE k # n
      BY <3>2, <1>8, <1>10 DEF IInv, OneTurnInProgress
    <3> QED BY <3>1, <3>2
  <2>2. monitor'[k].thread \in Threads
    BY <2>1, <1>10, Constants DEF Watching
  <2> QED BY <2>1, <2>2, <1>22 DEF ClaimHasMonitor, Owns
<1>24. EngineInWorkspace'
  BY <1>11, <1>12, <1>17, <1>18 DEF IInv, EngineInWorkspace, Loaded
<1>25. AcceptedTurnIsHeld'
  <2> SUFFICES ASSUME NEW k \in Turns, monitor'[k].pc = "watch"
               PROVE  LET d == engine'[monitor'[k].engine]
                      IN  (\E i \in DOMAIN d.mail : d.mail[i] = k) \/ d.events # <<>> \/ d.state = "down"
    BY DEF AcceptedTurnIsHeld
  <2>1. CASE k = n
    <3>1. engine[e].state \in {"up", "down"}
      BY <1>1, <1>2 DEF TypeOK, EngineState
    <3> QED BY <2>1, <3>1, <1>2, <1>5, <1>10, <1>12
  <2>2. CASE k # n
    <3>1. monitor'[k] = monitor[k] /\ monitor[k].pc = "watch"
      BY <2>2, <1>10
    <3>2. monitor[k].engine \in Engines
      BY <3>1, MonitorFacts DEF Live
    <3>3. LET d == engine[monitor[k].engine]
          IN  (\E i \in DOMAIN d.mail : d.mail[i] = k) \/ d.events # <<>> \/ d.state = "down"
      BY <3>1 DEF IInv, AcceptedTurnIsHeld
    <3> QED BY <3>1, <3>2, <3>3, <1>12
  <2> QED BY <2>1, <2>2
<1> QED BY <1>16, <1>19, <1>20, <1>21, <1>22, <1>23, <1>24, <1>25 DEF IInv

-----------------------------------------------------------------------------
(* The start of the process, and every step.                               *)

(* What a process that has just started finds: no engine, no call, no        *)
(* monitor, and no turn in progress that it does not know of.                *)
LEMMA FreshStart ==
    ASSUME TypeOK, active = [t \in Threads |-> NoEntry], lru = <<>>,
           request = [q \in Requests |-> NoRequest], monitor = [n \in Turns |-> NoMonitor],
           \A n \in Turns : turn[n] # "InProgress"
    PROVE  IInv
<1>1. Actors
  BY Constants DEF Actors, CallOK, EntryOK, MonitorOK, Live, NoRequest, NoMonitor
<1>2. \A e \in Engines, t \in Threads : ~Serves(e, t)
  BY Constants DEF Serves
<1>3. EngineOfOneThread
  BY <1>2 DEF EngineOfOneThread
<1>4. Loaded = {}
  BY Constants DEF Loaded
<1>5. OrderMatchesRegistry /\ EngineInWorkspace
  BY <1>4 DEF OrderMatchesRegistry, EngineInWorkspace
<1>6. ClaimHasMonitor
  BY Constants DEF ClaimHasMonitor
<1>7. OneTurnInProgress
  BY DEF OneTurnInProgress
<1>8. AcceptedTurnIsHeld
  BY DEF AcceptedTurnIsHeld, NoMonitor
<1> QED BY <1>1, <1>3, <1>5, <1>6, <1>7, <1>8 DEF IInv

LEMMA InitIInv == Init => IInv
<1> SUFFICES ASSUME Init PROVE IInv
  OBVIOUS
<1>1. TypeOK
  BY Constants DEF Init, TypeOK, ThreadState, Status
<1>2. \A n \in Turns : turn[n] # "InProgress"
  BY DEF Init
<1> QED BY <1>1, <1>2, FreshStart DEF Init

LEMMA RestartStep ==
    ASSUME IInv, Restart
    PROVE  IInv'
<1>1. TypeOK
  BY DEF IInv
<1>2. [NoEngine EXCEPT !.state = "down"] \in EngineState
  BY Constants DEF EngineState
<1>3. engine' \in [Engines -> EngineState]
  BY <1>1, <1>2 DEF Restart, TypeOK
<1>4. turn' \in [Turns -> Status] /\ \A n \in Turns : turn'[n] # "InProgress"
  BY <1>1 DEF Restart, TypeOK, Status, Terminal
<1>5. /\ active' = [t \in Threads |-> NoEntry] /\ lru' = <<>> /\ leaving' = {} /\ loader' = "free"
      /\ request' = [q \in Requests |-> NoRequest] /\ monitor' = [n \in Turns |-> NoMonitor]
      /\ record' = record /\ lost' = lost
  BY DEF Restart
<1>6. incidents' \in Nat
  BY <1>1 DEF Restart, Incident, TypeOK
<1>7. TypeOK'
  BY <1>1, <1>3, <1>4, <1>5, <1>6, Constants DEF TypeOK
<1>8. Actors'
  BY <1>5, Constants DEF Actors, CallOK, EntryOK, MonitorOK, Live, NoRequest, NoMonitor
<1>9. \A e \in Engines, t \in Threads : ~Serves(e, t)'
  BY <1>5, Constants DEF Serves
<1>10. EngineOfOneThread'
  BY <1>9 DEF EngineOfOneThread
<1>11. Loaded' = {}
  BY <1>5, Constants DEF Loaded
<1>12. (OrderMatchesRegistry /\ EngineInWorkspace)'
  BY <1>5, <1>11 DEF OrderMatchesRegistry, EngineInWorkspace
<1>13. ClaimHasMonitor'
  BY <1>5, Constants DEF ClaimHasMonitor
<1>14. OneTurnInProgress'
  BY <1>4 DEF OneTurnInProgress
<1>15. AcceptedTurnIsHeld'
  BY <1>5 DEF AcceptedTurnIsHeld, NoMonitor
<1> QED BY <1>7, <1>8, <1>10, <1>12, <1>13, <1>14, <1>15 DEF IInv

LEMMA StutterStep ==
    ASSUME IInv, UNCHANGED vars
    PROVE  IInv'
BY DEF IInv, TypeOK, Actors, CallOK, EntryOK, MonitorOK, EngineOfOneThread, Serves,
       ClaimHasMonitor, OneTurnInProgress, Owns, OrderMatchesRegistry, Loaded,
       EngineInWorkspace, AcceptedTurnIsHeld

LEMMA NextIInv == IInv /\ [Next]_vars => IInv'
<1> SUFFICES ASSUME IInv, [Next]_vars PROVE IInv'
  OBVIOUS
<1>1. ASSUME NEW q \in Requests, Begin(q) \/ Request(q) PROVE IInv'
  BY <1>1, BeginStep, TakeEngineStep, BuildEngineStep, InstallEngineStep, DiscardEngineStep,
     EvictEngineStep, ForwardStep, ClaimStep, CleanupFailsStep DEF Request
<1>2. ASSUME NEW t \in Threads, UpdateThread(t) \/ InterruptTurn(t) PROVE IInv'
  BY <1>2, UpdateThreadStep, InterruptTurnStep
<1>3. ASSUME NEW e \in Engines, Engine(e) PROVE IInv'
  BY <1>3, EngineSteps
<1>4. ASSUME NEW n \in Turns, Monitor(n) \/ MonitorFails(n) PROVE IInv'
  BY <1>4, ObserveStep, ObserveClosedStep, PublishStep, ReleaseStep, PublishFailureStep,
     EvictFailedStep, MonitorFailsStep DEF Monitor
<1>5. CASE Restart
  BY <1>5, RestartStep
<1>6. CASE UNCHANGED vars
  BY <1>6, StutterStep
<1> QED BY <1>1, <1>2, <1>3, <1>4, <1>5, <1>6 DEF Next

(* The invariant holds in every reachable state.                             *)
THEOREM Invariant == Spec => []IInv
BY InitIInv, NextIInv, PTL DEF Spec

(* Every variable has its type: only engines that exist are sent their       *)
(* Shutdown, whoever removed them from the registry.                         *)
THEOREM TypeCorrect == Spec => []TypeOK
<1>1. IInv => TypeOK
  BY DEF IInv
<1> QED BY <1>1, Invariant, PTL

(* A thread is claimed exactly as long as the turn that claimed it has a     *)
(* monitor: no eviction, edit or late engine takes a claim away, and no      *)
(* claim outlives its monitor.                                               *)
THEOREM ClaimsAreHeld == Spec => []ClaimHasMonitor
<1>1. IInv => ClaimHasMonitor
  BY DEF IInv
<1> QED BY <1>1, Invariant, PTL

(* A turn in progress is the one that claims its thread, unless its terminal *)
(* record could not be saved, or it was not accepted and                     *)
(* cleanup_unaccepted_turn_records could not remove it.                      *)
THEOREM OneTurnAtATime == Spec => []OneTurnInProgress
<1>1. IInv => OneTurnInProgress
  BY DEF IInv
<1> QED BY <1>1, Invariant, PTL

(* The order of use names every thread that has an engine, once, and no      *)
(* other, through touches, edits, failures and the rotating eviction scan.   *)
THEOREM OrderIsTheRegistry == Spec => []OrderMatchesRegistry
<1>1. IInv => OrderMatchesRegistry
  BY DEF IInv
<1> QED BY <1>1, Invariant, PTL

(* A registered engine was built for the workspace its thread has now.       *)
THEOREM EnginesAreCurrent == Spec => []EngineInWorkspace
<1>1. IInv => EngineInWorkspace
  BY DEF IInv
<1> QED BY <1>1, Invariant, PTL

(* An accepted turn waits in a mailbox, has its end in the events, or its    *)
(* engine is gone: a monitor never waits for a turn that was forgotten.      *)
THEOREM TurnsAreNotForgotten == Spec => []AcceptedTurnIsHeld
<1>1. IInv => AcceptedTurnIsHeld
  BY DEF IInv
<1> QED BY <1>1, Invariant, PTL

(* An engine never serves two threads, not even in the hands of a call or a  *)
(* monitor after it left the registry.                                       *)
THEOREM EnginesAreNotShared == Spec => []EngineOfOneThread
<1>1. IInv => EngineOfOneThread
  BY DEF IInv
<1> QED BY <1>1, Invariant, PTL

(* A terminal record is final: neither the failure path of a monitor nor the *)
(* recovery after a crash changes it.                                        *)
THEOREM TerminalRecordsStay == Spec => TerminalIsFinal
<1>1. ASSUME IInv, [Next]_vars
      PROVE  \A n \in Turns : turn[n] \in Terminal => turn'[n] = turn[n]
  <2>1. TypeOK /\ Actors
    BY <1>1 DEF IInv
  <2> SUFFICES ASSUME NEW n \in Turns, turn[n] \in Terminal PROVE turn'[n] = turn[n]
    OBVIOUS
  <2>2. turn[n] \notin {"None", "InProgress"}
    BY DEF Terminal
  <2>3. ASSUME NEW q \in Requests, Begin(q) \/ Request(q) PROVE turn'[n] = turn[n]
    <3>1. CASE Claim(q) \/ CleanupFails(q)
      <4>1. PICK k \in Turns : turn[k] = "None" /\ turn' = [turn EXCEPT ![k] = "InProgress"]
        BY <3>1 DEF Claim, CleanupFails
      <4> QED BY <4>1, <2>1, <2>2 DEF TypeOK
    <3>2. CASE ~Claim(q) /\ ~CleanupFails(q)
      <4>1. turn' = turn
        BY <2>3, <3>2 DEF Begin, Request, TakeEngine, BuildEngine, InstallEngine, DiscardEngine,
                          EvictEngine, Check, Reserve, ClaimFails
      <4> QED BY <4>1
    <3> QED BY <3>1, <3>2
  <2>4. ASSUME NEW k \in Turns, Monitor(k) \/ MonitorFails(k) PROVE turn'[n] = turn[n]
    <3>1. CASE Publish(k)
      <4>1. turn[k] = "InProgress"
        BY <3>1, <2>1 DEF Publish, Actors, MonitorOK
      <4> QED BY <3>1, <4>1, <2>1, <2>2 DEF Publish, TypeOK
    <3>2. CASE PublishFailure(k)
      BY <3>2, <2>1, <2>2 DEF PublishFailure, FailedStatus, TypeOK
    <3>3. CASE ~Publish(k) /\ ~PublishFailure(k)
      <4>1. turn' = turn
        BY <2>4, <3>3 DEF Monitor, MonitorFails, Observe, ObserveClosed, Release, EvictFailed
      <4> QED BY <4>1
    <3> QED BY <3>1, <3>2, <3>3
  <2>5. CASE Restart
    BY <2>1, <2>2, <2>5 DEF Restart, TypeOK
  <2>6. CASE \/ \E t \in Threads : UpdateThread(t) \/ InterruptTurn(t)
             \/ \E e \in Engines : Engine(e)
             \/ UNCHANGED vars
    <3>1. turn' = turn
      BY <2>6 DEF UpdateThread, InterruptTurn, Engine, Stop, RunTurn, Shutdown
    <3> QED BY <3>1
  <2> QED BY <1>1, <2>3, <2>4, <2>5, <2>6 DEF Next
<1>2. IInv /\ [Next]_vars => [\A n \in Turns : turn[n] \in Terminal => turn'[n] = turn[n]]_vars
  BY <1>1
<1> QED BY <1>2, Invariant, PTL DEF Spec, TerminalIsFinal
=============================================================================
