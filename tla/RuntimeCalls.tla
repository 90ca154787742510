---------------------------- MODULE RuntimeCalls ----------------------------
(***************************************************************************)
(* Client-executed tool calls of one turn: who settles a call, and what    *)
(* the durable event log of the thread says about it.                      *)
(*                                                                         *)
(* A call is registered and announced by its executor, and then raced for  *)
(* by the result a client posts, the executor's timer, and the end of the  *)
(* turn.  The winner takes the sender out of the registry entry (a claim)  *)
(* and a task of its own appends the terminal event under the projection   *)
(* lock, which every snapshot of the thread takes too.  An append may fail *)
(* and be rolled back, or leave it open whether the line is in the file.   *)
(* The end of the turn cancels what is left, saves the turn and appends    *)
(* turn.completed; when that fails, or the process dies, a receipt is      *)
(* queued that the next reader of the thread flushes.                      *)
(*                                                                         *)
(* A line of the log is its event and its call.  A line torn by a failed   *)
(* rollback, payloads, sequence numbers and the broadcast are left out,    *)
(* and so are the prompts for user input, which the same end of turn       *)
(* settles by the same protocol.                                           *)
(***************************************************************************)
EXTENDS Naturals, Sequences, FiniteSets

CONSTANTS
    Calls,
    NoCall,
    MaxPending,    \* MAX_PENDING_DYNAMIC_TOOL_CALLS
    FaultBound,    \* bound of the model: failed appends and saves
    CrashBound     \* bound of the model: deaths of the process

ASSUME CallsAssumption ==
    /\ NoCall \notin Calls
    /\ MaxPending \in Nat /\ FaultBound \in Nat /\ CrashBound \in Nat

VARIABLES
    log,          \* events/<thread>.jsonl
    turn,         \* the status in turns/<turn>.json: "InProgress" or "Terminal"
    up,           \* a process serves the thread
    active,       \* the claim of the thread by the turn (active_turn)
    cancelled,    \* the engine of the turn was cancelled
    entry,        \* pending_dynamic_tools: absent, awaiting, settling, indeterminate
    channel,      \* the receiver of the call: open, result, closed
    exec,         \* the executor of the call: where execute_dynamic_tool is
    answer,       \* what it returned
    settle,       \* the settlement task of the call: none, or its outcome
    closer,       \* the end of the turn, or the flush of its receipt
    receipt,      \* recovery_receipts: [queued, calls]
    projection,   \* holder of the projection lock between two steps
    accepted,     \* history: results answered 202
    unsure,       \* history: an append was left indeterminate
    monitor,      \* history: the monitor is fine, failed, or even its failure path did
    faults, crashes

registry == <<entry, channel, exec, answer, settle>>
store    == <<log, turn>>
history  == <<accepted, unsure, monitor>>
vars     == <<store, up, active, cancelled, registry, closer, receipt, projection, history,
              faults, crashes>>

Terminal == {"resolved", "canceled", "timeout"}
Live     == {"enter", "emit", "waiting", "timedout", "watching", "acking", "rx"}

Line(event, c) == [event |-> event, call |-> c]

InLog(event, c) == \E i \in DOMAIN log : log[i] = Line(event, c)
Requested(c)    == InLog("requested", c)
Settled(c)      == \E event \in Terminal : InLog(event, c)
Completed       == InLog("completed", NoCall)

-----------------------------------------------------------------------------
(* append_event.                                                           *)

Fault == faults < FaultBound /\ faults' = faults + 1

\* The result of an append: the line is there; or the failure was rolled back;
\* or the rollback failed too, and the line is there or not.
Append1(event, c, result) ==
    \/ /\ result = "ok"
       /\ log' = Append(log, Line(event, c))
       /\ UNCHANGED <<faults, unsure>>
    \/ /\ result = "rolled_back"
       /\ Fault
       /\ UNCHANGED <<log, unsure>>
    \/ /\ result = "indeterminate"
       /\ Fault
       /\ unsure' = TRUE
       /\ log' \in {log, Append(log, Line(event, c))}

Results == {"ok", "rolled_back", "indeterminate"}

-----------------------------------------------------------------------------
(* The executor of a call.                                                 *)

Goto(c, pc) == exec' = [exec EXCEPT ![c] = pc]

Return(c, a) ==
    /\ Goto(c, "done")
    /\ answer' = [answer EXCEPT ![c] = a]

\* A fresh call id; which one makes no difference.
Unused(c) == c = CHOOSE d \in Calls : exec[d] = "idle"

\* The engine runs one tool that is not parallel at a time; active_turn_id.
Call(c) ==
    /\ up /\ active /\ ~cancelled
    /\ exec[c] = "idle" /\ Unused(c)
    /\ \A d \in Calls : exec[d] \notin Live
    /\ closer.job = "none"
    /\ Goto(c, "enter")
    /\ UNCHANGED <<store, up, active, cancelled, entry, channel, answer, settle, closer, receipt,
                   projection, history, faults, crashes>>

\* register_pending_dynamic_tool, under the projection lock.
Register(c) ==
    /\ exec[c] = "enter" /\ projection = "free"
    /\ IF Cardinality({d \in Calls : entry[d] # "absent"}) >= MaxPending
         THEN Return(c, "error") /\ UNCHANGED <<entry, projection>>
         ELSE /\ entry' = [entry EXCEPT ![c] = "awaiting"]
              /\ Goto(c, "emit")
              /\ projection' = "exec"
              /\ UNCHANGED answer
    /\ UNCHANGED <<store, up, active, cancelled, channel, settle, closer, receipt, history,
                   faults, crashes>>

\* tool_call.requested; when it cannot be appended the registration goes, with
\* the sender if no one claimed it.
EmitRequest(c) ==
    /\ exec[c] = "emit"
    /\ \E result \in Results :
         /\ Append1("requested", c, result)
         /\ IF result = "ok"
              THEN Goto(c, "waiting") /\ UNCHANGED <<entry, answer>>
              ELSE Return(c, "error") /\ entry' = [entry EXCEPT ![c] = "absent"]
    /\ projection' = "free"
    /\ UNCHANGED <<turn, up, active, cancelled, channel, settle, closer, receipt, accepted, monitor,
                   crashes>>

\* The receiver is ready.
Receive(c) ==
    /\ exec[c] \in {"waiting", "watching", "rx"}
    /\ channel[c] # "open"
    /\ Return(c, IF channel[c] = "result" THEN "result" ELSE "error")
    /\ UNCHANGED <<store, up, active, cancelled, entry, channel, settle, closer, receipt,
                   projection, history, faults, crashes>>

\* The bounded wait expired with nothing received.
TimerFires(c) ==
    /\ exec[c] = "waiting" /\ channel[c] = "open"
    /\ Goto(c, "timedout")
    /\ UNCHANGED <<store, up, active, cancelled, entry, channel, answer, settle, closer, receipt,
                   projection, history, faults, crashes>>

\* claim_pending_dynamic_tool by the timer, and again whenever the settlement it
\* watches has ended.
TimerClaims(c) ==
    /\ exec[c] = "timedout"
    /\ \/ /\ entry[c] = "awaiting"
          /\ entry' = [entry EXCEPT ![c] = "settling"]
          /\ settle' = [settle EXCEPT ![c] = "timeout"]
          /\ Goto(c, "acking")
          /\ UNCHANGED answer
       \/ /\ entry[c] = "settling"
          /\ Goto(c, "watching")
          /\ UNCHANGED <<entry, settle, answer>>
       \/ /\ entry[c] = "indeterminate"
          /\ Return(c, "error")
          /\ UNCHANGED <<entry, settle>>
       \/ /\ entry[c] = "absent"
          /\ Goto(c, "rx")
          /\ UNCHANGED <<entry, settle, answer>>
    /\ UNCHANGED <<store, up, active, cancelled, channel, closer, receipt, projection, history,
                   faults, crashes>>

\* The engine was cancelled: the future of the tool is dropped where it waits.
Drop(c) ==
    /\ cancelled
    /\ exec[c] \in Live \ {"timedout"}
    /\ Goto(c, "dropped")
    /\ projection' = IF exec[c] = "emit" THEN "free" ELSE projection
    /\ UNCHANGED <<store, up, active, cancelled, entry, channel, answer, settle, closer, receipt,
                   history, faults, crashes>>

-----------------------------------------------------------------------------
(* Settlement.                                                             *)

\* deliver_dynamic_tool_result: the client's result claims a call that awaits
\* one; in every other state it is refused.
Deliver(c) ==
    /\ up
    /\ Requested(c) /\ entry[c] = "awaiting"
    /\ entry' = [entry EXCEPT ![c] = "settling"]
    /\ settle' = [settle EXCEPT ![c] = "resolved"]
    /\ UNCHANGED <<store, up, active, cancelled, channel, exec, answer, closer, receipt,
                   projection, history, faults, crashes>>

\* Mutation: a call whose receipt is indeterminate awaits again.
AfterRestored(result) == IF result = "ok" THEN "absent" ELSE "awaiting"

\* Mutation: the entry goes although its receipt was rolled back.
AfterRemoved(result) == IF result = "indeterminate" THEN "indeterminate" ELSE "absent"

\* Mutation: the claim is not given back when its receipt was rolled back.
AfterKept(result) ==
    CASE result = "ok"          -> "absent"
      [] result = "rolled_back" -> "settling"
      [] OTHER                  -> "indeterminate"

\* What a settlement leaves in the registry: nothing, the call awaiting again,
\* or an entry that no one may claim.
After(result) ==
    CASE result = "ok"          -> "absent"
      [] result = "rolled_back" -> "awaiting"
      [] OTHER                  -> "indeterminate"

\* Mutation: the result is handed over whether or not its receipt is in the log.
ChannelEager(outcome, result) ==
    CASE outcome = "resolved"    -> "result"
      [] result = "rolled_back"  -> "open"
      [] OTHER                   -> "closed"

\* The sender: used for a result, dropped otherwise, given back on a rollback.
Channel(outcome, result) ==
    CASE result = "rolled_back"                   -> "open"
      [] result = "ok" /\ outcome = "resolved"    -> "result"
      [] OTHER                                    -> "closed"

\* The body of spawn_dynamic_tool_settlement, one hold of the projection lock:
\* the receipt, then the registry, the watchers, the channel and the ack.
Settle(c) ==
    /\ settle[c] # "none" /\ projection = "free"
    /\ \E result \in Results :
         /\ Append1(settle[c], c, result)
         /\ entry' = [entry EXCEPT ![c] = IF @ = "absent" THEN @ ELSE After(result)]
         /\ channel' = [channel EXCEPT ![c] = Channel(settle[c], result)]
         /\ closer' = [closer EXCEPT !.watch = @ \ {c},
                                     !.current = IF @ = c THEN NoCall ELSE @,
                                     !.error = @ \/ (closer.current = c /\ result # "ok")]
         /\ accepted' = IF result = "ok" /\ settle[c] = "resolved" THEN accepted \cup {c}
                                                                  ELSE accepted
         /\ exec' = [exec EXCEPT ![c] = CASE @ = "watching" -> "timedout"
                                          [] @ = "acking"   -> "done"
                                          [] OTHER          -> @]
         /\ answer' = [answer EXCEPT ![c] =
              IF exec[c] = "acking" THEN (IF result = "ok" THEN "timeout" ELSE "error") ELSE @]
    /\ settle' = [settle EXCEPT ![c] = "none"]
    /\ UNCHANGED <<turn, up, active, cancelled, receipt, projection, monitor, crashes>>

-----------------------------------------------------------------------------
(* The end of the turn.                                                    *)

NoJob == [job |-> "none", pc |-> "off", claims |-> {}, watch |-> {}, current |-> NoCall,
          error |-> FALSE, settled |-> TRUE]

Job(job) == [NoJob EXCEPT !.job = job, !.pc = "settle"]

\* TurnComplete: the engine sends it after its last tool.
EndTurn ==
    /\ up /\ active /\ closer.job = "none"
    /\ \A c \in Calls : exec[c] \notin Live
    /\ closer' = Job("monitor")
    /\ UNCHANGED <<store, up, active, cancelled, registry, receipt, projection, history,
                   faults, crashes>>

\* A write of the monitor failed: monitor_claimed_turn cancels the engine, whose
\* tools notice later, and settles the failure.
MonitorFails ==
    /\ up /\ active /\ closer.job = "none"
    /\ Fault
    /\ monitor' = "failed"
    /\ cancelled' = TRUE
    /\ closer' = Job("failure")
    /\ UNCHANGED <<store, up, active, registry, receipt, projection, accepted, unsure, crashes>>

\* interrupt_turn
Interrupt ==
    /\ up /\ active /\ ~cancelled
    /\ cancelled' = TRUE
    /\ UNCHANGED <<store, up, active, registry, closer, receipt, projection, history,
                   faults, crashes>>

\* Where an error of the settlement loop leads: from the monitor to its failure
\* path, which goes on without; a flush gives up until the next read.
OnError ==
    CASE closer.job = "monitor" -> Job("failure")
      [] closer.job = "failure" -> [NoJob EXCEPT !.job = "failure", !.pc = "publish",
                                                 !.settled = FALSE]
      [] OTHER -> NoJob

SettleError ==
    /\ closer' = OnError
    /\ cancelled' = (cancelled \/ closer.job = "monitor")
    /\ monitor' = IF closer.job = "monitor" THEN "failed" ELSE monitor

Indeterminate == {c \in Calls : entry[c] = "indeterminate"}
Awaiting      == {c \in Calls : entry[c] = "awaiting"}
Settling      == {c \in Calls : entry[c] = "settling"}

\* claim_or_watch_pending_dynamic_tools_for_turn takes every sender, and then
\* an indeterminate entry ends the loop: the senders are dropped.
RefuseIndeterminate ==
    /\ closer.pc = "settle"
    /\ Indeterminate # {}
    /\ entry' = [c \in Calls |-> IF c \in Awaiting THEN "settling" ELSE entry[c]]
    /\ channel' = [c \in Calls |-> IF c \in Awaiting THEN "closed" ELSE channel[c]]
    /\ SettleError
    /\ UNCHANGED <<store, up, active, exec, answer, settle, receipt, projection, accepted, unsure,
                   faults, crashes>>

\* Mutation: a call that another party settles is not waited for.
ClaimOnly ==
    /\ closer.pc = "settle"
    /\ Indeterminate = {}
    /\ entry' = [c \in Calls |-> IF c \in Awaiting THEN "settling" ELSE entry[c]]
    /\ closer' = IF Awaiting = {} THEN [closer EXCEPT !.pc = "publish"]
                 ELSE [closer EXCEPT !.pc = "supervise", !.claims = Awaiting]
    /\ UNCHANGED <<store, up, active, cancelled, channel, exec, answer, settle, receipt,
                   projection, history, faults, crashes>>

ClaimOrWatch ==
    /\ closer.pc = "settle"
    /\ Indeterminate = {}
    /\ entry' = [c \in Calls |-> IF c \in Awaiting THEN "settling" ELSE entry[c]]
    /\ closer' = IF Awaiting \cup Settling = {}
                   THEN [closer EXCEPT !.pc = "publish"]
                   ELSE [closer EXCEPT !.pc = "supervise", !.claims = Awaiting, !.watch = Settling]
    /\ UNCHANGED <<store, up, active, cancelled, channel, exec, answer, settle, receipt,
                   projection, history, faults, crashes>>

\* One claim after the other is settled and awaited.
CancelNext ==
    /\ closer.pc = "supervise" /\ closer.current = NoCall
    /\ \E c \in closer.claims :
         /\ settle' = [settle EXCEPT ![c] = "canceled"]
         /\ closer' = [closer EXCEPT !.claims = @ \ {c}, !.current = c]
    /\ UNCHANGED <<store, up, active, cancelled, entry, channel, exec, answer, receipt,
                   projection, history, faults, crashes>>

\* The batch is done, and the settlements of others have ended.
Supervised ==
    /\ closer.pc = "supervise" /\ closer.claims = {} /\ closer.current = NoCall /\ closer.watch = {}
    /\ IF closer.error THEN SettleError
       ELSE closer' = [closer EXCEPT !.pc = "settle"] /\ UNCHANGED <<cancelled, monitor>>
    /\ UNCHANGED <<store, up, active, registry, receipt, projection, accepted, unsure,
                   faults, crashes>>

\* The terminal record, the first write under the projection lock.
SaveTurn ==
    /\ closer.pc = "publish" /\ closer.job # "flush" /\ projection = "free"
    /\ projection' = "closer"
    /\ turn' = "Terminal"
    /\ closer' = [closer EXCEPT !.pc = "receipt"]
    /\ UNCHANGED <<log, up, active, cancelled, registry, receipt, history, faults, crashes>>

\* The failure path gives the thread up when even that fails.
SaveTurnFails ==
    /\ closer.pc = "publish" /\ closer.job # "flush" /\ projection = "free"
    /\ Fault
    /\ closer' = IF closer.job = "monitor" THEN OnError ELSE NoJob
    /\ cancelled' = TRUE
    /\ monitor' = IF closer.job = "monitor" THEN "failed" ELSE "abandoned"
    /\ active' = (closer.job = "monitor")
    /\ UNCHANGED <<store, up, registry, receipt, projection, accepted, unsure, crashes>>

\* emit_turn_completed_if_missing: the scan and the append under event_emit.
AppendCompleted(result) ==
    IF Completed THEN result = "ok" /\ UNCHANGED <<log, faults, unsure>>
                 ELSE Append1("completed", NoCall, result)

\* Mutation: nothing is queued.
NotQueued == [queued |-> FALSE, calls |-> {}]

\* queue_recovery_receipt
Queued == [queued |-> TRUE, calls |-> {}]

\* The monitor's end of the turn; a failure starts the failure path.
Publish ==
    /\ closer.pc = "receipt" /\ closer.job = "monitor"
    /\ \E result \in Results :
         /\ AppendCompleted(result)
         /\ active' = (result # "ok")
         /\ closer' = IF result = "ok" THEN NoJob ELSE OnError
         /\ cancelled' = (cancelled \/ result # "ok")
         /\ monitor' = IF result = "ok" THEN monitor ELSE "failed"
    /\ projection' = "free"
    /\ UNCHANGED <<turn, up, registry, receipt, accepted, crashes>>

\* The failure path's: whatever was not settled or appended is queued, and the
\* engine is evicted.
PublishFailure ==
    /\ closer.pc = "receipt" /\ closer.job = "failure"
    /\ IF closer.settled
         THEN \E result \in Results :
                /\ AppendCompleted(result)
                /\ receipt' = IF result = "ok" THEN receipt ELSE Queued
         ELSE receipt' = Queued /\ UNCHANGED <<log, faults, unsure>>
    /\ active' = FALSE
    /\ closer' = NoJob
    /\ projection' = "free"
    /\ UNCHANGED <<turn, up, cancelled, registry, accepted, monitor, crashes>>

-----------------------------------------------------------------------------
(* Recovery.                                                               *)

\* get_thread and get_thread_detail: flush_recovery_receipts_for_thread.
Read ==
    /\ up /\ receipt.queued /\ closer.job = "none"
    /\ closer' = Job("flush")
    /\ UNCHANGED <<store, up, active, cancelled, registry, receipt, projection, history,
                   faults, crashes>>

FlushLock ==
    /\ closer.job = "flush" /\ closer.pc = "publish" /\ projection = "free"
    /\ projection' = "closer"
    /\ closer' = [closer EXCEPT !.pc = "receipt", !.claims = receipt.calls]
    /\ UNCHANGED <<store, up, active, cancelled, registry, receipt, history, faults, crashes>>

\* emit_recovered_dynamic_cancellation_if_missing
CancelIfMissing(c, result) ==
    IF Settled(c) THEN result = "ok" /\ UNCHANGED <<log, faults, unsure>>
                  ELSE Append1("canceled", c, result)

FlushCall ==
    /\ closer.job = "flush" /\ closer.pc = "receipt"
    /\ \E c \in closer.claims, result \in Results :
         /\ CancelIfMissing(c, result)
         /\ closer' = IF result = "ok" THEN [closer EXCEPT !.claims = @ \ {c}] ELSE NoJob
         /\ projection' = IF result = "ok" THEN projection ELSE "free"
    /\ UNCHANGED <<turn, up, active, cancelled, registry, receipt, accepted, monitor, crashes>>

FlushTurn ==
    /\ closer.job = "flush" /\ closer.pc = "receipt" /\ closer.claims = {}
    /\ \E result \in Results :
         /\ AppendCompleted(result)
         /\ receipt' = IF result = "ok" THEN [queued |-> FALSE, calls |-> {}] ELSE receipt
    /\ closer' = NoJob
    /\ projection' = "free"
    /\ UNCHANGED <<turn, up, active, cancelled, registry, accepted, monitor, crashes>>

Crash ==
    /\ up /\ crashes < CrashBound
    /\ crashes' = crashes + 1
    /\ up' = FALSE /\ active' = FALSE
    /\ entry' = [c \in Calls |-> "absent"]
    /\ channel' = [c \in Calls |-> "open"]
    /\ exec' = [c \in Calls |-> "gone"]
    /\ settle' = [c \in Calls |-> "none"]
    /\ closer' = NoJob
    /\ receipt' = [queued |-> FALSE, calls |-> {}]
    /\ projection' = "free"
    /\ UNCHANGED <<store, cancelled, answer, history, faults>>

\* recover_interrupted_state: the turn is interrupted, and its missing receipts
\* are queued for the first reader.
Recover ==
    LET unresolved == {c \in Calls : Requested(c) /\ ~Settled(c)}
    IN  /\ ~up /\ up' = TRUE
        /\ turn' = "Terminal"
        /\ receipt' = [queued |-> ~Completed \/ unresolved # {}, calls |-> unresolved]
        /\ UNCHANGED <<log, active, cancelled, registry, closer, projection, history,
                       faults, crashes>>

Init ==
    /\ log = <<>>
    /\ turn = "InProgress"
    /\ up = TRUE /\ active = TRUE /\ cancelled = FALSE
    /\ entry = [c \in Calls |-> "absent"]
    /\ channel = [c \in Calls |-> "open"]
    /\ exec = [c \in Calls |-> "idle"]
    /\ answer = [c \in Calls |-> "none"]
    /\ settle = [c \in Calls |-> "none"]
    /\ closer = NoJob
    /\ receipt = [queued |-> FALSE, calls |-> {}]
    /\ projection = "free"
    /\ accepted = {} /\ unsure = FALSE /\ monitor = "fine"
    /\ faults = 0 /\ crashes = 0

Executor(c) ==
    \/ Register(c) \/ EmitRequest(c) \/ Receive(c) \/ TimerFires(c) \/ TimerClaims(c) \/ Drop(c)

Closer ==
    \/ RefuseIndeterminate \/ ClaimOrWatch \/ CancelNext \/ Supervised
    \/ SaveTurn \/ Publish \/ PublishFailure
    \/ FlushLock \/ FlushCall \/ FlushTurn

Next ==
    \/ \E c \in Calls : Call(c) \/ Executor(c) \/ Deliver(c) \/ Settle(c)
    \/ Closer \/ SaveTurnFails
    \/ EndTurn \/ MonitorFails \/ Interrupt \/ Read
    \/ Crash \/ Recover

Spec == Init /\ [][Next]_vars

\* Every task that can go on does, timers fire, the projection lock is handed
\* over in the order of arrival, the engine ends its turn and the thread is
\* read.  A client need never post a result.
FairSpec ==
    /\ Spec
    /\ \A c \in Calls : SF_vars(Executor(c)) /\ SF_vars(Settle(c))
    /\ SF_vars(Closer)
    /\ WF_vars(EndTurn) /\ WF_vars(Read) /\ WF_vars(Recover)

-----------------------------------------------------------------------------
(* Properties.                                                             *)

\* Every variable has its type; in particular a settlement leaves the registry
\* entry in a state that every other party to the race knows.
TypeOK ==
    /\ log \in Seq([event : Terminal \cup {"requested", "completed"}, call : Calls \cup {NoCall}])
    /\ turn \in {"InProgress", "Terminal"}
    /\ up \in BOOLEAN /\ active \in BOOLEAN /\ cancelled \in BOOLEAN /\ unsure \in BOOLEAN
    /\ monitor \in {"fine", "failed", "abandoned"}
    /\ entry \in [Calls -> {"absent", "awaiting", "settling", "indeterminate"}]
    /\ channel \in [Calls -> {"open", "result", "closed"}]
    /\ exec \in [Calls -> Live \cup {"idle", "done", "dropped", "gone"}]
    /\ answer \in [Calls -> {"none", "result", "timeout", "error"}]
    /\ settle \in [Calls -> Terminal \cup {"none"}]
    /\ closer \in [job : {"none", "monitor", "failure", "flush"},
                   pc : {"off", "settle", "supervise", "publish", "receipt"},
                   claims : SUBSET Calls, watch : SUBSET Calls, current : Calls \cup {NoCall},
                   error : BOOLEAN, settled : BOOLEAN]
    /\ receipt \in [queued : BOOLEAN, calls : SUBSET Calls]
    /\ projection \in {"free", "exec", "closer"}
    /\ accepted \subseteq Calls
    /\ faults \in Nat /\ crashes \in Nat

\* A call is settled at most once and the turn completed at most once: the log
\* never holds two terminal events of a call or two completions, whoever raced
\* for them, whichever append failed half-way, and whatever the failure path of
\* the monitor or the recovery after a crash appended.
OneReceipt ==
    LET ends == {i \in DOMAIN log : log[i].event # "requested"}
    IN  \A i, j \in ends : log[i].call = log[j].call => i = j

\* What the executor returned, and what the client was answered, agree with the
\* receipt that is in the log.
AnswersHaveReceipts ==
    /\ \A c \in Calls : answer[c] \in {"result", "timeout"} =>
         InLog(IF answer[c] = "result" THEN "resolved" ELSE "timeout", c)
    /\ \A c \in accepted : InLog("resolved", c)

\* Whoever takes a snapshot finds every announced call among the pending ones,
\* settled in the log, or in a receipt to be flushed: a client that reloads
\* strands no call.
SnapshotComplete ==
    up /\ projection = "free" /\ ~unsure =>
       \A c \in Calls : Requested(c) =>
          entry[c] # "absent" \/ Settled(c) \/ c \in receipt.calls

\* A turn that ended without a failure of its monitor, and with no append left
\* indeterminate, has its completion after the receipts of all its calls, also
\* when it was completed by a restart.
CallsBeforeCompletion ==
    monitor = "fine" /\ ~unsure => \A i, j \in DOMAIN log :
       log[i].event = "requested" /\ log[j].event = "completed" =>
          \E k \in 1..(j - 1) : log[k].call = log[i].call /\ log[k].event \in Terminal

\* An announced call gets its receipt, although settlements are rolled back and
\* the process dies, unless an append was left indeterminate or the monitor
\* failed.
CallsSettle ==
    \A c \in Calls : Requested(c) ~> (Settled(c) \/ unsure \/ monitor # "fine")

\* A terminal record is followed by its completion event, by a flush of a reader
\* if need be.  Two cases are excepted, in which emit_turn_completed_if_missing is
\* not tried again before the next restart: an append was left indeterminate, or
\* the failure path of the monitor could not save the record either.
CompletionFollows == turn = "Terminal" ~> (Completed \/ unsure \/ monitor = "abandoned")
=============================================================================
