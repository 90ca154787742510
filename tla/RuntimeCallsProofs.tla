-------------------------- MODULE RuntimeCallsProofs --------------------------
(***************************************************************************)
(* Proofs about the calls of a turn, for every set of calls, every limit   *)
(* of the registry and every number of faults and deaths of the process.   *)
(*                                                                         *)
(* The argument is an ownership argument.  The right to append the receipt *)
(* of a call is in one place at a time: with the call that has not been    *)
(* registered, in the registry entry that awaits an answer, in the claims  *)
(* of the closer, or in the settlement task.  It is handed on by a step    *)
(* that takes it from where it was, and is used up by the append.          *)
(***************************************************************************)
EXTENDS RuntimeCalls, SequenceTheorems, TLAPS

Lines == [event : Terminal \cup {"requested", "completed"}, call : Calls \cup {NoCall}]

\* Where the right to settle the call c is, and that it is still there.
Ownership(c) ==
    /\ exec[c] \in {"idle", "enter"} =>
         entry[c] = "absent" /\ settle[c] = "none" /\ c \notin closer.claims /\ ~Settled(c)
    /\ entry[c] = "awaiting" =>
         settle[c] = "none" /\ c \notin closer.claims /\ ~Settled(c)
    /\ settle[c] # "none" => c \notin closer.claims /\ ~Settled(c)
    /\ c \in closer.claims =>
         IF closer.pc = "supervise" THEN ~Settled(c) /\ exec[c] # "gone" ELSE exec[c] = "gone"

\* What the executor, the channel and the client have been told is in the log.
Truthful(c) ==
    /\ exec[c] = "acking" => settle[c] = "timeout"
    /\ channel[c] = "result" => InLog("resolved", c)
    /\ answer[c] = "result" => InLog("resolved", c)
    /\ answer[c] = "timeout" => InLog("timeout", c)
    /\ c \in accepted => InLog("resolved", c)

\* An announced call is pending, settled or queued, from the announcement on.
Accounted(c) ==
    /\ exec[c] \in {"idle", "enter", "emit"} => ~Requested(c)
    /\ exec[c] = "emit" => projection = "exec" /\ entry[c] # "absent"
    /\ \A d \in Calls : exec[c] = "emit" /\ exec[d] = "emit" => c = d
    /\ up /\ ~unsure /\ Requested(c) =>
         entry[c] # "absent" \/ Settled(c) \/ c \in receipt.calls
    /\ c \in receipt.calls =>
         exec[c] = "gone" /\ (closer.pc = "receipt" => c \in closer.claims \/ Settled(c))

\* A call is over where the end of the turn, or a death, has left it behind.
Behind(c) ==
    /\ exec[c] = "gone" =>
         /\ entry[c] = "absent" /\ settle[c] = "none" /\ ~active
         /\ closer.job \in {"none", "flush"}
    /\ ~up => exec[c] = "gone"
    /\ closer.job = "monitor" =>
         /\ exec[c] \notin Live
         /\ closer.pc \in {"publish", "receipt"} => entry[c] = "absent"
    /\ receipt.queued /\ monitor = "fine" => exec[c] = "gone"
    /\ Completed /\ monitor = "fine" => exec[c] \notin {"enter", "emit"}

\* The closer and the process.
Closing ==
    /\ closer.pc = "receipt" => projection = "closer"
    /\ closer.job = "none" => closer.pc = "off" /\ closer.claims = {}
    /\ ~up => closer.job = "none" /\ ~active /\ projection = "free"
    /\ closer.job = "failure" => monitor # "fine"
    /\ closer.job = "flush" => receipt.queued
    /\ (receipt.queued \/ Completed) /\ monitor = "fine" => ~active

\* The completion is the one line that names no call.
LogShape == \A i \in DOMAIN log : log[i].event = "completed" <=> log[i].call = NoCall

\* The inductive invariant.
IInv ==
    /\ TypeOK
    /\ \A c \in Calls : Ownership(c)
    /\ \A c \in Calls : Truthful(c)
    /\ \A c \in Calls : Accounted(c)
    /\ \A c \in Calls : Behind(c)
    /\ Closing
    /\ LogShape
    /\ OneReceipt
    /\ CallsBeforeCompletion

USE DEF vars, store, registry, history

-----------------------------------------------------------------------------
(* The log.                                                                  *)

LEMMA InLogSame ==
    ASSUME log' = log, NEW e, NEW c
    PROVE  InLog(e, c)' <=> InLog(e, c)
BY DEF InLog

LEMMA AppendFacts ==
    ASSUME NEW S, NEW s \in Seq(S), NEW x \in S
    PROVE  /\ Append(s, x) \in Seq(S)
           /\ DOMAIN s = 1..Len(s) /\ Len(s) \in Nat
           /\ DOMAIN Append(s, x) = 1..(Len(s) + 1)
           /\ \A i \in 1..Len(s) : Append(s, x)[i] = s[i]
           /\ Append(s, x)[Len(s) + 1] = x
OBVIOUS

\* A line that is appended is the only one that the log newly holds.
LEMMA InLogAppend ==
    ASSUME log \in Seq(Lines), NEW e, NEW c, Line(e, c) \in Lines,
           log' = Append(log, Line(e, c)), NEW x, NEW d
    PROVE  InLog(x, d)' <=> InLog(x, d) \/ (x = e /\ d = c)
<1> DEFINE n == Len(log)
<1>1. /\ DOMAIN log = 1..n /\ n \in Nat
      /\ DOMAIN log' = 1..(n + 1)
      /\ \A i \in 1..n : log'[i] = log[i]
      /\ log'[n + 1] = Line(e, c)
  BY AppendFacts
<1> HIDE DEF n
<1>2. ASSUME InLog(x, d) PROVE InLog(x, d)'
  <2>1. PICK i \in 1..n : log[i] = Line(x, d)
    BY <1>1, <1>2 DEF InLog
  <2>2. i \in 1..(n + 1) /\ log'[i] = Line(x, d)
    BY <1>1, <2>1
  <2> QED BY <1>1, <2>2 DEF InLog, Line
<1>3. ASSUME x = e, d = c PROVE InLog(x, d)'
  <2>1. n + 1 \in 1..(n + 1)
    BY <1>1
  <2> QED BY <1>1, <1>3, <2>1 DEF InLog, Line
<1>4. ASSUME InLog(x, d)', ~InLog(x, d) PROVE x = e /\ d = c
  <2>1. PICK i \in 1..(n + 1) : log'[i] = Line(x, d)
    BY <1>1, <1>4 DEF InLog, Line
  <2>2. i \notin 1..n
    BY <1>1, <1>4, <2>1 DEF InLog
  <2>3. i = n + 1
    BY <1>1, <2>2
  <2> QED BY <1>1, <2>1, <2>3 DEF Line
<1> QED BY <1>2, <1>3, <1>4

\* What an append does, whatever its result: the log only grows, by this line,
\* and by all means when the result is "ok".
LEMMA Append1Facts ==
    ASSUME TypeOK, NEW e \in Terminal \cup {"requested", "completed"},
           NEW c \in Calls \cup {NoCall}, NEW result, Append1(e, c, result)
    PROVE  /\ log' = log \/ log' = Append(log, Line(e, c))
           /\ log' \in Seq(Lines)
           /\ unsure' \in BOOLEAN /\ (unsure => unsure') /\ faults' \in Nat
           /\ \A x, d : InLog(x, d) => InLog(x, d)'
           /\ \A x, d : InLog(x, d)' => InLog(x, d) \/ (x = e /\ d = c)
           /\ result = "ok" => InLog(e, c)' /\ (unsure' = unsure)
           /\ result = "rolled_back" => log' = log
           /\ result = "indeterminate" => unsure'
<1>1. Line(e, c) \in Lines /\ log \in Seq(Lines)
  BY DEF Line, Lines, TypeOK
<1>2. log' = log \/ log' = Append(log, Line(e, c))
  BY DEF Append1
<1>3. log' \in Seq(Lines)
  BY <1>1, <1>2, AppendFacts
<1>4. unsure' \in BOOLEAN /\ (unsure => unsure') /\ faults' \in Nat
  <2>1. unsure' \in BOOLEAN
    BY Zenon DEF Append1, TypeOK
  <2>2. unsure => unsure'
    BY Zenon DEF Append1
  <2>3. faults' \in Nat
    BY DEF Append1, Fault, TypeOK
  <2> QED BY <2>1, <2>2, <2>3
<1>5. ASSUME NEW x, NEW d
      PROVE  /\ InLog(x, d) => InLog(x, d)'
             /\ InLog(x, d)' => InLog(x, d) \/ (x = e /\ d = c)
             /\ log' = Append(log, Line(e, c)) => InLog(e, c)'
  BY <1>1, <1>2, InLogSame, InLogAppend
<1>6. /\ result = "ok" => log' = Append(log, Line(e, c)) /\ (unsure' = unsure)
      /\ result = "rolled_back" => log' = log
      /\ result = "indeterminate" => unsure'
  BY DEF Append1
<1> QED BY <1>2, <1>3, <1>4, <1>5, <1>6

-----------------------------------------------------------------------------
(* Types.                                                                    *)

\* The parts of TypeOK that the proofs take one by one.
ClosingJob ==
    [job : {"none", "monitor", "failure", "flush"},
     pc : {"off", "settle", "supervise", "publish", "receipt"},
     claims : SUBSET Calls, watch : SUBSET Calls, current : Calls \cup {NoCall},
     error : BOOLEAN, settled : BOOLEAN]

EntryType  == [Calls -> {"absent", "awaiting", "settling", "indeterminate"}]
ExecType   == [Calls -> Live \cup {"idle", "done", "dropped", "gone"}]
AnswerType == [Calls -> {"none", "result", "timeout", "error"}]
SettleType == [Calls -> Terminal \cup {"none"}]

LEMMA JobTypes ==
    /\ NoJob \in ClosingJob
    /\ \A job \in {"none", "monitor", "failure", "flush"} : Job(job) \in ClosingJob
    /\ closer \in ClosingJob => OnError \in ClosingJob
BY DEF NoJob, Job, OnError, ClosingJob

\* A job starts without claims, and an error leads to the failure path or away.
LEMMA JobShapes ==
    /\ NoJob.job = "none" /\ NoJob.pc = "off" /\ NoJob.claims = {}
    /\ \A job : Job(job).job = job /\ Job(job).pc = "settle" /\ Job(job).claims = {}
    /\ OnError.claims = {}
    /\ \/ OnError.job = "none" /\ OnError.pc = "off"
       \/ /\ OnError.job = "failure" /\ OnError.pc \in {"settle", "publish"}
          /\ closer.job \in {"monitor", "failure"}
BY DEF NoJob, Job, OnError

\* emit_turn_completed_if_missing, whatever its result.
LEMMA AppendCompletedTypes ==
    ASSUME TypeOK, NEW result, AppendCompleted(result)
    PROVE  log' \in Seq(Lines) /\ unsure' \in BOOLEAN /\ faults' \in Nat
<1>1. log \in Seq(Lines) /\ unsure \in BOOLEAN /\ faults \in Nat
  BY DEF TypeOK, Lines
<1>2. CASE Completed
  BY <1>1, <1>2 DEF AppendCompleted
<1>3. CASE ~Completed
  BY <1>3, Append1Facts DEF AppendCompleted
<1> QED BY <1>2, <1>3

LEMMA TypeStep == TypeOK /\ [Next]_vars => TypeOK'
<1> SUFFICES ASSUME TypeOK, [Next]_vars PROVE TypeOK'
  OBVIOUS
<1>0. /\ closer \in ClosingJob /\ entry \in EntryType /\ exec \in ExecType
      /\ answer \in AnswerType /\ settle \in SettleType
  BY DEF TypeOK, ClosingJob, EntryType, ExecType, AnswerType, SettleType
<1>00. ASSUME closer' \in ClosingJob, entry' \in EntryType, exec' \in ExecType,
              answer' \in AnswerType, settle' \in SettleType,
              log' \in Seq(Lines), turn' \in {"InProgress", "Terminal"},
              up' \in BOOLEAN, active' \in BOOLEAN, cancelled' \in BOOLEAN,
              unsure' \in BOOLEAN, monitor' \in {"fine", "failed", "abandoned"},
              channel' \in [Calls -> {"open", "result", "closed"}],
              receipt' \in [queued : BOOLEAN, calls : SUBSET Calls],
              projection' \in {"free", "exec", "closer"}, accepted' \subseteq Calls,
              faults' \in Nat, crashes' \in Nat
       PROVE  TypeOK'
  BY <1>00 DEF TypeOK, Lines, ClosingJob, EntryType, ExecType, AnswerType, SettleType
<1>1. ASSUME NEW c \in Calls, Call(c) PROVE TypeOK'
  BY <1>1, JobTypes DEF TypeOK, ClosingJob, Call, Goto, Live
<1>2. ASSUME NEW c \in Calls, Register(c) PROVE TypeOK'
  <2>1. entry' \in EntryType /\ exec' \in ExecType /\ answer' \in AnswerType
    BY <1>0, <1>2 DEF Register, Goto, Return, Live, EntryType, ExecType, AnswerType
  <2>2. projection' \in {"free", "exec", "closer"}
    BY <1>2 DEF Register
  <2> QED BY <1>2, <2>1, <2>2 DEF Register, TypeOK, EntryType, ExecType, AnswerType
<1>3. ASSUME NEW c \in Calls, EmitRequest(c) PROVE TypeOK'
  <2>1. PICK result : Append1("requested", c, result)
    BY <1>3 DEF EmitRequest
  <2>2. /\ log' \in Seq(Lines) /\ unsure' \in BOOLEAN /\ faults' \in Nat
    BY <2>1, Append1Facts
  <2>3. entry' \in EntryType /\ exec' \in ExecType /\ answer' \in AnswerType
    <3>1. CASE Goto(c, "waiting") /\ UNCHANGED <<entry, answer>>
      BY <1>0, <3>1 DEF Goto, Live, ExecType
    <3>2. CASE Return(c, "error") /\ entry' = [entry EXCEPT ![c] = "absent"]
      BY <1>0, <3>2 DEF Goto, Return, EntryType, ExecType, AnswerType
    <3> QED BY <1>3, <3>1, <3>2 DEF EmitRequest
  <2> QED BY <1>3, <2>2, <2>3
          DEF EmitRequest, TypeOK, EntryType, ExecType, AnswerType, Lines
<1>4. ASSUME NEW c \in Calls, Receive(c) PROVE TypeOK'
  BY <1>4, JobTypes DEF TypeOK, ClosingJob, Receive, Return, Goto, Live
<1>5. ASSUME NEW c \in Calls, TimerFires(c) PROVE TypeOK'
  BY <1>5, JobTypes DEF TypeOK, ClosingJob, TimerFires, Goto, Live
<1>6. ASSUME NEW c \in Calls, TimerClaims(c) PROVE TypeOK'
  <2>1. /\ entry' \in EntryType /\ exec' \in ExecType
        /\ answer' \in AnswerType /\ settle' \in SettleType
    <3>1. CASE entry[c] = "awaiting"
      BY <1>0, <1>6, <3>1 DEF TimerClaims, Goto, Live, Terminal, EntryType, ExecType, SettleType
    <3>2. CASE entry[c] = "indeterminate"
      BY <1>0, <1>6, <3>2 DEF TimerClaims, Goto, Return, ExecType, AnswerType
    <3>3. CASE entry[c] \in {"settling", "absent"}
      BY <1>0, <1>6, <3>3 DEF TimerClaims, Goto, Live, ExecType
    <3> QED BY <1>0, <3>1, <3>2, <3>3 DEF EntryType
  <2> QED BY <1>6, <2>1 DEF TimerClaims, TypeOK, EntryType, ExecType, AnswerType, SettleType
<1>7. ASSUME NEW c \in Calls, Drop(c) PROVE TypeOK'
  BY <1>7, JobTypes DEF TypeOK, ClosingJob, Drop, Goto
<1>8. ASSUME NEW c \in Calls, Deliver(c) PROVE TypeOK'
  BY <1>8, JobTypes DEF TypeOK, ClosingJob, Deliver, Terminal
<1>9. ASSUME NEW c \in Calls, Settle(c) PROVE TypeOK'
  <2>1. settle[c] \in Terminal
    BY <1>0, <1>9 DEF Settle, SettleType
  <2>2. PICK result \in Results :
          /\ Append1(settle[c], c, result)
          /\ entry' = [entry EXCEPT ![c] = IF @ = "absent" THEN @ ELSE After(result)]
          /\ channel' = [channel EXCEPT ![c] = Channel(settle[c], result)]
          /\ closer' = [closer EXCEPT !.watch = @ \ {c},
                                      !.current = IF @ = c THEN NoCall ELSE @,
                                      !.error = @ \/ (closer.current = c /\ result # "ok")]
          /\ accepted' = IF result = "ok" /\ settle[c] = "resolved" THEN accepted \cup {c}
                                                                   ELSE accepted
          /\ exec' = [exec EXCEPT ![c] = CASE @ = "watching" -> "timedout"
                                           [] @ = "acking"   -> "done"
                                           [] OTHER          -> @]
          /\ answer' = [answer EXCEPT ![c] =
               IF exec[c] = "acking" THEN (IF result = "ok" THEN "timeout" ELSE "error") ELSE @]
    BY <1>9 DEF Settle
  <2>3. log' \in Seq(Lines) /\ unsure' \in BOOLEAN /\ faults' \in Nat
    BY <2>1, <2>2, Append1Facts
  <2>4. entry' \in EntryType
    BY <1>0, <2>2 DEF EntryType, After, Results
  <2>5. channel' \in [Calls -> {"open", "result", "closed"}]
    BY <2>2 DEF Channel, TypeOK
  <2>6. closer' \in ClosingJob
    <3> DEFINE cur == IF closer.current = c THEN NoCall ELSE closer.current
               err == closer.error \/ (closer.current = c /\ result # "ok")
    <3>1. closer' = [closer EXCEPT !.watch = @ \ {c}, !.current = cur, !.error = err]
      BY <2>2
    <3>2. cur \in Calls \cup {NoCall}
      BY <1>0 DEF ClosingJob
    <3>3. err \in BOOLEAN
      OBVIOUS
    <3> HIDE DEF cur, err
    <3> QED BY <1>0, <3>1, <3>2, <3>3 DEF ClosingJob
  <2>7. accepted' \subseteq Calls
    BY <2>2 DEF TypeOK
  <2>8. exec' \in ExecType /\ answer' \in AnswerType /\ settle' \in SettleType
    BY <1>0, <1>9, <2>2 DEF Settle, ExecType, AnswerType, SettleType, Live
  <2> QED BY <1>00, <1>9, <2>3, <2>4, <2>5, <2>6, <2>7, <2>8 DEF Settle, TypeOK
<1>10. CASE RefuseIndeterminate
  BY <1>10, JobTypes DEF TypeOK, ClosingJob, RefuseIndeterminate, SettleError
<1>11. CASE ClaimOrWatch
  <2>1. Awaiting \subseteq Calls /\ Settling \subseteq Calls
    BY DEF Awaiting, Settling
  <2>2. closer' \in ClosingJob
    BY <1>0, <1>11, <2>1 DEF ClaimOrWatch, ClosingJob
  <2>3. entry' \in EntryType
    BY <1>0, <1>11 DEF ClaimOrWatch, EntryType
  <2> QED BY <1>00, <1>0, <1>11, <2>2, <2>3 DEF ClaimOrWatch, Lines, TypeOK
<1>12. CASE CancelNext
  <2>1. PICK c \in closer.claims :
          /\ settle' = [settle EXCEPT ![c] = "canceled"]
          /\ closer' = [closer EXCEPT !.claims = @ \ {c}, !.current = c]
    BY <1>12 DEF CancelNext
  <2>2. closer' \in ClosingJob
    BY <1>0, <2>1 DEF ClosingJob
  <2>3. settle' \in SettleType
    BY <1>0, <2>1 DEF SettleType, Terminal
  <2> QED BY <1>00, <1>0, <1>12, <2>2, <2>3 DEF CancelNext, Lines, TypeOK
<1>13. CASE Supervised
  <2>1. CASE closer.error
    BY <1>13, <2>1, JobTypes DEF TypeOK, ClosingJob, Supervised, SettleError
  <2>2. CASE ~closer.error
    BY <1>13, <2>2 DEF TypeOK, Supervised
  <2> QED BY <2>1, <2>2
<1>14. CASE SaveTurn
  BY <1>14, JobTypes DEF TypeOK, ClosingJob, SaveTurn
<1>15. CASE SaveTurnFails
  BY <1>15, JobTypes DEF TypeOK, ClosingJob, SaveTurnFails, Fault
<1>16. CASE Publish
  <2>1. PICK result \in Results :
          /\ AppendCompleted(result)
          /\ active' = (result # "ok")
          /\ closer' = IF result = "ok" THEN NoJob ELSE OnError
          /\ cancelled' = (cancelled \/ result # "ok")
          /\ monitor' = IF result = "ok" THEN monitor ELSE "failed"
    BY <1>16 DEF Publish
  <2>2. log' \in Seq(Lines) /\ unsure' \in BOOLEAN /\ faults' \in Nat
    BY <2>1, AppendCompletedTypes
  <2>3. active' \in BOOLEAN /\ cancelled' \in BOOLEAN
    BY <2>1
  <2>4. closer' \in ClosingJob
    BY <1>0, <2>1, JobTypes
  <2> QED BY <1>00, <1>0, <1>16, <2>1, <2>2, <2>3, <2>4 DEF Publish, TypeOK
<1>17. CASE PublishFailure
  <2>1. log' \in Seq(Lines) /\ unsure' \in BOOLEAN /\ faults' \in Nat
    <3>1. CASE closer.settled
      BY <1>17, <3>1, AppendCompletedTypes DEF PublishFailure
    <3>2. CASE ~closer.settled
      BY <1>17, <3>2 DEF PublishFailure, TypeOK, Lines
    <3> QED BY <3>1, <3>2
  <2>2. receipt' \in [queued : BOOLEAN, calls : SUBSET Calls]
    <3>1. receipt' \in {receipt, Queued}
      BY <1>17 DEF PublishFailure
    <3>2. Queued \in [queued : BOOLEAN, calls : SUBSET Calls]
      BY DEF Queued
    <3> QED BY <3>1, <3>2 DEF TypeOK
  <2> QED BY <1>00, <1>0, <1>17, <2>1, <2>2, JobTypes DEF PublishFailure, TypeOK
<1>18. CASE FlushLock
  BY <1>18, JobTypes DEF TypeOK, ClosingJob, FlushLock
<1>19. CASE FlushCall
  <2>1. PICK c \in closer.claims, result \in Results :
          /\ CancelIfMissing(c, result)
          /\ closer' = IF result = "ok" THEN [closer EXCEPT !.claims = @ \ {c}] ELSE NoJob
          /\ projection' = IF result = "ok" THEN projection ELSE "free"
    BY <1>19 DEF FlushCall
  <2>2. c \in Calls /\ "canceled" \in Terminal
    BY <1>0 DEF Terminal, ClosingJob
  <2>3. log' \in Seq(Lines) /\ unsure' \in BOOLEAN /\ faults' \in Nat
    <3>1. CASE Settled(c)
      BY <2>1, <3>1 DEF CancelIfMissing, TypeOK, Lines
    <3>2. CASE ~Settled(c)
      BY <2>1, <2>2, <3>2, Append1Facts DEF CancelIfMissing
    <3> QED BY <3>1, <3>2
  <2>4. closer' \in ClosingJob
    <3>1. [closer EXCEPT !.claims = @ \ {c}] \in ClosingJob
      BY <1>0 DEF ClosingJob
    <3> QED BY <2>1, <3>1, JobTypes
  <2>5. projection' \in {"free", "exec", "closer"}
    BY <2>1 DEF TypeOK
  <2> QED BY <1>00, <1>0, <1>19, <2>3, <2>4, <2>5 DEF FlushCall, TypeOK
<1>20. CASE FlushTurn
  <2>1. PICK result \in Results :
          /\ AppendCompleted(result)
          /\ receipt' = IF result = "ok" THEN [queued |-> FALSE, calls |-> {}] ELSE receipt
    BY <1>20 DEF FlushTurn
  <2>2. log' \in Seq(Lines) /\ unsure' \in BOOLEAN /\ faults' \in Nat
    BY <2>1, AppendCompletedTypes
  <2>3. receipt' \in [queued : BOOLEAN, calls : SUBSET Calls]
    BY <2>1 DEF TypeOK
  <2> QED BY <1>00, <1>0, <1>20, <2>2, <2>3, JobTypes DEF FlushTurn, TypeOK
<1>21. CASE EndTurn
  BY <1>21, JobTypes DEF TypeOK, ClosingJob, EndTurn
<1>22. CASE MonitorFails
  BY <1>22, JobTypes DEF TypeOK, ClosingJob, MonitorFails, Fault
<1>23. CASE Interrupt
  BY <1>23, JobTypes DEF TypeOK, ClosingJob, Interrupt
<1>24. CASE Read
  BY <1>24, JobTypes DEF TypeOK, ClosingJob, Read
<1>25. CASE Crash
  <2>1. /\ entry' \in EntryType /\ exec' \in ExecType /\ settle' \in SettleType
        /\ channel' \in [Calls -> {"open", "result", "closed"}]
    BY <1>25 DEF Crash, EntryType, ExecType, SettleType
  <2>2. closer' \in ClosingJob /\ receipt' \in [queued : BOOLEAN, calls : SUBSET Calls]
    BY <1>25, JobTypes DEF Crash
  <2>3. crashes' \in Nat
    BY <1>25 DEF Crash, TypeOK
  <2> QED BY <1>00, <1>0, <1>25, <2>1, <2>2, <2>3 DEF Crash, Lines, TypeOK
<1>26. CASE Recover
  BY <1>26, JobTypes DEF TypeOK, ClosingJob, Recover
<1>27. CASE UNCHANGED vars
  BY <1>27 DEF TypeOK
<1> QED
  BY <1>1, <1>2, <1>3, <1>4, <1>5, <1>6, <1>7, <1>8, <1>9, <1>10, <1>11, <1>12, <1>13,
     <1>14, <1>15, <1>16, <1>17, <1>18, <1>19, <1>20, <1>21, <1>22, <1>23, <1>24, <1>25,
     <1>26, <1>27
  DEF Next, Executor, Closer

-----------------------------------------------------------------------------
(* What an action writes to the log.                                         *)

LEMMA LogSameFacts ==
    ASSUME log' = log
    PROVE  /\ \A e, c : InLog(e, c)' <=> InLog(e, c)
           /\ \A c : Settled(c)' <=> Settled(c)
           /\ \A c : Requested(c)' <=> Requested(c)
           /\ Completed' <=> Completed
BY InLogSame DEF Settled, Requested, Completed

\* Announcements and completions settle no call, and a settlement settles its
\* own.
LEMMA LogAppendFacts ==
    ASSUME TypeOK, NEW e \in Terminal \cup {"requested", "completed"},
           NEW c \in Calls \cup {NoCall}, NEW result, Append1(e, c, result)
    PROVE  /\ \A d : Settled(d) => Settled(d)'
           /\ \A d : Requested(d) => Requested(d)'
           /\ Completed => Completed'
           /\ \A d : Settled(d)' => Settled(d) \/ (d = c /\ e \in Terminal)
           /\ \A d : Requested(d)' => Requested(d) \/ (d = c /\ e = "requested")
           /\ Completed' => Completed \/ e = "completed"
           /\ result = "ok" /\ e \in Terminal => Settled(c)'
<1>1. /\ \A x, d : InLog(x, d) => InLog(x, d)'
      /\ \A x, d : InLog(x, d)' => InLog(x, d) \/ (x = e /\ d = c)
      /\ result = "ok" => InLog(e, c)'
  BY Append1Facts
<1> QED BY <1>1 DEF Settled, Requested, Completed, Terminal

\* emit_turn_completed_if_missing
LEMMA LogCompletedFacts ==
    ASSUME TypeOK, NEW result, AppendCompleted(result)
    PROVE  /\ \A d \in Calls : Settled(d)' <=> Settled(d)
           /\ \A d \in Calls : Requested(d)' <=> Requested(d)
           /\ \A x, d : InLog(x, d) => InLog(x, d)'
           /\ Completed => Completed'
           /\ unsure => unsure'
<1>1. CASE Completed
  BY <1>1, LogSameFacts DEF AppendCompleted
<1>2. CASE ~Completed
  <2>1. Append1("completed", NoCall, result)
    BY <1>2 DEF AppendCompleted
  <2> QED BY <2>1, LogAppendFacts, Append1Facts, CallsAssumption
<1> QED BY <1>1, <1>2

-----------------------------------------------------------------------------
(* The right to settle a call is in one place.                               *)

LEMMA OwnershipStep ==
    ASSUME IInv, [Next]_vars, NEW d \in Calls
    PROVE  Ownership(d)'
<1>0. TypeOK /\ Ownership(d) /\ Behind(d) /\ Accounted(d) /\ Closing /\ TypeOK'
  BY TypeStep DEF IInv
<1>1. ASSUME NEW c \in Calls, Call(c) \/ TimerFires(c) \/ Receive(c) \/ Drop(c)
      PROVE  Ownership(d)'
  <2>1. log' = log /\ entry' = entry /\ settle' = settle /\ closer' = closer
    BY <1>1 DEF Call, TimerFires, Receive, Drop
  <2>2. /\ exec'[d] \in {"idle", "enter"} => exec[d] \in {"idle", "enter"}
        /\ exec[d] = "gone" <=> exec'[d] = "gone"
    BY <1>0, <1>1 DEF Call, TimerFires, Receive, Drop, Goto, Return, Live, TypeOK
  <2> QED BY <1>0, <2>1, <2>2, LogSameFacts DEF Ownership
<1>2. ASSUME NEW c \in Calls, Register(c) PROVE Ownership(d)'
  <2>1. log' = log /\ settle' = settle /\ closer' = closer
    BY <1>2 DEF Register
  <2>2. CASE c = d
    BY <1>0, <1>2, <2>1, <2>2, LogSameFacts DEF Register, Goto, Return, Ownership, TypeOK
  <2>3. CASE c # d
    BY <1>0, <1>2, <2>1, <2>3, LogSameFacts DEF Register, Goto, Return, Ownership, TypeOK
  <2> QED BY <2>2, <2>3
<1>3. ASSUME NEW c \in Calls, EmitRequest(c) PROVE Ownership(d)'
  <2>1. PICK result \in Results : Append1("requested", c, result)
    BY <1>3 DEF EmitRequest
  <2>2. Settled(d)' <=> Settled(d)
    BY <1>0, <2>1, LogAppendFacts DEF Terminal
  <2>3. settle' = settle /\ closer' = closer
    BY <1>3 DEF EmitRequest
  <2>4. /\ exec'[d] \in {"idle", "enter"} => exec[d] \in {"idle", "enter"}
        /\ exec[d] = "gone" <=> exec'[d] = "gone"
        /\ entry'[d] = entry[d] \/ (entry'[d] = "absent" /\ exec[d] = "emit")
    BY <1>0, <1>3 DEF EmitRequest, Goto, Return, TypeOK
  <2> QED BY <1>0, <2>2, <2>3, <2>4 DEF Ownership
<1>4. ASSUME NEW c \in Calls, TimerClaims(c) PROVE Ownership(d)'
  <2>1. log' = log /\ closer' = closer
    BY <1>4 DEF TimerClaims
  <2>2. CASE c = d
    BY <1>0, <1>4, <2>1, <2>2, LogSameFacts DEF TimerClaims, Goto, Return, Ownership, TypeOK
  <2>3. CASE c # d
    <3>1. exec'[d] = exec[d] /\ entry'[d] = entry[d] /\ settle'[d] = settle[d]
      BY <1>0, <1>4, <2>3 DEF TimerClaims, Goto, Return, TypeOK
    <3> QED BY <1>0, <2>1, <3>1, LogSameFacts DEF Ownership
  <2> QED BY <2>2, <2>3
<1>5. ASSUME NEW c \in Calls, Deliver(c) PROVE Ownership(d)'
  BY <1>0, <1>5, LogSameFacts DEF Deliver, Ownership, TypeOK
<1>6. ASSUME NEW c \in Calls, Settle(c) PROVE Ownership(d)'
  <2>1. settle[c] \in Terminal
    BY <1>0, <1>6 DEF Settle, TypeOK
  <2>2. PICK result \in Results :
          /\ Append1(settle[c], c, result)
          /\ entry' = [entry EXCEPT ![c] = IF @ = "absent" THEN @ ELSE After(result)]
    BY <1>6 DEF Settle
  <2>3. closer'.claims = closer.claims /\ closer'.pc = closer.pc
    BY <1>0, <1>6 DEF Settle, TypeOK
  <2>4. /\ exec'[d] \in {"idle", "enter"} => exec[d] \in {"idle", "enter"}
        /\ exec[d] = "gone" <=> exec'[d] = "gone"
    BY <1>0, <1>6 DEF Settle, TypeOK
  <2>5. CASE c = d
    <3>1. settle'[d] = "none" /\ d \notin closer.claims /\ ~Settled(d)
      BY <1>0, <1>6, <2>5 DEF Settle, TypeOK, Ownership
    <3>2. entry'[d] = "awaiting" => ~Settled(d)'
      <4>1. entry'[d] = "awaiting" => result = "rolled_back"
        BY <1>0, <1>6, <2>2, <2>5, <3>1 DEF After, TypeOK, Results, Ownership, Settle
      <4> QED BY <1>0, <2>1, <2>2, <3>1, <4>1, Append1Facts, LogSameFacts
    <3> QED BY <1>0, <1>6, <2>3, <2>4, <2>5, <3>1, <3>2 DEF Ownership, Settle
  <2>6. CASE c # d
    <3>1. entry'[d] = entry[d] /\ settle'[d] = settle[d]
      BY <1>0, <1>6, <2>6 DEF Settle, TypeOK
    <3>2. Settled(d)' <=> Settled(d)
      BY <1>0, <2>1, <2>2, <2>6, LogAppendFacts
    <3> QED BY <1>0, <2>3, <2>4, <3>1, <3>2 DEF Ownership
  <2> QED BY <2>5, <2>6
<1>7. CASE RefuseIndeterminate
  <2>1. log' = log /\ exec' = exec /\ settle' = settle
    BY <1>7 DEF RefuseIndeterminate
  <2>2. closer'.claims = {}
    BY <1>7 DEF RefuseIndeterminate, SettleError, OnError, Job, NoJob
  <2>3. entry'[d] = entry[d] \/ (entry[d] = "awaiting" /\ entry'[d] = "settling")
    BY <1>7 DEF RefuseIndeterminate, Awaiting
  <2> QED BY <1>0, <2>1, <2>2, <2>3, LogSameFacts DEF Ownership
<1>8. CASE ClaimOrWatch
  <2>1. log' = log /\ exec' = exec /\ settle' = settle
    BY <1>8 DEF ClaimOrWatch
  <2>2. entry'[d] = (IF entry[d] = "awaiting" THEN "settling" ELSE entry[d])
    BY <1>8 DEF ClaimOrWatch, Awaiting
  <2>3. \/ closer'.claims = closer.claims /\ closer'.pc = "publish" /\ closer.pc = "settle"
        \/ closer'.claims = Awaiting /\ closer'.pc = "supervise"
    BY <1>0, <1>8 DEF ClaimOrWatch, TypeOK
  <2> QED BY <1>0, <2>1, <2>2, <2>3, LogSameFacts DEF Ownership, Awaiting, Behind
<1>9. CASE CancelNext
  <2>1. log' = log /\ exec' = exec /\ entry' = entry
    BY <1>9 DEF CancelNext
  <2>2. PICK c \in closer.claims :
          /\ settle' = [settle EXCEPT ![c] = "canceled"]
          /\ closer' = [closer EXCEPT !.claims = @ \ {c}, !.current = c]
    BY <1>9 DEF CancelNext
  <2>3. closer'.claims = closer.claims \ {c} /\ closer'.pc = "supervise" /\ closer.pc = "supervise"
    BY <1>0, <1>9, <2>2 DEF CancelNext, TypeOK
  <2>4. settle'[d] = IF d = c THEN "canceled" ELSE settle[d]
    BY <1>0, <2>2 DEF TypeOK
  <2> QED BY <1>0, <2>1, <2>2, <2>3, <2>4, LogSameFacts DEF Ownership
<1>10. CASE Supervised \/ SaveTurn \/ SaveTurnFails \/ EndTurn \/ MonitorFails \/ Read
  <2>1. log' = log /\ exec' = exec /\ entry' = entry /\ settle' = settle
    BY <1>10 DEF Supervised, SaveTurn, SaveTurnFails, EndTurn, MonitorFails, Read
  <2>2. closer'.claims = {} \/ (closer'.claims = closer.claims /\ closer.pc # "supervise"
                                 /\ closer'.pc # "supervise")
    <3>1. CASE Supervised /\ ~closer.error
      BY <1>0, <3>1 DEF Supervised, TypeOK
    <3>2. CASE SaveTurn
      BY <1>0, <3>2 DEF SaveTurn, TypeOK
    <3>3. CASE \/ (Supervised /\ closer.error) \/ SaveTurnFails
               \/ EndTurn \/ MonitorFails \/ Read
      BY <3>3, JobShapes DEF Supervised, SaveTurnFails, EndTurn, MonitorFails, Read, SettleError
    <3> QED BY <1>10, <3>1, <3>2, <3>3
  <2> QED BY <1>0, <2>1, <2>2, LogSameFacts DEF Ownership
<1>11. CASE Publish \/ PublishFailure \/ FlushTurn
  <2>1. exec' = exec /\ entry' = entry /\ settle' = settle
    BY <1>11 DEF Publish, PublishFailure, FlushTurn
  <2>2. closer'.claims = {}
    BY <1>11, JobShapes DEF Publish, PublishFailure, FlushTurn
  <2>3. (\E result : AppendCompleted(result)) \/ log' = log
    BY <1>11 DEF Publish, PublishFailure, FlushTurn
  <2>4. Settled(d)' <=> Settled(d)
    BY <1>0, <2>3, LogCompletedFacts, LogSameFacts
  <2> QED BY <1>0, <2>1, <2>2, <2>4 DEF Ownership
<1>12. CASE FlushLock
  <2>1. log' = log /\ exec' = exec /\ entry' = entry /\ settle' = settle
    BY <1>12 DEF FlushLock
  <2>2. closer'.claims = receipt.calls /\ closer'.pc = "receipt"
    BY <1>0, <1>12 DEF FlushLock, TypeOK
  <2> QED BY <1>0, <2>1, <2>2, LogSameFacts DEF Ownership, Accounted, Behind
<1>13. CASE FlushCall
  <2>1. exec' = exec /\ entry' = entry /\ settle' = settle
    BY <1>13 DEF FlushCall
  <2>2. PICK c \in closer.claims, result \in Results :
          /\ CancelIfMissing(c, result)
          /\ closer' = IF result = "ok" THEN [closer EXCEPT !.claims = @ \ {c}] ELSE NoJob
    BY <1>13 DEF FlushCall
  <2>3. c \in Calls /\ "canceled" \in Terminal
    BY <1>0 DEF TypeOK, Terminal
  <2>4. Settled(d)' => Settled(d) \/ d = c
    BY <1>0, <2>2, <2>3, LogSameFacts, LogAppendFacts DEF CancelIfMissing
  <2>5. d \in closer.claims => exec[d] = "gone"
    BY <1>0, <1>13 DEF FlushCall, Ownership
  <2>6. /\ closer'.claims \subseteq closer.claims
        /\ closer'.claims # {} => closer'.pc = "receipt"
    BY <1>0, <1>13, <2>2 DEF NoJob, TypeOK, FlushCall
  <2> QED BY <1>0, <2>1, <2>2, <2>4, <2>5, <2>6 DEF Ownership, Behind
<1>14. CASE Crash
  <2>1. exec'[d] = "gone" /\ entry'[d] = "absent" /\ settle'[d] = "none"
    BY <1>14 DEF Crash
  <2>2. closer'.claims = {}
    BY <1>14 DEF Crash, NoJob
  <2> QED BY <2>1, <2>2 DEF Ownership
<1>15. CASE Interrupt \/ Recover \/ UNCHANGED vars
  BY <1>0, <1>15, LogSameFacts DEF Interrupt, Recover, Ownership
<1> QED
  BY <1>1, <1>2, <1>3, <1>4, <1>5, <1>6, <1>7, <1>8, <1>9, <1>10, <1>11, <1>12, <1>13,
     <1>14, <1>15
  DEF Next, Executor, Closer

\* Who writes to the log: an executor announces its call, a settlement task
\* appends the receipt it was started for, a flush cancels a call that has
\* none, and the completion is appended once.
LEMMA Writes ==
    ASSUME TypeOK, [Next]_vars
    PROVE  \/ log' = log
           \/ \E c \in Calls : \E result : EmitRequest(c) /\ Append1("requested", c, result)
           \/ \E c \in Calls : \E result :
                Settle(c) /\ settle[c] \in Terminal /\ Append1(settle[c], c, result)
           \/ \E c \in Calls : \E result :
                FlushCall /\ ~Settled(c) /\ Append1("canceled", c, result)
           \/ \E result : /\ Publish \/ PublishFailure \/ FlushTurn
                          /\ ~Completed /\ Append1("completed", NoCall, result)
<1>1. CASE \E c \in Calls : EmitRequest(c)
  BY <1>1 DEF EmitRequest
<1>2. CASE \E c \in Calls : Settle(c)
  <2>1. PICK c \in Calls : Settle(c)
    BY <1>2
  <2>2. settle[c] \in Terminal
    BY <2>1 DEF Settle, TypeOK
  <2>3. \E result : Append1(settle[c], c, result)
    BY <2>1 DEF Settle
  <2> QED BY <2>1, <2>2, <2>3
<1>3. CASE FlushCall
  <2>1. PICK c \in closer.claims, result \in Results : CancelIfMissing(c, result)
    BY <1>3 DEF FlushCall
  <2>2. c \in Calls
    BY DEF TypeOK
  <2> QED BY <1>3, <2>1, <2>2 DEF CancelIfMissing
<1>4. CASE Publish \/ PublishFailure \/ FlushTurn
  <2>1. (\E result : AppendCompleted(result)) \/ log' = log
    BY <1>4 DEF Publish, PublishFailure, FlushTurn
  <2> QED BY <1>4, <2>1 DEF AppendCompleted
<1>5. ASSUME NEW c \in Calls,
             Call(c) \/ Register(c) \/ Receive(c) \/ TimerFires(c) \/ TimerClaims(c) \/ Drop(c)
                \/ Deliver(c)
      PROVE  log' = log
  BY <1>5 DEF Call, Register, Receive, TimerFires, TimerClaims, Drop, Deliver
<1>6. ASSUME RefuseIndeterminate \/ ClaimOrWatch \/ CancelNext \/ Supervised \/ SaveTurn
                \/ FlushLock \/ SaveTurnFails
      PROVE  log' = log
  BY <1>6 DEF RefuseIndeterminate, ClaimOrWatch, CancelNext, Supervised, SaveTurn, FlushLock,
     SaveTurnFails
<1>7. ASSUME EndTurn \/ MonitorFails \/ Interrupt \/ Read \/ Crash \/ Recover \/ UNCHANGED vars
      PROVE  log' = log
  BY <1>7 DEF EndTurn, MonitorFails, Interrupt, Read, Crash, Recover
<1> QED BY <1>1, <1>2, <1>3, <1>4, <1>5, <1>6, <1>7 DEF Next, Executor, Closer

\* The log only grows.
LEMMA LogGrows ==
    ASSUME TypeOK, [Next]_vars
    PROVE  \A x, d : InLog(x, d) => InLog(x, d)'
<1>1. CASE log' = log
  BY <1>1, InLogSame
<1>2. ASSUME NEW e \in Terminal \cup {"requested", "completed"},
             NEW c \in Calls \cup {NoCall}, NEW result, Append1(e, c, result)
      PROVE  \A x, d : InLog(x, d) => InLog(x, d)'
  BY <1>2, Append1Facts
<1>3. "canceled" \in Terminal
  BY DEF Terminal
<1> QED BY <1>1, <1>2, <1>3, Writes

-----------------------------------------------------------------------------
(* What was answered is in the log.                                          *)

LEMMA TruthfulStep ==
    ASSUME IInv, [Next]_vars, NEW d \in Calls
    PROVE  Truthful(d)'
<1>0. TypeOK /\ Truthful(d) /\ Ownership(d) /\ TypeOK'
  BY TypeStep DEF IInv
<1>00. InLog("resolved", d) => InLog("resolved", d)'
  BY <1>0, LogGrows
<1>000. InLog("timeout", d) => InLog("timeout", d)'
  BY <1>0, LogGrows
<1>1. ASSUME NEW c \in Calls,
             Call(c) \/ Register(c) \/ EmitRequest(c) \/ TimerFires(c) \/ Drop(c)
      PROVE  Truthful(d)'
  <2>1. settle' = settle /\ channel' = channel /\ accepted' = accepted
    BY <1>1 DEF Call, Register, EmitRequest, TimerFires, Drop
  <2>2. /\ exec'[d] = "acking" => exec[d] = "acking"
        /\ answer'[d] = answer[d] \/ answer'[d] = "error"
    BY <1>0, <1>1 DEF Call, Register, EmitRequest, TimerFires, Drop, Goto, Return, TypeOK
  <2> QED BY <1>0, <1>00, <1>000, <2>1, <2>2 DEF Truthful
<1>2. ASSUME NEW c \in Calls, Receive(c) PROVE Truthful(d)'
  <2>1. settle' = settle /\ channel' = channel /\ accepted' = accepted
    BY <1>2 DEF Receive
  <2>2. /\ exec'[d] = "acking" => exec[d] = "acking"
        /\ \/ answer'[d] = answer[d] \/ answer'[d] = "error"
           \/ answer'[d] = "result" /\ channel[d] = "result"
    BY <1>0, <1>2 DEF Receive, Goto, Return, TypeOK
  <2> QED BY <1>0, <1>00, <1>000, <2>1, <2>2 DEF Truthful
<1>3. ASSUME NEW c \in Calls, TimerClaims(c) PROVE Truthful(d)'
  <2>1. channel' = channel /\ accepted' = accepted
    BY <1>3 DEF TimerClaims
  <2>2. /\ exec'[d] = "acking" =>
             (exec[d] = "acking" /\ settle'[d] = settle[d]) \/ settle'[d] = "timeout"
        /\ answer'[d] = answer[d] \/ answer'[d] = "error"
    BY <1>0, <1>3 DEF TimerClaims, Goto, Return, TypeOK
  <2> QED BY <1>0, <1>00, <1>000, <2>1, <2>2 DEF Truthful
<1>4. ASSUME NEW c \in Calls, Deliver(c) PROVE Truthful(d)'
  <2>1. /\ channel' = channel /\ accepted' = accepted /\ exec' = exec /\ answer' = answer
    BY <1>4 DEF Deliver
  <2>2. settle[d] = "timeout" => settle'[d] = "timeout"
    BY <1>0, <1>4 DEF Deliver, TypeOK, Ownership
  <2> QED BY <1>0, <1>00, <1>000, <2>1, <2>2 DEF Truthful
<1>5. ASSUME NEW c \in Calls, Settle(c) PROVE Truthful(d)'
  <2>1. settle[c] \in Terminal
    BY <1>0, <1>5 DEF Settle, TypeOK
  <2>2. PICK result \in Results :
         /\ Append1(settle[c], c, result)
         /\ channel' = [channel EXCEPT ![c] = Channel(settle[c], result)]
         /\ accepted' = IF result = "ok" /\ settle[c] = "resolved" THEN accepted \cup {c}
                                                                  ELSE accepted
         /\ exec' = [exec EXCEPT ![c] = CASE @ = "watching" -> "timedout"
                                          [] @ = "acking"   -> "done"
                                          [] OTHER          -> @]
         /\ answer' = [answer EXCEPT ![c] =
              IF exec[c] = "acking" THEN (IF result = "ok" THEN "timeout" ELSE "error") ELSE @]
    BY <1>5 DEF Settle
  <2>3. CASE c # d
    <3>1. /\ exec'[d] = exec[d] /\ answer'[d] = answer[d] /\ channel'[d] = channel[d]
          /\ d \in accepted' <=> d \in accepted
      BY <1>0, <2>2, <2>3 DEF TypeOK
    <3>2. settle'[d] = settle[d]
      BY <1>0, <1>5, <2>3 DEF TypeOK, Settle
    <3> QED BY <1>0, <1>00, <1>000, <3>1, <3>2 DEF Truthful
  <2>4. CASE c = d
    <3>1. ASSUME NEW o, o = settle[d], result = "ok" PROVE InLog(o, d)'
      BY <1>0, <2>1, <2>2, <2>4, <3>1, Append1Facts
    <3>2. exec'[d] # "acking"
      BY <1>0, <2>2, <2>4 DEF TypeOK
    <3>3. channel'[d] = "result" => result = "ok" /\ settle[d] = "resolved"
      BY <1>0, <2>2, <2>4 DEF TypeOK, Channel
    <3>4. answer'[d] \in {"result", "timeout"} =>
            answer'[d] = answer[d] \/ (answer'[d] = "timeout" /\ exec[d] = "acking" /\ result = "ok")
      BY <1>0, <2>2, <2>4 DEF TypeOK
    <3>5. d \in accepted' => d \in accepted \/ (result = "ok" /\ settle[d] = "resolved")
      BY <2>2, <2>4
    <3> QED BY <1>0, <1>00, <1>000, <3>1, <3>2, <3>3, <3>4, <3>5 DEF Truthful
  <2> QED BY <2>3, <2>4
<1>6. CASE RefuseIndeterminate
  BY <1>0, <1>00, <1>000, <1>6 DEF RefuseIndeterminate, Truthful, Awaiting
<1>7. CASE CancelNext
  <2>1. /\ channel' = channel /\ accepted' = accepted /\ exec' = exec /\ answer' = answer
    BY <1>7 DEF CancelNext
  <2>2. settle[d] = "timeout" => settle'[d] = "timeout"
    BY <1>0, <1>7 DEF CancelNext, TypeOK, Ownership
  <2> QED BY <1>0, <1>00, <1>000, <2>1, <2>2 DEF Truthful
<1>8. CASE ClaimOrWatch \/ Supervised \/ SaveTurn \/ SaveTurnFails \/ Publish \/ PublishFailure
             \/ FlushLock \/ FlushCall \/ FlushTurn
  BY <1>0, <1>00, <1>000, <1>8 DEF ClaimOrWatch, Supervised, SaveTurn, SaveTurnFails, Publish,
     PublishFailure, FlushLock, FlushCall, FlushTurn, Truthful
<1>9. CASE EndTurn \/ MonitorFails \/ Interrupt \/ Read \/ Recover \/ UNCHANGED vars
  BY <1>0, <1>00, <1>000, <1>9 DEF EndTurn, MonitorFails, Interrupt, Read, Recover, Truthful
<1>10. CASE Crash
  BY <1>0, <1>00, <1>000, <1>10 DEF Crash, Truthful
<1> QED
  BY <1>1, <1>2, <1>3, <1>4, <1>5, <1>6, <1>7, <1>8, <1>9, <1>10 DEF Next, Executor, Closer

-----------------------------------------------------------------------------
(* An announced call is not lost.                                            *)

LEMMA AccountedStep ==
    ASSUME IInv, [Next]_vars, NEW d \in Calls
    PROVE  Accounted(d)'
<1>0. /\ TypeOK /\ Accounted(d) /\ Ownership(d) /\ Behind(d) /\ Closing /\ TypeOK'
      /\ \A c \in Calls : Accounted(c)
      /\ \A c \in Calls : Behind(c)
  BY TypeStep DEF IInv
<1>1. ASSUME NEW c \in Calls, Call(c) \/ TimerFires(c) \/ Receive(c)
      PROVE  Accounted(d)'
  <2>1. /\ log' = log /\ entry' = entry /\ closer' = closer /\ receipt' = receipt
        /\ projection' = projection /\ up' = up /\ unsure' = unsure
    BY <1>1 DEF Call, TimerFires, Receive
  <2>2. ASSUME NEW x \in Calls
        PROVE  /\ exec'[x] = "emit" => exec[x] = "emit"
               /\ exec'[x] \in {"idle", "enter", "emit"} => exec[x] \in {"idle", "enter", "emit"}
               /\ exec[x] = "gone" => exec'[x] = "gone"
    BY <1>0, <1>1 DEF Call, TimerFires, Receive, Goto, Return, TypeOK
  <2> QED BY <1>0, <2>1, <2>2, LogSameFacts DEF Accounted
<1>2. ASSUME NEW c \in Calls, Register(c) PROVE Accounted(d)'
  <2>1. /\ log' = log /\ closer' = closer /\ receipt' = receipt
        /\ up' = up /\ unsure' = unsure /\ projection = "free"
    BY <1>2 DEF Register
  <2>2. \A x \in Calls : exec[x] # "emit"
    BY <1>0, <2>1 DEF Accounted
  <2>3. /\ exec[d] = "gone" => exec'[d] = "gone"
        /\ exec'[d] \in {"idle", "enter", "emit"} => exec[d] \in {"idle", "enter", "emit"}
        /\ entry'[d] = entry[d] \/ entry'[d] = "awaiting"
        /\ exec'[d] = "emit" => d = c /\ projection' = "exec" /\ entry'[d] = "awaiting"
        /\ \A x \in Calls : exec'[x] = "emit" => x = c
    BY <1>0, <1>2, <2>2 DEF Register, Goto, Return, TypeOK
  <2> QED BY <1>0, <2>1, <2>3, LogSameFacts DEF Accounted
<1>3. ASSUME NEW c \in Calls, EmitRequest(c) PROVE Accounted(d)'
  <2>1. PICK result \in Results :
          /\ Append1("requested", c, result)
          /\ IF result = "ok"
               THEN Goto(c, "waiting") /\ UNCHANGED <<entry, answer>>
               ELSE Return(c, "error") /\ entry' = [entry EXCEPT ![c] = "absent"]
    BY <1>3 DEF EmitRequest
  <2>2. closer' = closer /\ receipt' = receipt /\ up' = up /\ exec[c] = "emit"
    BY <1>3 DEF EmitRequest
  <2>3. /\ Settled(d)' <=> Settled(d)
        /\ Requested(d)' => Requested(d) \/ d = c
        /\ unsure => unsure'
        /\ result = "rolled_back" => (Requested(d)' <=> Requested(d))
        /\ result = "indeterminate" => unsure'
    BY <1>0, <2>1, LogAppendFacts, LogSameFacts, Append1Facts DEF Terminal
  <2>4. /\ exec' = [exec EXCEPT ![c] = exec'[c]]
        /\ exec'[c] \in {"waiting", "done"}
    BY <1>0, <2>1 DEF Goto, Return, TypeOK
  <2>5. \A x \in Calls : exec'[x] # "emit"
    BY <1>0, <2>2, <2>4 DEF Accounted, TypeOK
  <2>6. /\ d # c => exec'[d] = exec[d] /\ entry'[d] = entry[d]
        /\ d = c => (result # "ok" \/ entry'[d] = entry[d])
        /\ exec[d] = "gone" => d # c
    BY <1>0, <2>1, <2>2, <2>4 DEF TypeOK
  <2> QED BY <1>0, <2>2, <2>3, <2>4, <2>5, <2>6 DEF Accounted, Results
<1>4. ASSUME NEW c \in Calls, TimerClaims(c) PROVE Accounted(d)'
  <2>1. /\ log' = log /\ closer' = closer /\ receipt' = receipt
        /\ projection' = projection /\ up' = up /\ unsure' = unsure
    BY <1>4 DEF TimerClaims
  <2>2. ASSUME NEW x \in Calls
        PROVE  /\ exec'[x] = "emit" => exec[x] = "emit"
               /\ exec'[x] \in {"idle", "enter", "emit"} => exec[x] \in {"idle", "enter", "emit"}
               /\ exec[x] = "gone" => exec'[x] = "gone"
               /\ entry[x] # "absent" => entry'[x] # "absent"
    BY <1>0, <1>4 DEF TimerClaims, Goto, Return, TypeOK
  <2> QED BY <1>0, <2>1, <2>2, LogSameFacts DEF Accounted
<1>5. ASSUME NEW c \in Calls, Drop(c) PROVE Accounted(d)'
  <2>1. /\ log' = log /\ closer' = closer /\ receipt' = receipt /\ entry' = entry
        /\ up' = up /\ unsure' = unsure
        /\ projection' = IF exec[c] = "emit" THEN "free" ELSE projection
    BY <1>5 DEF Drop
  <2>2. ASSUME NEW x \in Calls
        PROVE  /\ exec'[x] = IF x = c THEN "dropped" ELSE exec[x]
               /\ exec[x] = "gone" => x # c
    BY <1>0, <1>5 DEF Drop, Goto, TypeOK, Live
  <2>3. ASSUME NEW x \in Calls, exec'[x] = "emit" PROVE projection' = "exec"
    BY <1>0, <2>1, <2>2, <2>3 DEF Accounted
  <2> QED BY <1>0, <2>1, <2>2, <2>3, LogSameFacts DEF Accounted
<1>6. ASSUME NEW c \in Calls, Deliver(c) PROVE Accounted(d)'
  <2>1. /\ log' = log /\ closer' = closer /\ receipt' = receipt /\ exec' = exec
        /\ projection' = projection /\ up' = up /\ unsure' = unsure
    BY <1>6 DEF Deliver
  <2>2. entry[d] # "absent" => entry'[d] # "absent"
    BY <1>0, <1>6 DEF Deliver, TypeOK
  <2> QED BY <1>0, <2>1, <2>2, LogSameFacts DEF Accounted
<1>7. ASSUME NEW c \in Calls, Settle(c) PROVE Accounted(d)'
  <2>1. settle[c] \in Terminal
    BY <1>0, <1>7 DEF Settle, TypeOK
  <2>2. PICK result \in Results :
          /\ Append1(settle[c], c, result)
          /\ entry' = [entry EXCEPT ![c] = IF @ = "absent" THEN @ ELSE After(result)]
    BY <1>7 DEF Settle
  <2>3. /\ receipt' = receipt /\ up' = up /\ projection' = "free" /\ projection = "free"
        /\ closer'.claims = closer.claims /\ closer'.pc = closer.pc
    BY <1>0, <1>7 DEF Settle, TypeOK
  <2>4. ASSUME NEW x \in Calls
        PROVE  /\ exec'[x] = "emit" => exec[x] = "emit"
               /\ exec'[x] \in {"idle", "enter", "emit"} => exec[x] \in {"idle", "enter", "emit"}
               /\ exec[x] = "gone" => exec'[x] = "gone"
    BY <1>0, <1>7 DEF Settle, TypeOK
  <2>5. /\ Settled(d) => Settled(d)'
        /\ Requested(d)' => Requested(d)
        /\ unsure => unsure'
        /\ result = "ok" => Settled(c)'
    BY <1>0, <2>1, <2>2, LogAppendFacts, Append1Facts DEF Terminal
  <2>6. \/ entry'[d] = "absent" /\ entry[d] = "absent"
        \/ entry'[d] # "absent"
        \/ d = c /\ result = "ok"
    BY <1>0, <2>2 DEF After, Results, TypeOK
  <2> QED BY <1>0, <2>3, <2>4, <2>5, <2>6 DEF Accounted
<1>8. CASE RefuseIndeterminate \/ ClaimOrWatch
  <2>1. /\ log' = log /\ receipt' = receipt /\ exec' = exec
        /\ projection' = projection /\ up' = up /\ unsure' = unsure
    BY <1>8 DEF RefuseIndeterminate, ClaimOrWatch
  <2>2. closer'.pc # "receipt"
    <3>1. CASE RefuseIndeterminate
      BY <3>1, JobShapes DEF RefuseIndeterminate, SettleError
    <3>2. CASE ClaimOrWatch
      BY <1>0, <3>2 DEF ClaimOrWatch, TypeOK
    <3> QED BY <1>8, <3>1, <3>2
  <2>3. entry[d] # "absent" => entry'[d] # "absent"
    BY <1>0, <1>8 DEF RefuseIndeterminate, ClaimOrWatch, TypeOK
  <2> QED BY <1>0, <2>1, <2>2, <2>3, LogSameFacts DEF Accounted
<1>9. CASE CancelNext \/ Supervised \/ SaveTurn \/ SaveTurnFails \/ EndTurn \/ MonitorFails \/ Read
  <2>1. /\ log' = log /\ receipt' = receipt /\ exec' = exec /\ entry' = entry
        /\ up' = up /\ unsure' = unsure
    BY <1>9 DEF CancelNext, Supervised, SaveTurn, SaveTurnFails, EndTurn, MonitorFails, Read
  <2>2. projection' = projection \/ (SaveTurn /\ projection = "free")
    BY <1>9 DEF CancelNext, Supervised, SaveTurn, SaveTurnFails, EndTurn, MonitorFails, Read
  <2>3. closer'.pc # "receipt" \/ SaveTurn
    <3>1. CASE CancelNext
      BY <1>0, <3>1 DEF CancelNext, TypeOK
    <3>2. CASE Supervised /\ ~closer.error
      BY <1>0, <3>2 DEF Supervised, TypeOK
    <3>3. CASE \/ (Supervised /\ closer.error) \/ SaveTurnFails
               \/ EndTurn \/ MonitorFails \/ Read
      BY <3>3, JobShapes DEF Supervised, SaveTurnFails, EndTurn, MonitorFails, Read, SettleError
    <3> QED BY <1>9, <3>1, <3>2, <3>3
  <2>4. SaveTurn => d \notin receipt.calls
    BY <1>0 DEF SaveTurn, Accounted, Behind, Closing, TypeOK
  <2> QED BY <1>0, <2>1, <2>2, <2>3, <2>4, LogSameFacts DEF Accounted
<1>10. CASE Publish
  <2>1. /\ receipt' = receipt /\ exec' = exec /\ entry' = entry /\ up' = up
        /\ projection = "closer"
    BY <1>0, <1>10 DEF Publish, Closing
  <2>2. closer'.pc # "receipt"
    BY <1>10, JobShapes DEF Publish
  <2>3. PICK result : AppendCompleted(result)
    BY <1>10 DEF Publish
  <2>4. (Settled(d)' <=> Settled(d)) /\ (Requested(d)' <=> Requested(d)) /\ (unsure => unsure')
    BY <1>0, <2>3, LogCompletedFacts
  <2> QED BY <1>0, <2>1, <2>2, <2>4 DEF Accounted
<1>11. CASE PublishFailure
  <2>1. /\ exec' = exec /\ entry' = entry /\ up' = up /\ projection = "closer"
        /\ receipt' \in {receipt, Queued}
    BY <1>0, <1>11 DEF PublishFailure, Closing
  <2>2. closer'.pc # "receipt"
    BY <1>11, JobShapes DEF PublishFailure
  <2>3. (\E result : AppendCompleted(result)) \/ (log' = log /\ unsure' = unsure)
    BY <1>11 DEF PublishFailure
  <2>4. (Settled(d)' <=> Settled(d)) /\ (Requested(d)' <=> Requested(d)) /\ (unsure => unsure')
    BY <1>0, <2>3, LogCompletedFacts, LogSameFacts
  <2>5. d \notin receipt.calls
    BY <1>0, <1>11 DEF PublishFailure, Accounted, Behind
  <2>6. Queued.calls = {}
    BY DEF Queued
  <2> QED BY <1>0, <2>1, <2>2, <2>4, <2>5, <2>6 DEF Accounted
<1>12. CASE FlushLock
  <2>1. /\ log' = log /\ exec' = exec /\ entry' = entry /\ receipt' = receipt
        /\ up' = up /\ unsure' = unsure /\ projection = "free"
    BY <1>12 DEF FlushLock
  <2>2. closer'.claims = receipt.calls
    BY <1>0, <1>12 DEF FlushLock, TypeOK
  <2> QED BY <1>0, <2>1, <2>2, LogSameFacts DEF Accounted
<1>13. CASE FlushCall
  <2>1. exec' = exec /\ entry' = entry /\ receipt' = receipt /\ up' = up /\ projection = "closer"
    BY <1>0, <1>13 DEF FlushCall, Closing
  <2>2. PICK c \in closer.claims, result \in Results :
          /\ CancelIfMissing(c, result)
          /\ closer' = IF result = "ok" THEN [closer EXCEPT !.claims = @ \ {c}] ELSE NoJob
    BY <1>13 DEF FlushCall
  <2>3. c \in Calls /\ "canceled" \in Terminal
    BY <1>0 DEF TypeOK, Terminal
  <2>4. /\ Settled(d) => Settled(d)'
        /\ Requested(d)' => Requested(d)
        /\ unsure => unsure'
        /\ result = "ok" => Settled(c)'
    <3>1. CASE Settled(c)
      BY <2>2, <3>1, LogSameFacts DEF CancelIfMissing
    <3>2. CASE ~Settled(c)
      BY <1>0, <2>2, <2>3, <3>2, LogAppendFacts, Append1Facts DEF CancelIfMissing
    <3> QED BY <3>1, <3>2
  <2>5. closer'.pc = "receipt" => result = "ok" /\ closer'.claims = closer.claims \ {c}
    BY <1>0, <2>2, JobShapes DEF TypeOK
  <2>6. closer.pc = "receipt"
    BY <1>13 DEF FlushCall
  <2> QED BY <1>0, <2>1, <2>4, <2>5, <2>6 DEF Accounted
<1>14. CASE FlushTurn
  <2>1. PICK result \in Results :
          /\ AppendCompleted(result)
          /\ receipt' = IF result = "ok" THEN [queued |-> FALSE, calls |-> {}] ELSE receipt
    BY <1>14 DEF FlushTurn
  <2>2. /\ exec' = exec /\ entry' = entry /\ up' = up /\ projection = "closer"
        /\ closer.pc = "receipt" /\ closer.claims = {}
    BY <1>0, <1>14 DEF FlushTurn, Closing
  <2>3. closer'.pc # "receipt"
    BY <1>14, JobShapes DEF FlushTurn
  <2>4. (Settled(d)' <=> Settled(d)) /\ (Requested(d)' <=> Requested(d)) /\ (unsure => unsure')
    BY <1>0, <2>1, LogCompletedFacts
  <2>5. d \in receipt.calls => d \in receipt'.calls \/ Settled(d)
    BY <1>0, <2>2 DEF Accounted
  <2>6. d \in receipt'.calls => d \in receipt.calls
    BY <2>1
  <2> QED BY <1>0, <2>2, <2>3, <2>4, <2>5, <2>6 DEF Accounted
<1>15. CASE Crash
  <2>1. ~up' /\ receipt'.calls = {} /\ \A x \in Calls : exec'[x] = "gone"
    BY <1>15 DEF Crash
  <2> QED BY <2>1 DEF Accounted
<1>16. CASE Recover
  <2>1. /\ log' = log /\ exec' = exec /\ closer' = closer /\ ~up
        /\ receipt'.calls = {c \in Calls : Requested(c) /\ ~Settled(c)}
    BY <1>16 DEF Recover
  <2>2. closer.pc # "receipt" /\ \A x \in Calls : exec[x] = "gone"
    BY <1>0, <2>1 DEF Closing, Behind
  <2> QED BY <2>1, <2>2, LogSameFacts DEF Accounted
<1>17. CASE Interrupt \/ UNCHANGED vars
  BY <1>0, <1>17, LogSameFacts DEF Interrupt, Accounted
<1> QED
  BY <1>1, <1>2, <1>3, <1>4, <1>5, <1>6, <1>7, <1>8, <1>9, <1>10, <1>11, <1>12, <1>13,
     <1>14, <1>15, <1>16, <1>17
  DEF Next, Executor, Closer

-----------------------------------------------------------------------------
(* The end of the turn.                                                      *)

\* What the closer's variables become, action by action.
LEMMA ClosingStep ==
    ASSUME IInv, [Next]_vars
    PROVE  Closing'
<1>0. TypeOK /\ Closing /\ TypeOK' /\ \A c \in Calls : Behind(c)
  BY TypeStep DEF IInv
<1>1. ASSUME NEW c \in Calls, Call(c) \/ Receive(c) \/ TimerFires(c) \/ TimerClaims(c) \/ Deliver(c)
      PROVE  Closing'
  BY <1>0, <1>1, LogSameFacts DEF Call, Receive, TimerFires, TimerClaims, Deliver, Closing
<1>2. ASSUME NEW c \in Calls, Register(c) \/ EmitRequest(c) \/ Drop(c)
      PROVE  Closing'
  <2>1. /\ closer' = closer /\ receipt' = receipt /\ up' = up /\ active' = active
        /\ monitor' = monitor
    BY <1>2 DEF Register, EmitRequest, Drop
  <2>2. exec[c] # "gone"
    BY <1>2 DEF Register, EmitRequest, Drop, Live
  <2>3. up
    BY <1>0, <2>2 DEF Behind
  <2>4. Completed' <=> Completed
    <3>1. CASE EmitRequest(c)
      BY <1>0, <3>1, LogAppendFacts DEF EmitRequest
    <3>2. CASE Register(c) \/ Drop(c)
      BY <3>2, LogSameFacts DEF Register, Drop
    <3> QED BY <1>2, <3>1, <3>2
  <2>5. closer.pc = "receipt" => projection' = "closer"
    BY <1>0, <1>2 DEF Register, EmitRequest, Drop, Closing, IInv, Accounted
  <2> QED BY <1>0, <2>1, <2>3, <2>4, <2>5 DEF Closing
<1>3. ASSUME NEW c \in Calls, Settle(c) PROVE Closing'
  <2>1. settle[c] \in Terminal
    BY <1>0, <1>3 DEF Settle, TypeOK
  <2>2. \E result : Append1(settle[c], c, result)
    BY <1>3 DEF Settle
  <2>3. Completed' <=> Completed
    BY <1>0, <2>1, <2>2, LogAppendFacts DEF Terminal
  <2>4. closer'.job = closer.job /\ closer'.pc = closer.pc /\ closer'.claims = closer.claims
    BY <1>0, <1>3 DEF Settle, TypeOK
  <2> QED BY <1>0, <1>3, <2>3, <2>4 DEF Settle, Closing
<1>4. CASE RefuseIndeterminate
  <2>1. closer' = OnError /\ closer.job # "none"
    BY <1>0, <1>4 DEF RefuseIndeterminate, SettleError, Closing
  <2>2. closer.job = "monitor" => monitor' = "failed"
    BY <1>4 DEF RefuseIndeterminate, SettleError
  <2>3. closer.job # "monitor" => monitor' = monitor
    BY <1>4 DEF RefuseIndeterminate, SettleError
  <2>4. /\ log' = log /\ receipt' = receipt /\ up' = up /\ active' = active
        /\ projection' = projection
    BY <1>4 DEF RefuseIndeterminate
  <2>5. Completed' <=> Completed
    BY <2>4, LogSameFacts
  <2> QED BY <1>0, <2>1, <2>2, <2>3, <2>4, <2>5, JobShapes DEF Closing
<1>5. CASE ClaimOrWatch \/ CancelNext \/ (Supervised /\ ~closer.error)
  <2>1. /\ log' = log /\ receipt' = receipt /\ up' = up /\ active' = active
        /\ projection' = projection /\ monitor' = monitor
    BY <1>5 DEF ClaimOrWatch, CancelNext, Supervised
  <2>2. closer.pc # "off" /\ closer'.job = closer.job /\ closer'.pc # "receipt"
    <3>1. CASE ClaimOrWatch
      BY <1>0, <3>1 DEF ClaimOrWatch, TypeOK
    <3>2. CASE CancelNext
      BY <1>0, <3>2 DEF CancelNext, TypeOK
    <3>3. CASE Supervised /\ ~closer.error
      BY <1>0, <3>3 DEF Supervised, TypeOK
    <3> QED BY <1>5, <3>1, <3>2, <3>3
  <2> QED BY <1>0, <2>1, <2>2, LogSameFacts DEF Closing
<1>6. CASE Supervised /\ closer.error
  <2>1. closer' = OnError /\ closer.job # "none"
    BY <1>0, <1>6 DEF Supervised, SettleError, Closing
  <2>2. closer.job = "monitor" => monitor' = "failed"
    BY <1>6 DEF Supervised, SettleError
  <2>3. closer.job # "monitor" => monitor' = monitor
    BY <1>6 DEF Supervised, SettleError
  <2>4. /\ log' = log /\ receipt' = receipt /\ up' = up /\ active' = active
        /\ projection' = projection
    BY <1>6 DEF Supervised
  <2>5. Completed' <=> Completed
    BY <2>4, LogSameFacts
  <2> QED BY <1>0, <2>1, <2>2, <2>3, <2>4, <2>5, JobShapes DEF Closing
<1>7. CASE SaveTurn \/ FlushLock
  <2>1. /\ log' = log /\ receipt' = receipt /\ up' = up /\ active' = active
        /\ projection' = "closer" /\ monitor' = monitor /\ closer.pc = "publish"
    BY <1>7 DEF SaveTurn, FlushLock
  <2>2. closer'.job = closer.job
    <3>1. "job" \in DOMAIN closer
      BY <1>0 DEF TypeOK
    <3>2. CASE SaveTurn
      BY <3>1, <3>2 DEF SaveTurn
    <3>3. CASE FlushLock
      BY <3>1, <3>3 DEF FlushLock
    <3> QED BY <1>7, <3>2, <3>3
  <2>3. closer.job # "none" /\ up
    BY <1>0, <2>1 DEF Closing
  <2> QED BY <1>0, <2>1, <2>2, <2>3, LogSameFacts DEF Closing
<1>8. CASE SaveTurnFails
  <2>1. /\ log' = log /\ receipt' = receipt /\ up' = up /\ projection' = projection
        /\ closer' \in {OnError, NoJob} /\ monitor' # "fine" /\ closer.pc = "publish"
    BY <1>8 DEF SaveTurnFails
  <2>2. up
    BY <1>0, <2>1 DEF Closing
  <2> QED BY <1>0, <2>1, <2>2, JobShapes DEF Closing
<1>9. CASE Publish
  <2>1. PICK result \in Results :
          /\ AppendCompleted(result)
          /\ active' = (result # "ok")
          /\ closer' = IF result = "ok" THEN NoJob ELSE OnError
          /\ monitor' = IF result = "ok" THEN monitor ELSE "failed"
    BY <1>9 DEF Publish
  <2>2. receipt' = receipt /\ up' = up /\ closer.pc = "receipt"
    BY <1>9 DEF Publish
  <2>3. up
    BY <1>0, <2>2 DEF Closing
  <2> QED BY <1>0, <2>1, <2>2, <2>3, JobShapes DEF Closing
<1>10. CASE PublishFailure
  <2>1. closer' = NoJob /\ monitor' = monitor /\ ~active' /\ up' = up /\ projection' = "free"
    BY <1>10 DEF PublishFailure
  <2> QED BY <2>1, JobShapes DEF Closing
<1>11. CASE FlushCall
  <2>1. PICK c \in closer.claims, result \in Results :
          /\ CancelIfMissing(c, result)
          /\ closer' = IF result = "ok" THEN [closer EXCEPT !.claims = @ \ {c}] ELSE NoJob
          /\ projection' = IF result = "ok" THEN projection ELSE "free"
    BY <1>11 DEF FlushCall
  <2>2. /\ receipt' = receipt /\ up' = up /\ active' = active /\ monitor' = monitor
        /\ closer.pc = "receipt"
    BY <1>11 DEF FlushCall
  <2>3. c \in Calls /\ "canceled" \in Terminal /\ up
    BY <1>0, <2>2 DEF TypeOK, Terminal, Closing
  <2>4. Completed' <=> Completed
    BY <1>0, <2>1, <2>3, LogSameFacts, LogAppendFacts DEF CancelIfMissing, Terminal
  <2>5. [closer EXCEPT !.claims = @ \ {c}].job = closer.job
    BY <1>0 DEF TypeOK
  <2> QED BY <1>0, <2>1, <2>2, <2>3, <2>4, <2>5, JobShapes DEF Closing
<1>12. CASE FlushTurn
  <2>1. PICK result \in Results :
          receipt' = IF result = "ok" THEN [queued |-> FALSE, calls |-> {}] ELSE receipt
    BY <1>12 DEF FlushTurn
  <2>2. /\ up' = up /\ active' = active /\ monitor' = monitor /\ closer' = NoJob
        /\ closer.job = "flush" /\ projection' = "free"
    BY <1>12 DEF FlushTurn
  <2> QED BY <1>0, <2>1, <2>2, JobShapes DEF Closing
<1>13. CASE EndTurn \/ MonitorFails \/ Read
  <2>1. /\ log' = log /\ up /\ up' = up /\ active' = active /\ receipt' = receipt
        /\ projection' = projection
    BY <1>13 DEF EndTurn, MonitorFails, Read
  <2>2. \/ closer' = Job("monitor") /\ monitor' = monitor
        \/ closer' = Job("failure") /\ monitor' = "failed"
        \/ closer' = Job("flush") /\ receipt.queued /\ monitor' = monitor
    BY <1>13 DEF EndTurn, MonitorFails, Read
  <2> QED BY <1>0, <2>1, <2>2, LogSameFacts, JobShapes DEF Closing
<1>14. CASE Crash
  BY <1>0, <1>14, JobShapes DEF Crash, Closing
<1>15. CASE Recover
  <2>1. /\ log' = log /\ up' /\ active' = active /\ closer' = closer /\ ~up /\ monitor' = monitor
    BY <1>15 DEF Recover
  <2> QED BY <1>0, <2>1, LogSameFacts DEF Closing
<1>16. CASE Interrupt \/ UNCHANGED vars
  BY <1>0, <1>16, LogSameFacts DEF Interrupt, Closing
<1> QED
  BY <1>1, <1>2, <1>3, <1>4, <1>5, <1>6, <1>7, <1>8, <1>9, <1>10, <1>11, <1>12, <1>13,
     <1>14, <1>15, <1>16
  DEF Next, Executor, Closer

LEMMA BehindStep ==
    ASSUME IInv, [Next]_vars, NEW d \in Calls
    PROVE  Behind(d)'
<1>0. /\ TypeOK /\ Behind(d) /\ Ownership(d) /\ Closing /\ TypeOK'
      /\ \A c \in Calls : Behind(c)
  BY TypeStep DEF IInv
<1>1. ASSUME NEW c \in Calls,
             Register(c) \/ EmitRequest(c) \/ Receive(c) \/ TimerFires(c) \/ TimerClaims(c)
                \/ Drop(c)
      PROVE  Behind(d)'
  <2>1. /\ closer' = closer /\ receipt' = receipt /\ up' = up /\ active' = active
        /\ monitor' = monitor
    BY <1>1 DEF Register, EmitRequest, Receive, TimerFires, TimerClaims, Drop
  <2>2. exec[c] \in Live
    BY <1>1 DEF Register, EmitRequest, Receive, TimerFires, TimerClaims, Drop, Live
  <2>3. /\ exec'[d] # exec[d] => d = c
        /\ entry'[d] # entry[d] => d = c
        /\ settle'[d] # settle[d] => d = c
    BY <1>0, <1>1 DEF Register, EmitRequest, Receive, TimerFires, TimerClaims, Drop, Goto,
       Return, TypeOK
  <2>4. /\ exec'[c] # "gone"
        /\ exec'[c] \in {"enter", "emit"} => exec[c] \in {"enter", "emit"}
    BY <1>0, <1>1 DEF Register, EmitRequest, Receive, TimerFires, TimerClaims, Drop, Goto,
       Return, TypeOK
  <2>5. Completed' <=> Completed
    <3>1. CASE EmitRequest(c)
      BY <1>0, <3>1, LogAppendFacts DEF EmitRequest
    <3>2. CASE ~EmitRequest(c)
      BY <1>1, <3>2, LogSameFacts DEF Register, Receive, TimerFires, TimerClaims, Drop
    <3> QED BY <3>1, <3>2
  <2>6. up /\ closer.job # "monitor" /\ ~(receipt.queued /\ monitor = "fine")
    BY <1>0, <2>2 DEF Behind, Live
  <2> QED BY <1>0, <2>1, <2>2, <2>3, <2>4, <2>5, <2>6 DEF Behind, Live
<1>2. ASSUME NEW c \in Calls, Call(c) PROVE Behind(d)'
  <2>1. /\ closer' = closer /\ receipt' = receipt /\ up' = up /\ active' = active
        /\ monitor' = monitor /\ entry' = entry /\ settle' = settle /\ log' = log
        /\ up /\ active /\ closer.job = "none"
    BY <1>2 DEF Call
  <2>2. exec'[d] = exec[d] \/ exec'[d] = "enter"
    BY <1>0, <1>2 DEF Call, Goto, TypeOK
  <2> QED BY <1>0, <2>1, <2>2, LogSameFacts DEF Behind, Closing
<1>3. ASSUME NEW c \in Calls, Deliver(c) PROVE Behind(d)'
  <2>1. /\ closer' = closer /\ receipt' = receipt /\ up' = up /\ active' = active
        /\ monitor' = monitor /\ exec' = exec /\ log' = log /\ entry[c] = "awaiting"
    BY <1>3 DEF Deliver
  <2>2. d = c \/ (entry'[d] = entry[d] /\ settle'[d] = settle[d])
    BY <1>0, <1>3 DEF Deliver, TypeOK
  <2> QED BY <1>0, <2>1, <2>2, LogSameFacts DEF Behind
<1>4. ASSUME NEW c \in Calls, Settle(c) PROVE Behind(d)'
  <2>1. settle[c] \in Terminal
    BY <1>0, <1>4 DEF Settle, TypeOK
  <2>2. PICK result \in Results :
          /\ Append1(settle[c], c, result)
          /\ entry' = [entry EXCEPT ![c] = IF @ = "absent" THEN @ ELSE After(result)]
    BY <1>4 DEF Settle
  <2>3. Completed' <=> Completed
    BY <1>0, <2>1, <2>2, LogAppendFacts DEF Terminal
  <2>4. /\ closer'.job = closer.job /\ closer'.pc = closer.pc
        /\ receipt' = receipt /\ up' = up /\ active' = active /\ monitor' = monitor
    BY <1>0, <1>4 DEF Settle, TypeOK
  <2>5. /\ entry[d] = "absent" => entry'[d] = "absent"
        /\ settle'[d] = settle[d] \/ settle'[d] = "none"
    BY <1>0, <1>4, <2>2 DEF Settle, TypeOK
  <2>6. /\ exec'[d] = "gone" <=> exec[d] = "gone"
        /\ exec[d] \notin Live => exec'[d] \notin Live
        /\ exec'[d] \in {"enter", "emit"} => exec[d] \in {"enter", "emit"}
    BY <1>0, <1>4 DEF Settle, TypeOK, Live
  <2> QED BY <1>0, <2>3, <2>4, <2>5, <2>6 DEF Behind
<1>5. CASE RefuseIndeterminate
  <2>1. /\ receipt' = receipt /\ up' = up /\ active' = active /\ exec' = exec
        /\ settle' = settle /\ log' = log /\ closer' = OnError
        /\ monitor' = monitor \/ monitor' = "failed"
    BY <1>5 DEF RefuseIndeterminate, SettleError
  <2>2. entry[d] = "absent" => entry'[d] = "absent"
    BY <1>0, <1>5 DEF RefuseIndeterminate, TypeOK, Awaiting
  <2> QED BY <1>0, <2>1, <2>2, LogSameFacts, JobShapes DEF Behind
<1>6. CASE ClaimOrWatch
  <2>1. /\ receipt' = receipt /\ up' = up /\ active' = active /\ exec' = exec
        /\ settle' = settle /\ log' = log /\ monitor' = monitor
    BY <1>6 DEF ClaimOrWatch
  <2>2. entry[d] = "absent" => entry'[d] = "absent"
    BY <1>0, <1>6 DEF ClaimOrWatch, TypeOK, Awaiting
  <2>3. /\ closer'.job = closer.job
        /\ closer'.pc \in {"publish", "receipt"} => Awaiting \cup Settling = {}
    BY <1>0, <1>6 DEF ClaimOrWatch, TypeOK
  <2>4. Awaiting \cup Settling = {} => entry[d] = "absent"
    BY <1>0, <1>6 DEF ClaimOrWatch, Awaiting, Settling, Indeterminate, TypeOK
  <2> QED BY <1>0, <2>1, <2>2, <2>3, <2>4, LogSameFacts DEF Behind
<1>7. CASE CancelNext
  <2>1. /\ receipt' = receipt /\ up' = up /\ active' = active /\ exec' = exec
        /\ entry' = entry /\ log' = log /\ monitor' = monitor
    BY <1>7 DEF CancelNext
  <2>2. PICK c \in closer.claims :
          /\ settle' = [settle EXCEPT ![c] = "canceled"]
          /\ closer' = [closer EXCEPT !.claims = @ \ {c}, !.current = c]
    BY <1>7 DEF CancelNext
  <2>3. closer'.job = closer.job /\ closer'.pc = "supervise" /\ closer.pc = "supervise"
    BY <1>0, <1>7, <2>2 DEF CancelNext, TypeOK
  <2>4. exec[d] = "gone" => settle'[d] = settle[d]
    <3>1. exec[d] = "gone" => d # c
      BY <1>0, <2>2, <2>3 DEF Ownership
    <3> QED BY <1>0, <2>2, <3>1 DEF TypeOK
  <2> QED BY <1>0, <2>1, <2>3, <2>4, LogSameFacts DEF Behind
<1>8. CASE Supervised \/ SaveTurn \/ SaveTurnFails \/ FlushLock
  <2>1. /\ receipt' = receipt /\ up' = up /\ exec' = exec
        /\ entry' = entry /\ settle' = settle /\ log' = log
        /\ monitor' = monitor \/ monitor' # "fine"
    BY <1>8 DEF Supervised, SaveTurn, SaveTurnFails, FlushLock, SettleError
  <2>2. active' => active \/ closer.job = "monitor"
    BY <1>8 DEF Supervised, SaveTurn, SaveTurnFails, FlushLock
  <2>3. \/ closer' = OnError \/ closer' = NoJob
        \/ /\ closer'.job = closer.job
           /\ closer'.pc \in {"publish", "receipt"} => closer.pc = "publish"
    <3>1. CASE Supervised \/ SaveTurnFails
      BY <1>0, <3>1 DEF Supervised, SaveTurnFails, SettleError, TypeOK
    <3>2. CASE SaveTurn \/ FlushLock
      BY <1>0, <3>2 DEF SaveTurn, FlushLock, TypeOK
    <3> QED BY <1>8, <3>1, <3>2
  <2> QED BY <1>0, <2>1, <2>2, <2>3, LogSameFacts, JobShapes DEF Behind
<1>9. CASE Publish
  <2>1. /\ receipt' = receipt /\ up' = up /\ exec' = exec
        /\ entry' = entry /\ settle' = settle /\ closer.job = "monitor"
        /\ monitor' = monitor \/ monitor' # "fine"
        /\ closer' \in {NoJob, OnError}
    BY <1>9 DEF Publish
  <2>2. exec[d] # "gone" /\ exec[d] \notin Live
    BY <1>0, <2>1 DEF Behind
  <2> QED BY <1>0, <2>1, <2>2, JobShapes DEF Behind, Live
<1>10. CASE PublishFailure
  <2>1. /\ up' = up /\ exec' = exec /\ entry' = entry /\ settle' = settle
        /\ monitor' = monitor /\ closer.job = "failure" /\ closer' = NoJob
    BY <1>10 DEF PublishFailure
  <2>2. exec[d] # "gone" /\ monitor # "fine"
    BY <1>0, <2>1 DEF Behind, Closing
  <2> QED BY <1>0, <2>1, <2>2, JobShapes DEF Behind
<1>11. CASE FlushCall
  <2>1. /\ receipt' = receipt /\ up' = up /\ exec' = exec /\ active' = active
        /\ entry' = entry /\ settle' = settle /\ monitor' = monitor /\ closer.job = "flush"
    BY <1>11 DEF FlushCall
  <2>2. closer'.job \in {"none", "flush"}
    BY <1>0, <1>11, JobShapes DEF FlushCall, TypeOK
  <2>3. receipt.queued
    BY <1>0, <2>1 DEF Closing
  <2> QED BY <1>0, <2>1, <2>2, <2>3 DEF Behind
<1>12. CASE FlushTurn
  <2>1. PICK result \in Results :
          receipt' = IF result = "ok" THEN [queued |-> FALSE, calls |-> {}] ELSE receipt
    BY <1>12 DEF FlushTurn
  <2>2. /\ up' = up /\ exec' = exec /\ active' = active /\ closer' = NoJob
        /\ entry' = entry /\ settle' = settle /\ monitor' = monitor /\ closer.job = "flush"
    BY <1>12 DEF FlushTurn
  <2>3. receipt.queued
    BY <1>0, <2>2 DEF Closing
  <2> QED BY <1>0, <2>1, <2>2, <2>3, JobShapes DEF Behind
<1>13. CASE EndTurn \/ MonitorFails \/ Read
  <2>1. /\ receipt' = receipt /\ up' = up /\ exec' = exec /\ active' = active
        /\ entry' = entry /\ settle' = settle /\ log' = log
    BY <1>13 DEF EndTurn, MonitorFails, Read
  <2>2. \/ closer' = Job("monitor") /\ monitor' = monitor /\ active /\ exec[d] \notin Live
        \/ closer' = Job("failure") /\ monitor' = "failed" /\ active
        \/ closer' = Job("flush") /\ monitor' = monitor
    BY <1>13 DEF EndTurn, MonitorFails, Read
  <2> QED BY <1>0, <2>1, <2>2, LogSameFacts, JobShapes DEF Behind
<1>14. CASE Crash
  <2>1. /\ exec'[d] = "gone" /\ entry'[d] = "absent" /\ settle'[d] = "none" /\ ~active'
        /\ closer' = NoJob
    BY <1>14 DEF Crash
  <2> QED BY <2>1, JobShapes DEF Behind
<1>15. CASE Recover
  <2>1. /\ exec' = exec /\ entry' = entry /\ settle' = settle /\ active' = active
        /\ closer' = closer /\ ~up
    BY <1>15 DEF Recover
  <2> QED BY <1>0, <2>1 DEF Behind
<1>16. CASE Interrupt \/ UNCHANGED vars
  BY <1>0, <1>16, LogSameFacts DEF Interrupt, Behind
<1> QED
  BY <1>1, <1>2, <1>3, <1>4, <1>5, <1>6, <1>7, <1>8, <1>9, <1>10, <1>11, <1>12, <1>13,
     <1>14, <1>15, <1>16
  DEF Next, Executor, Closer

-----------------------------------------------------------------------------
(* The log holds one receipt of a call, and the completion comes last.       *)

LEMMA LineFacts ==
    ASSUME TypeOK, NEW i \in DOMAIN log
    PROVE  /\ log[i].event \in Terminal \cup {"requested", "completed"}
           /\ log[i].call \in Calls \cup {NoCall}
           /\ InLog(log[i].event, log[i].call)
<1>0. log \in Seq(Lines)
  BY DEF TypeOK, Lines
<1>1. log[i] \in Lines
  BY <1>0
<1>2. log[i] = Line(log[i].event, log[i].call)
  BY <1>1 DEF Lines, Line
<1> QED BY <1>1, <1>2 DEF Lines, InLog

\* A failed monitor and an indeterminate append stay on record.
LEMMA HistoryStep ==
    ASSUME TypeOK, [Next]_vars
    PROVE  /\ monitor' = "fine" => monitor = "fine"
           /\ unsure => unsure'
<1>1. ASSUME NEW c \in Calls,
             Call(c) \/ Register(c) \/ Receive(c) \/ TimerFires(c) \/ TimerClaims(c) \/ Drop(c)
                \/ Deliver(c)
      PROVE  monitor' = monitor /\ unsure' = unsure
  BY <1>1 DEF Call, Register, Receive, TimerFires, TimerClaims, Drop, Deliver
<1>2. ASSUME NEW c \in Calls, EmitRequest(c) \/ Settle(c)
      PROVE  monitor' = monitor /\ (unsure => unsure')
  <2>1. settle[c] = "none" \/ settle[c] \in Terminal
    BY DEF TypeOK
  <2>2. \E result : Append1("requested", c, result)
                      \/ (settle[c] \in Terminal /\ Append1(settle[c], c, result))
    BY <1>2, <2>1 DEF EmitRequest, Settle
  <2> QED BY <1>2, <2>2, Append1Facts DEF EmitRequest, Settle
<1>3. ASSUME Publish \/ PublishFailure \/ FlushTurn
      PROVE  (monitor' = "fine" => monitor = "fine") /\ (unsure => unsure')
  <2>1. (\E result : AppendCompleted(result)) \/ unsure' = unsure
    BY <1>3 DEF Publish, PublishFailure, FlushTurn
  <2> QED BY <1>3, <2>1, LogCompletedFacts DEF Publish, PublishFailure, FlushTurn
<1>4. ASSUME FlushCall
      PROVE  monitor' = monitor /\ (unsure => unsure')
  <2>1. PICK c \in closer.claims, result \in Results : CancelIfMissing(c, result)
    BY <1>4 DEF FlushCall
  <2>2. c \in Calls /\ "canceled" \in Terminal
    BY DEF TypeOK, Terminal
  <2>3. unsure => unsure'
    BY <2>1, <2>2, Append1Facts DEF CancelIfMissing
  <2> QED BY <1>4, <2>3 DEF FlushCall
<1>5. ASSUME RefuseIndeterminate \/ ClaimOrWatch \/ CancelNext \/ Supervised \/ SaveTurn
                \/ FlushLock \/ SaveTurnFails
      PROVE  (monitor' = "fine" => monitor = "fine") /\ unsure' = unsure
  BY <1>5 DEF RefuseIndeterminate, ClaimOrWatch, CancelNext, Supervised, SaveTurn, FlushLock,
     SaveTurnFails, SettleError
<1>6. ASSUME EndTurn \/ MonitorFails \/ Interrupt \/ Read \/ Crash \/ Recover \/ UNCHANGED vars
      PROVE  (monitor' = "fine" => monitor = "fine") /\ unsure' = unsure
  BY <1>6 DEF EndTurn, MonitorFails, Interrupt, Read, Crash, Recover
<1> QED BY <1>1, <1>2, <1>3, <1>4, <1>5, <1>6 DEF Next, Executor, Closer

\* When the turn is completed, by its monitor or by a flush after a restart,
\* every announced call has its receipt.
LEMMA CompletedAfterCalls ==
    ASSUME IInv, Publish \/ PublishFailure \/ FlushTurn, monitor = "fine", ~unsure,
           NEW c \in Calls, Requested(c)
    PROVE  Settled(c)
<1>0. Accounted(c) /\ Behind(c) /\ Closing
  BY DEF IInv
<1>1. CASE Publish
  BY <1>0, <1>1 DEF Publish, Accounted, Behind, Closing
<1>2. CASE PublishFailure
  BY <1>0, <1>2 DEF PublishFailure, Closing
<1>3. CASE FlushTurn
  BY <1>0, <1>3 DEF FlushTurn, Accounted, Behind, Closing
<1> QED BY <1>1, <1>2, <1>3

LEMMA LogStep ==
    ASSUME IInv, [Next]_vars
    PROVE  LogShape' /\ OneReceipt' /\ CallsBeforeCompletion'
<1>0. TypeOK /\ LogShape /\ OneReceipt /\ CallsBeforeCompletion
  BY DEF IInv
<1>1. CASE log' = log
  BY <1>0, <1>1, HistoryStep DEF LogShape, OneReceipt, CallsBeforeCompletion
<1>2. ASSUME NEW e \in Terminal \cup {"requested", "completed"}, NEW c \in Calls \cup {NoCall},
             log' = Append(log, Line(e, c)),
             e = "completed" <=> c = NoCall,
             e \in Terminal => ~Settled(c),
             e = "completed" => ~Completed,
             e = "requested" /\ monitor' = "fine" => ~Completed,
             e = "completed" /\ monitor' = "fine" /\ ~unsure' =>
                 \A d \in Calls : Requested(d) => Settled(d)
      PROVE  LogShape' /\ OneReceipt' /\ CallsBeforeCompletion'
  <2> DEFINE n == Len(log)
  <2>1. /\ DOMAIN log = 1..n /\ n \in Nat
        /\ DOMAIN log' = 1..(n + 1)
        /\ \A i \in 1..n : log'[i] = log[i]
        /\ log'[n + 1] = Line(e, c)
    <3>1. Line(e, c) \in Lines /\ log \in Seq(Lines)
      BY <1>0 DEF Line, Lines, TypeOK
    <3> QED BY <1>2, <3>1, AppendFacts
  <2> HIDE DEF n
  <2>2. Line(e, c).event = e /\ Line(e, c).call = c
    BY DEF Line
  <2>3. ASSUME NEW i \in 1..n
        PROVE  /\ log[i].event \in Terminal \cup {"requested", "completed"}
               /\ log[i].call \in Calls \cup {NoCall}
               /\ log[i].event = "completed" <=> log[i].call = NoCall
               /\ log[i].event = "completed" => Completed
               /\ log[i].event = "requested" => Requested(log[i].call)
               /\ log[i].event \in Terminal => Settled(log[i].call)
    BY <1>0, <2>1, LineFacts DEF LogShape, Completed, Requested, Settled
  <2>4. LogShape'
    BY <1>2, <2>1, <2>2, <2>3 DEF LogShape
  <2>5. ASSUME NEW i \in 1..n, log[i].event # "requested", e # "requested"
        PROVE  log[i].call # c
    BY <1>2, <2>3, <2>5 DEF Terminal
  <2>6. OneReceipt'
    <3> SUFFICES ASSUME NEW i \in 1..(n + 1), NEW j \in 1..(n + 1),
                        log'[i].event # "requested", log'[j].event # "requested",
                        log'[i].call = log'[j].call
                 PROVE  i = j
      BY <2>1 DEF OneReceipt
    <3>1. CASE i \in 1..n /\ j \in 1..n
      BY <1>0, <2>1, <3>1 DEF OneReceipt
    <3>2. CASE i \in 1..n /\ j = n + 1
      BY <2>1, <2>2, <2>5, <3>2
    <3>3. CASE i = n + 1 /\ j \in 1..n
      BY <2>1, <2>2, <2>5, <3>3
    <3> QED BY <2>1, <3>1, <3>2, <3>3
  <2>7. CallsBeforeCompletion'
    <3> SUFFICES ASSUME monitor' = "fine", ~unsure',
                        NEW i \in 1..(n + 1), NEW j \in 1..(n + 1),
                        log'[i].event = "requested", log'[j].event = "completed"
                 PROVE  \E k \in 1..(j - 1) : log'[k].call = log'[i].call
                                               /\ log'[k].event \in Terminal
      BY <2>1 DEF CallsBeforeCompletion
    <3>1. monitor = "fine" /\ ~unsure
      BY <1>0, HistoryStep
    <3>2. CASE i \in 1..n /\ j \in 1..n
      <4>1. PICK k \in 1..(j - 1) : log[k].call = log[i].call /\ log[k].event \in Terminal
        BY <1>0, <2>1, <3>1, <3>2 DEF CallsBeforeCompletion
      <4>2. k \in 1..n
        BY <2>1, <3>2
      <4> QED BY <2>1, <3>2, <4>1, <4>2
    <3>3. CASE i = n + 1
      <4>1. e = "requested"
        BY <2>1, <2>2, <3>3
      <4>2. j \in 1..n
        BY <2>1, <2>2, <4>1
      <4> QED BY <1>2, <2>1, <2>3, <4>1, <4>2
    <3>4. CASE i \in 1..n /\ j = n + 1
      <4>1. e = "completed" /\ log[i].event = "requested"
        BY <2>1, <2>2, <3>4
      <4>2. log[i].call \in Calls /\ Requested(log[i].call)
        BY <2>3, <3>4, <4>1
      <4>3. Settled(log[i].call)
        BY <1>2, <4>1, <4>2
      <4>4. PICK k \in 1..n, event \in Terminal : log[k] = Line(event, log[i].call)
        BY <2>1, <4>3 DEF Settled, InLog
      <4>5. k \in 1..(j - 1)
        BY <2>1, <3>4
      <4>6. log'[k].call = log'[i].call /\ log'[k].event \in Terminal
        BY <2>1, <3>4, <4>4 DEF Line
      <4> QED BY <4>5, <4>6
    <3> QED BY <2>1, <3>2, <3>3, <3>4
  <2> QED BY <2>4, <2>6, <2>7
<1>3. ASSUME NEW c \in Calls, NEW result, EmitRequest(c), Append1("requested", c, result)
      PROVE  LogShape' /\ OneReceipt' /\ CallsBeforeCompletion'
  <2>1. monitor' = "fine" => ~Completed
    BY <1>3 DEF IInv, Behind, EmitRequest
  <2>2. log' = log \/ log' = Append(log, Line("requested", c))
    BY <1>0, <1>3, Append1Facts
  <2> QED BY <1>1, <1>2, <2>1, <2>2, CallsAssumption DEF Terminal
<1>4. ASSUME NEW c \in Calls, NEW result, NEW o \in Terminal, ~Settled(c), Append1(o, c, result)
      PROVE  LogShape' /\ OneReceipt' /\ CallsBeforeCompletion'
  <2>1. log' = log \/ log' = Append(log, Line(o, c))
    BY <1>0, <1>4, Append1Facts
  <2>2. o # "completed" /\ o # "requested" /\ c # NoCall
    BY CallsAssumption DEF Terminal
  <2> QED BY <1>1, <1>2, <1>4, <2>1, <2>2
<1>5. ASSUME NEW result, Publish \/ PublishFailure \/ FlushTurn, ~Completed,
             Append1("completed", NoCall, result)
      PROVE  LogShape' /\ OneReceipt' /\ CallsBeforeCompletion'
  <2>1. ASSUME monitor' = "fine", ~unsure', NEW d \in Calls, Requested(d)
        PROVE  Settled(d)
    BY <1>0, <1>5, <2>1, HistoryStep, CompletedAfterCalls
  <2>2. log' = log \/ log' = Append(log, Line("completed", NoCall))
    BY <1>0, <1>5, Append1Facts
  <2> QED BY <1>1, <1>2, <1>5, <2>1, <2>2 DEF Terminal
<1>6. ASSUME NEW c \in Calls, Settle(c) PROVE ~Settled(c)
  BY <1>6 DEF Settle, IInv, Ownership
<1>7. "canceled" \in Terminal
  BY DEF Terminal
<1> QED BY <1>0, <1>1, <1>3, <1>4, <1>5, <1>6, <1>7, Writes

-----------------------------------------------------------------------------
(* Theorems.                                                                 *)

LEMMA InitIInv == Init => IInv
<1> SUFFICES ASSUME Init PROVE IInv
  OBVIOUS
<1>1. TypeOK
  <2>1. log \in Seq(Lines) /\ closer \in ClosingJob
    BY JobTypes DEF Init
  <2> QED BY <2>1 DEF Init, TypeOK, Lines, ClosingJob
<1>2. /\ log = <<>> /\ DOMAIN log = {}
  BY DEF Init
<1>3. \A e, c : ~InLog(e, c)
  BY <1>2 DEF InLog
<1>4. ASSUME NEW c \in Calls
      PROVE  Ownership(c) /\ Truthful(c) /\ Accounted(c) /\ Behind(c)
  BY <1>3, <1>4, JobShapes
  DEF Init, Ownership, Truthful, Accounted, Behind, Settled, Requested, Completed, Live
<1>5. Closing
  BY <1>3, JobShapes DEF Init, Closing, Completed
<1>6. LogShape /\ OneReceipt /\ CallsBeforeCompletion
  BY <1>2 DEF LogShape, OneReceipt, CallsBeforeCompletion
<1> QED BY <1>1, <1>4, <1>5, <1>6 DEF IInv

LEMMA IInvHolds == Spec => []IInv
<1>1. IInv /\ [Next]_vars => IInv'
  <2> SUFFICES ASSUME IInv, [Next]_vars PROVE IInv'
    OBVIOUS
  <2>1. TypeOK'
    BY TypeStep DEF IInv
  <2>2. \A c \in Calls : Ownership(c)' /\ Truthful(c)' /\ Accounted(c)' /\ Behind(c)'
    BY OwnershipStep, TruthfulStep, AccountedStep, BehindStep
  <2>3. Closing' /\ LogShape' /\ OneReceipt' /\ CallsBeforeCompletion'
    BY ClosingStep, LogStep
  <2> QED BY <2>1, <2>2, <2>3 DEF IInv
<1> QED BY InitIInv, <1>1, PTL DEF Spec

\* Every step of every party keeps the types; in particular a settlement leaves
\* the registry in a state the other parties know.
THEOREM TypeCorrect == Spec => []TypeOK
<1>1. IInv => TypeOK
  BY DEF IInv
<1> QED BY IInvHolds, <1>1, PTL

\* A call has at most one receipt and the turn one completion in the log,
\* however client, timer, end of turn, failure path and recovery race.
THEOREM SettledOnce == Spec => []OneReceipt
<1>1. IInv => OneReceipt
  BY DEF IInv
<1> QED BY IInvHolds, <1>1, PTL

\* The executor and the client are told only what the log holds.
THEOREM AnswersAreTrue == Spec => []AnswersHaveReceipts
<1>1. IInv => AnswersHaveReceipts
  BY DEF IInv, TypeOK, Truthful, AnswersHaveReceipts
<1> QED BY IInvHolds, <1>1, PTL

\* A snapshot of the thread strands no announced call.
THEOREM SnapshotsAreComplete == Spec => []SnapshotComplete
<1>1. IInv => SnapshotComplete
  BY DEF IInv, Accounted, SnapshotComplete
<1> QED BY IInvHolds, <1>1, PTL

\* The completion of a turn follows the receipts of its calls.
THEOREM CompletionIsLast == Spec => []CallsBeforeCompletion
<1>1. IInv => CallsBeforeCompletion
  BY DEF IInv
<1> QED BY IInvHolds, <1>1, PTL
=============================================================================
