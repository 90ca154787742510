------------------------------ MODULE TaskBoard ------------------------------
(***************************************************************************)
(* What the task manager promises about the durable record of a task,      *)
(* whatever crashes and failed writes do: the record only moves forward,   *)
(* an outcome is final, and a restart fails exactly the tasks recorded as  *)
(* running.  TaskManager implements this specification; AutomationManager  *)
(* is built on it.                                                         *)
(***************************************************************************)

CONSTANT Tasks

VARIABLE status   \* [Tasks -> Status], the durable record

Outcome == {"Completed", "Failed", "Canceled"}
Status  == {"Absent", "Queued", "Running"} \cup Outcome

\* What a restart makes of the records: load_state fails the running ones.
Recovered(record) ==
    [t \in Tasks |-> IF record[t] = "Running" THEN "Failed" ELSE record[t]]

BoardInit == status = [t \in Tasks |-> "Absent"]

\* add_task: the staged record is promoted.
Accept(t) ==
    /\ status[t] = "Absent"
    /\ status' = [status EXCEPT ![t] = "Queued"]

\* A worker's start of the task reaches its record.
Begin(t) ==
    /\ status[t] = "Queued"
    /\ status' = [status EXCEPT ![t] = "Running"]

\* An outcome reaches the record: of an execution, whose start may have failed
\* to be written, or of a cancellation before any.
End(t, o) ==
    /\ status[t] \in {"Queued", "Running"}
    /\ status' = [status EXCEPT ![t] = o]

\* The process died.
Interrupt == status' = Recovered(status)

BoardNext ==
    \/ \E t \in Tasks : Accept(t) \/ Begin(t)
    \/ \E t \in Tasks, o \in Outcome : End(t, o)
    \/ Interrupt

BoardSpec == BoardInit /\ [][BoardNext]_status
=============================================================================
