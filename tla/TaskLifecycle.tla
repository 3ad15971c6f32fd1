--------------------------- MODULE TaskLifecycle ---------------------------
(***************************************************************************)
(* What /v1/tasks promises about a task, with the queue, the workers, the  *)
(* poller and the vendor hidden: a task is accepted, started, and ends in  *)
(* exactly one of three final states; it is charged at most once, never    *)
(* before it has been started upstream, and never reported succeeded       *)
(* without having been charged.                                            *)
(***************************************************************************)
EXTENDS Naturals

CONSTANT Task          \* task ids (tasks.id)

VARIABLES status,      \* tasks.status, "Absent" before the row exists
          billed       \* number of usage_logs rows charged to the task

lifecycleVars == <<status, billed>>

Final == {"Succeeded", "Failed", "Cancelled"}
Status == {"Absent", "Queued", "Running"} \cup Final

Init == /\ status = [t \in Task |-> "Absent"]
        /\ billed = [t \in Task |-> 0]

Move(t, from, to) == /\ status[t] \in from
                     /\ status' = [status EXCEPT ![t] = to]
                     /\ UNCHANGED billed

Accept(t) == Move(t, {"Absent"}, "Queued")
Start(t) == Move(t, {"Queued"}, "Running")
Succeed(t) == billed[t] = 1 /\ Move(t, {"Running"}, "Succeeded")
Fail(t) == Move(t, {"Queued", "Running"}, "Failed")
Cancel(t) == Move(t, {"Queued", "Running"}, "Cancelled")

\* A charge may land after the task was cancelled or failed while its result
\* was being stored, but never on a task that was not started.
Charge(t) == /\ status[t] \notin {"Absent", "Queued"}
             /\ billed[t] = 0
             /\ billed' = [billed EXCEPT ![t] = 1]
             /\ UNCHANGED status

Next == \E t \in Task : \/ Accept(t) \/ Start(t) \/ Succeed(t)
                        \/ Fail(t) \/ Cancel(t) \/ Charge(t)

Spec == Init /\ [][Next]_lifecycleVars
============================================================================
