---------------------------- MODULE TaskRuntime ----------------------------
(***************************************************************************)
(* The asynchronous task runtime (crates/task): the /v1/tasks handlers,    *)
(* the two Redis lists, the workers that submit to the vendor, the poller  *)
(* that finalises, the start-up recovery sweep, and process crashes.       *)
(*                                                                         *)
(* Every action is one await-to-await step of one actor.  Postgres rows,   *)
(* Redis lists, the object store and the vendor survive a Crash; workers,  *)
(* poll routines, the poller's batch, the in-flight set and spawned        *)
(* routines do not.  A step that may fail because of the database, Redis,  *)
(* the object store or a dropped connection spends one unit of MaxFaults.  *)
(***************************************************************************)
EXTENDS Integers, Sequences, FiniteSets

CONSTANTS
  Task,        \* task ids, ordered like tasks.id
  Worker,      \* the worker loops (WORKER_CONCURRENCY of them)
  Slot,        \* routines that can run process_poll at the same time
  Job,         \* vendor_task_id values the vendor can hand out
  None,        \* stands for NULL / Option::None
  PollMax,     \* POLL_MAX
  BatchLimit,  \* LIMIT of the running_tasks query
  MaxCrashes,  \* bound: process restarts
  MaxFaults    \* bound: failing database, Redis, store or network calls

ASSUME RuntimeAssumption ==
  /\ Task \subseteq Nat /\ IsFiniteSet(Task)
  /\ None \notin Task \cup Job
  /\ PollMax \in Nat \ {0}
  /\ BatchLimit \in Nat \ {0}
  /\ MaxCrashes \in Nat /\ MaxFaults \in Nat

VARIABLES
  status, vendorTaskId, pollCount,  \* columns of the tasks row
  billed,                           \* usage_logs rows with request_id rr-task-{id}
  artifacts,                        \* artifacts rows of the task
  queued, processing,               \* the Redis lists QUEUE_KEY and PROCESSING_KEY
  upstream, jobTask,                \* the vendor: state of a job, the task it was made for
  enqueue,                          \* how far the submit handler of a task got
  sweep, sweepTodo, sweepTask,      \* recovery_sweep: position, ids left, id in hand
  wpc, wtask, wjob,                 \* a worker: position, task id, vendor id in hand
  batch, batchCount,                \* poller_loop: rows left of its list, their poll_count
  active,                           \* poller_loop: the in-flight set
  ppc, ptask, pcount,               \* a poll routine: position, task, poll_count of its row
  cancels,                          \* spawned upstream cancellations not yet performed
  okHooks, failHooks,               \* history: "succeeded" / "failed" webhooks spawned
  crashes, faults                   \* restarts and failed calls so far

rowVars == <<status, vendorTaskId, pollCount, billed, artifacts>>
listVars == <<queued, processing>>
vendorVars == <<upstream, jobTask>>
sweepVars == <<sweep, sweepTodo, sweepTask>>
workerVars == <<wpc, wtask, wjob>>
loopVars == <<batch, batchCount>>
pollVars == <<active, ppc, ptask, pcount>>
hookVars == <<okHooks, failHooks>>
vars == <<rowVars, listVars, vendorVars, enqueue, sweepVars, workerVars,
          loopVars, pollVars, cancels, hookVars, crashes, faults>>

Final == {"Succeeded", "Failed", "Cancelled"}
Open == {"Queued", "Running"}
Status == {"Absent"} \cup Open \cup Final

InQueue(t) == \E i \in 1..Len(queued) : queued[i] = t

Fault == faults < MaxFaults /\ faults' = faults + 1

----------------------------------------------------------------------------
Init ==
  /\ status = [t \in Task |-> "Absent"]
  /\ vendorTaskId = [t \in Task |-> None]
  /\ pollCount = [t \in Task |-> 0]
  /\ billed = [t \in Task |-> 0]
  /\ artifacts = [t \in Task |-> 0]
  /\ queued = <<>>
  /\ processing = [t \in Task |-> 0]
  /\ upstream = [j \in Job |-> "unused"]
  /\ jobTask = [j \in Job |-> None]
  /\ enqueue = [t \in Task |-> "none"]
  /\ sweep = "read"
  /\ sweepTodo = [t \in Task |-> 0]
  /\ sweepTask = None
  /\ wpc = [w \in Worker |-> "idle"]
  /\ wtask = [w \in Worker |-> None]
  /\ wjob = [w \in Worker |-> None]
  /\ batch = {}
  /\ batchCount = [t \in Task |-> 0]
  /\ active = {}
  /\ ppc = [s \in Slot |-> "idle"]
  /\ ptask = [s \in Slot |-> None]
  /\ pcount = [s \in Slot |-> 0]
  /\ cancels = {}
  /\ okHooks = [t \in Task |-> 0]
  /\ failHooks = [t \in Task |-> 0]
  /\ crashes = 0
  /\ faults = 0

----------------------------------------------------------------------------
(* Slips: what a wrong edit of the code would make of a definition below.  *)
(* No action uses them; each shows that a property notices the slip.       *)

SpawnCancelForgotten(id) == UNCHANGED cancels
VerdictAlwaysRemove(t) == "remove"
WorkersUpAtOnce == TRUE
StillQueuedUnchecked(t) == TRUE
FailedHookAlways(t, changed) == failHooks' = [failHooks EXCEPT ![t] = @ + 1]
TimedOutLate(s) == pcount[s] >= PollMax
CountedForgotten(t) == pollCount
AfterLookupAlwaysSettle(t) == "settle"
----------------------------------------------------------------------------
(* The HTTP handlers.  A handler is dropped when its client disconnects,   *)
(* so everything after its first write may be lost.                        *)

\* submit: the request passed its checks and the row is inserted as Queued.
Insert(t) ==
  /\ status[t] = "Absent"
  /\ status' = [status EXCEPT ![t] = "Queued"]
  /\ enqueue' = [enqueue EXCEPT ![t] = "pending"]
  /\ UNCHANGED <<vendorTaskId, pollCount, billed, artifacts, listVars, vendorVars,
                 sweepVars, workerVars, loopVars, pollVars, cancels, hookVars,
                 crashes, faults>>

\* submit, after the insert: LPUSH, best effort.
Enqueue(t) ==
  /\ enqueue[t] = "pending"
  /\ \/ /\ queued' = Append(queued, t)
        /\ enqueue' = [enqueue EXCEPT ![t] = "done"]
        /\ UNCHANGED faults
     \/ /\ Fault
        /\ enqueue' = [enqueue EXCEPT ![t] = "lost"]
        /\ UNCHANGED queued
  /\ UNCHANGED <<rowVars, processing, vendorVars, sweepVars, workerVars, loopVars,
                 pollVars, cancels, hookVars, crashes>>

\* spawn_upstream_cancel is spawned for a vendor id, when there is one.
SpawnCancel(id) == cancels' = cancels \cup ({id} \ {None})

\* cancel: the conditional update, the re-read, and the spawned upstream
\* cancellation when this call made the transition and a vendor id is there.
Cancel(t) ==
  /\ status[t] \in Open
  /\ status' = [status EXCEPT ![t] = "Cancelled"]
  /\ \/ SpawnCancel(vendorTaskId[t]) /\ UNCHANGED faults
     \/ Fault /\ vendorTaskId[t] # None /\ UNCHANGED cancels
  /\ UNCHANGED <<vendorTaskId, pollCount, billed, artifacts, listVars, vendorVars,
                 enqueue, sweepVars, workerVars, loopVars, pollVars, hookVars, crashes>>

\* spawn_upstream_cancel and its twin in process_submit: one best-effort call.
UpstreamCancel(j) ==
  /\ j \in cancels
  /\ cancels' = cancels \ {j}
  /\ \/ /\ upstream' = IF upstream[j] = "running"
                       THEN [upstream EXCEPT ![j] = "cancelled"] ELSE upstream
        /\ UNCHANGED faults
     \/ Fault /\ UNCHANGED upstream
  /\ UNCHANGED <<rowVars, listVars, jobTask, enqueue, sweepVars, workerVars, loopVars,
                 pollVars, hookVars, crashes>>

\* The vendor finishes a job on its own.
VendorFinish(j) ==
  /\ upstream[j] = "running"
  /\ \E outcome \in {"succeeded", "failed"} :
       upstream' = [upstream EXCEPT ![j] = outcome]
  /\ UNCHANGED <<rowVars, listVars, jobTask, enqueue, sweepVars, workerVars, loopVars,
                 pollVars, cancels, hookVars, crashes, faults>>

----------------------------------------------------------------------------
(* recovery_sweep: runs alone before the workers start ("up"), and gives   *)
(* up on the first Redis error, leaving the rest in PROCESSING_KEY.        *)

\* LRANGE of the processing list.
SweepRead ==
  /\ sweep = "read"
  /\ \/ /\ sweep' = "item" /\ sweepTodo' = processing
        /\ UNCHANGED faults
     \/ Fault /\ sweep' = "up" /\ UNCHANGED sweepTodo
  /\ UNCHANGED <<rowVars, listVars, vendorVars, enqueue, sweepTask, workerVars,
                 loopVars, pollVars, cancels, hookVars, crashes>>

Verdict(t) == IF status[t] = "Queued" THEN "push" ELSE "remove"

\* Look one id up: still Queued goes on to LPUSH, anything else to LREM; a
\* failing lookup skips the id.
SweepItem(t) ==
  /\ sweep = "item" /\ sweepTodo[t] > 0
  /\ sweepTodo' = [sweepTodo EXCEPT ![t] = @ - 1]
  /\ \/ /\ sweep' = Verdict(t)
        /\ sweepTask' = t
        /\ UNCHANGED faults
     \/ Fault /\ UNCHANGED <<sweep, sweepTask>>
  /\ UNCHANGED <<rowVars, listVars, vendorVars, enqueue, workerVars, loopVars,
                 pollVars, cancels, hookVars, crashes>>

\* LPUSH the id; an error, whether or not the push was applied, ends the sweep.
SweepPush ==
  /\ sweep = "push"
  /\ \/ /\ queued' = Append(queued, sweepTask)
        /\ sweep' = "remove"
        /\ UNCHANGED <<sweepTask, sweepTodo, faults>>
     \/ /\ Fault
        /\ queued' \in {queued, Append(queued, sweepTask)}
        /\ sweep' = "up" /\ sweepTask' = None
        /\ sweepTodo' = [t \in Task |-> 0]
  /\ UNCHANGED <<rowVars, processing, vendorVars, enqueue, workerVars, loopVars,
                 pollVars, cancels, hookVars, crashes>>

Removed(t) == [processing EXCEPT ![t] = IF @ > 0 THEN @ - 1 ELSE 0]

\* LREM one occurrence of the id.
SweepRemove ==
  /\ sweep = "remove"
  /\ sweepTask' = None
  /\ \/ /\ processing' = Removed(sweepTask)
        /\ sweep' = "item"
        /\ UNCHANGED <<sweepTodo, faults>>
     \/ /\ Fault
        /\ processing' \in {processing, Removed(sweepTask)}
        /\ sweep' = "up"
        /\ sweepTodo' = [t \in Task |-> 0]
  /\ UNCHANGED <<rowVars, queued, vendorVars, enqueue, workerVars, loopVars,
                 pollVars, cancels, hookVars, crashes>>

\* The list is exhausted: the worker loops are spawned.
SweepDone ==
  /\ sweep = "item" /\ \A t \in Task : sweepTodo[t] = 0
  /\ sweep' = "up"
  /\ UNCHANGED <<rowVars, listVars, vendorVars, enqueue, sweepTodo, sweepTask,
                 workerVars, loopVars, pollVars, cancels, hookVars, crashes, faults>>

----------------------------------------------------------------------------
(* worker_loop and process_submit                                          *)

\* The loops are spawned when recovery_sweep has returned.
WorkersUp == sweep = "up"

\* BRPOPLPUSH; if its reply is lost the id has moved and nobody holds it.
Pop(w) ==
  /\ WorkersUp /\ wpc[w] = "idle" /\ queued # <<>>
  /\ queued' = Tail(queued)
  /\ processing' = [processing EXCEPT ![Head(queued)] = @ + 1]
  /\ \/ /\ wpc' = [wpc EXCEPT ![w] = "check"]
        /\ wtask' = [wtask EXCEPT ![w] = Head(queued)]
        /\ UNCHANGED faults
     \/ Fault /\ UNCHANGED <<wpc, wtask>>
  /\ UNCHANGED <<rowVars, vendorVars, enqueue, sweepVars, wjob, loopVars, pollVars,
                 cancels, hookVars, crashes>>

Goto(w, label) == wpc' = [wpc EXCEPT ![w] = label]

\* Load the row; only a Queued task is submitted.
Check(w) ==
  /\ wpc[w] = "check"
  /\ \/ /\ Goto(w, IF status[wtask[w]] = "Queued" THEN "submit" ELSE "ack")
        /\ UNCHANGED faults
     \/ Fault /\ Goto(w, "fail")
  /\ UNCHANGED <<rowVars, listVars, vendorVars, enqueue, sweepVars, wtask, wjob,
                 loopVars, pollVars, cancels, hookVars, crashes>>

\* resolve_route and adapter.submit.  The vendor creates a job, or refuses (as
\* when there is no enabled route or no adapter), or creates one whose id is
\* lost on the way back.
Submit(w) ==
  /\ wpc[w] = "submit"
  /\ \/ \E j \in Job :
          /\ upstream[j] = "unused"
          /\ upstream' = [upstream EXCEPT ![j] = "running"]
          /\ jobTask' = [jobTask EXCEPT ![j] = wtask[w]]
          /\ \/ /\ Goto(w, "commit")
                /\ wjob' = [wjob EXCEPT ![w] = j]
                /\ UNCHANGED faults
             \/ Fault /\ Goto(w, "fail") /\ UNCHANGED wjob
     \/ Goto(w, "fail") /\ UNCHANGED <<vendorVars, wjob, faults>>
  /\ UNCHANGED <<rowVars, listVars, enqueue, sweepVars, wtask, loopVars, pollVars,
                 cancels, hookVars, crashes>>

SetRunning(t, j) == /\ status' = [status EXCEPT ![t] = "Running"]
                    /\ vendorTaskId' = [vendorTaskId EXCEPT ![t] = j]

StillQueued(t) == status[t] = "Queued"

\* UPDATE ... WHERE status = Queued; no row means it was cancelled meanwhile and
\* the job in hand is cancelled upstream.  An error may or may not have applied.
Commit(w) ==
  /\ wpc[w] = "commit"
  /\ wjob' = [wjob EXCEPT ![w] = None]
  /\ LET t == wtask[w]
         mine == StillQueued(t)
     IN \/ /\ mine /\ SetRunning(t, wjob[w]) /\ Goto(w, "ack")
           /\ UNCHANGED <<cancels, faults>>
        \/ /\ ~mine /\ SpawnCancel(wjob[w]) /\ Goto(w, "ack")
           /\ UNCHANGED <<status, vendorTaskId, faults>>
        \/ /\ Fault /\ Goto(w, "fail") /\ UNCHANGED cancels
           /\ \/ mine /\ SetRunning(t, wjob[w])
              \/ UNCHANGED <<status, vendorTaskId>>
  /\ UNCHANGED <<pollCount, billed, artifacts, listVars, vendorVars, enqueue, sweepVars,
                 wtask, loopVars, pollVars, hookVars, crashes>>

\* The "failed" webhook is spawned only by the update that made the transition.
FailedHook(t, changed) == failHooks' = [failHooks EXCEPT ![t] = IF changed THEN @ + 1 ELSE @]

\* set_failed: Queued or Running becomes Failed and the webhook is spawned; when
\* it errors, before or after its update, the id stays in PROCESSING_KEY.
SetFailed(w) ==
  /\ wpc[w] = "fail"
  /\ LET t == wtask[w]
         failed == [status EXCEPT ![t] = IF @ \in Open THEN "Failed" ELSE @]
     IN \/ /\ status' = failed /\ Goto(w, "ack")
           /\ FailedHook(t, status[t] \in Open)
           /\ UNCHANGED <<wtask, faults>>
        \/ /\ Fault /\ status' \in {status, failed} /\ Goto(w, "idle")
           /\ wtask' = [wtask EXCEPT ![w] = None]
           /\ UNCHANGED failHooks
  /\ UNCHANGED <<vendorTaskId, pollCount, billed, artifacts, listVars, vendorVars, enqueue,
                 sweepVars, wjob, loopVars, pollVars, cancels, okHooks, crashes>>

\* LREM one occurrence; its failure is ignored.
Ack(w) ==
  /\ wpc[w] = "ack"
  /\ Goto(w, "idle")
  /\ wtask' = [wtask EXCEPT ![w] = None]
  /\ \/ processing' = Removed(wtask[w]) /\ UNCHANGED faults
     \/ Fault /\ UNCHANGED processing
  /\ UNCHANGED <<rowVars, queued, vendorVars, enqueue, sweepVars, wjob, loopVars, pollVars,
                 cancels, hookVars, crashes>>

----------------------------------------------------------------------------
(* poller_loop, process_poll and the two finalisers                        *)

Running == {t \in Task : status[t] = "Running"}

\* running_tasks: the first BatchLimit rows by id, copied.
PollerRead ==
  /\ batch = {}
  /\ batch' = {t \in Running : Cardinality({u \in Running : u < t}) < BatchLimit}
  /\ batchCount' = [t \in Task |-> IF t \in batch' THEN pollCount[t] ELSE 0]
  /\ UNCHANGED <<rowVars, listVars, vendorVars, enqueue, sweepVars, workerVars, pollVars,
                 cancels, hookVars, crashes, faults>>

InFlight(t) == t \in active

\* The next row of the list: skipped when the task is in flight, otherwise a
\* routine is spawned with the copied row.
PollerSpawn(t) ==
  /\ t \in batch /\ \A u \in batch : t <= u
  /\ batch' = batch \ {t}
  /\ batchCount' = [batchCount EXCEPT ![t] = 0]
  /\ \/ InFlight(t) /\ UNCHANGED pollVars
     \/ /\ ~InFlight(t)
        /\ active' = active \cup {t}
        /\ \E s \in Slot :
             /\ ppc[s] = "idle"
             /\ ppc' = [ppc EXCEPT ![s] = "poll"]
             /\ ptask' = [ptask EXCEPT ![s] = t]
             /\ pcount' = [pcount EXCEPT ![s] = batchCount[t]]
  /\ UNCHANGED <<rowVars, listVars, vendorVars, enqueue, sweepVars, workerVars, cancels,
                 hookVars, crashes, faults>>

Continue(s, label) == /\ ppc' = [ppc EXCEPT ![s] = label]
                      /\ UNCHANGED <<active, ptask, pcount>>

\* The routine returns and its Guard leaves the in-flight set.
Return(s) == /\ ppc' = [ppc EXCEPT ![s] = "idle"]
             /\ ptask' = [ptask EXCEPT ![s] = None]
             /\ pcount' = [pcount EXCEPT ![s] = 0]
             /\ active' = active \ {ptask[s]}

TimedOut(s) == pcount[s] + 1 >= PollMax

\* What process_poll does after its channel lookup and adapter.poll.
PollOutcome(s) ==
  LET id == vendorTaskId[ptask[s]]
      job == IF id = None THEN "missing" ELSE upstream[id]
  IN CASE job = "running" -> IF TimedOut(s) THEN "fail" ELSE "bump"
       [] job = "succeeded" -> "store"
       [] OTHER -> "fail"

\* The lookup and the vendor call; a deleted channel fails the task, an error
\* leaves it for the next tick.
Poll(s) ==
  /\ ppc[s] = "poll"
  /\ \/ \E label \in {PollOutcome(s), "fail"} : Continue(s, label) /\ UNCHANGED faults
     \/ Fault /\ Return(s)
  /\ UNCHANGED <<rowVars, listVars, vendorVars, enqueue, sweepVars, workerVars, loopVars,
                 cancels, hookVars, crashes>>

\* poll_count + 1 WHERE status = Running.
Counted(t) == [pollCount EXCEPT ![t] = IF status[t] = "Running" THEN @ + 1 ELSE @]

Bump(s) ==
  /\ ppc[s] = "bump"
  /\ \/ pollCount' = Counted(ptask[s]) /\ UNCHANGED faults
     \/ Fault /\ pollCount' \in {pollCount, Counted(ptask[s])}
  /\ Return(s)
  /\ UNCHANGED <<status, vendorTaskId, billed, artifacts, listVars, vendorVars, enqueue,
                 sweepVars, workerVars, loopVars, cancels, hookVars, crashes>>

Finished(t, final) == [status EXCEPT ![t] = IF @ = "Running" THEN final ELSE @]

\* finalize_failed.
FinalizeFailed(s) ==
  /\ ppc[s] = "fail"
  /\ LET t == ptask[s]
     IN \/ /\ status' = Finished(t, "Failed")
           /\ FailedHook(t, status[t] = "Running")
           /\ UNCHANGED faults
        \/ Fault /\ status' \in {status, Finished(t, "Failed")} /\ UNCHANGED failHooks
  /\ Return(s)
  /\ UNCHANGED <<vendorTaskId, pollCount, billed, artifacts, listVars, vendorVars, enqueue,
                 sweepVars, workerVars, loopVars, cancels, okHooks, crashes>>

\* store_artifact: nothing when the artifact's row is there.
Stored(t) == [artifacts EXCEPT ![t] = IF @ = 0 THEN 1 ELSE @]

\* finalize_succeeded, step 1: look the model and group up (an error returns),
\* then store the artifact (an error is only logged).
Store(s) ==
  /\ ppc[s] = "store"
  /\ \/ /\ artifacts' = Stored(ptask[s])
        /\ Continue(s, "lookup") /\ UNCHANGED faults
     \/ Fault /\ UNCHANGED artifacts /\ (Continue(s, "lookup") \/ Return(s))
  /\ UNCHANGED <<status, vendorTaskId, pollCount, billed, listVars, vendorVars, enqueue,
                 sweepVars, workerVars, loopVars, cancels, hookVars, crashes>>

AfterLookup(t) == IF billed[t] > 0 THEN "flip" ELSE "settle"

\* Step 2a: is there a usage_logs row with this request_id?
Lookup(s) ==
  /\ ppc[s] = "lookup"
  /\ \/ /\ Continue(s, AfterLookup(ptask[s]))
        /\ UNCHANGED faults
     \/ Fault /\ Return(s)
  /\ UNCHANGED <<rowVars, listVars, vendorVars, enqueue, sweepVars, workerVars, loopVars,
                 cancels, hookVars, crashes>>

\* Step 2b: settle_chat, one transaction; an error (its commit applied or not)
\* returns and leaves the task Running.
Settle(s) ==
  /\ ppc[s] = "settle"
  /\ LET charged == [billed EXCEPT ![ptask[s]] = @ + 1]
     IN \/ billed' = charged /\ Continue(s, "flip") /\ UNCHANGED faults
        \/ Fault /\ billed' \in {billed, charged} /\ Return(s)
  /\ UNCHANGED <<status, vendorTaskId, pollCount, artifacts, listVars, vendorVars, enqueue,
                 sweepVars, workerVars, loopVars, cancels, hookVars, crashes>>

\* Step 3: Running becomes Succeeded; the webhook goes out however many rows
\* the update changed.
Flip(s) ==
  /\ ppc[s] = "flip"
  /\ LET t == ptask[s]
     IN \/ /\ status' = Finished(t, "Succeeded")
           /\ okHooks' = [okHooks EXCEPT ![t] = @ + 1]
           /\ UNCHANGED faults
        \/ Fault /\ status' \in {status, Finished(t, "Succeeded")} /\ UNCHANGED okHooks
  /\ Return(s)
  /\ UNCHANGED <<vendorTaskId, pollCount, billed, artifacts, listVars, vendorVars, enqueue,
                 sweepVars, workerVars, loopVars, cancels, failHooks, crashes>>

----------------------------------------------------------------------------
\* The process dies and is started again: spawn_task_runtime begins with the
\* sweep, and the poller at once.
Crash ==
  /\ crashes < MaxCrashes
  /\ crashes' = crashes + 1
  /\ enqueue' = [t \in Task |-> IF enqueue[t] = "pending" THEN "lost" ELSE enqueue[t]]
  /\ sweep' = "read" /\ sweepTodo' = [t \in Task |-> 0] /\ sweepTask' = None
  /\ wpc' = [w \in Worker |-> "idle"]
  /\ wtask' = [w \in Worker |-> None]
  /\ wjob' = [w \in Worker |-> None]
  /\ batch' = {} /\ batchCount' = [t \in Task |-> 0]
  /\ active' = {}
  /\ ppc' = [s \in Slot |-> "idle"]
  /\ ptask' = [s \in Slot |-> None]
  /\ pcount' = [s \in Slot |-> 0]
  /\ cancels' = {}
  /\ UNCHANGED <<rowVars, listVars, vendorVars, hookVars, faults>>

HandlerStep(t) == Insert(t) \/ Enqueue(t) \/ Cancel(t)
VendorStep(j) == UpstreamCancel(j) \/ VendorFinish(j)
SweepStep == \/ SweepRead \/ SweepPush \/ SweepRemove \/ SweepDone
             \/ \E t \in Task : SweepItem(t)
WorkerStep(w) == Pop(w) \/ Check(w) \/ Submit(w) \/ Commit(w) \/ SetFailed(w) \/ Ack(w)
PollerStep == PollerRead \/ \E t \in Task : PollerSpawn(t)
PollStep(s) == \/ Poll(s) \/ Bump(s) \/ FinalizeFailed(s)
               \/ Store(s) \/ Lookup(s) \/ Settle(s) \/ Flip(s)

Next == \/ \E t \in Task : HandlerStep(t)
        \/ \E j \in Job : VendorStep(j)
        \/ SweepStep
        \/ \E w \in Worker : WorkerStep(w)
        \/ PollerStep
        \/ \E s \in Slot : PollStep(s)
        \/ Crash

Spec == Init /\ [][Next]_vars

(* Tokio schedules every routine that can run.  Nothing is assumed of the  *)
(* clients, of the vendor finishing a job, or of crashes.                  *)
Fairness == /\ \A t \in Task : WF_vars(Enqueue(t))
            /\ WF_vars(SweepStep)
            /\ \A w \in Worker : WF_vars(WorkerStep(w))
            /\ WF_vars(PollerStep)
            /\ \A s \in Slot : WF_vars(PollStep(s))

FairSpec == Spec /\ Fairness

----------------------------------------------------------------------------
(* Types                                                                   *)

EnqueuePc == {"none", "pending", "done", "lost"}
SweepPc == {"read", "item", "push", "remove", "up"}
WorkerPc == {"idle", "check", "submit", "commit", "fail", "ack"}
PollPc == {"idle", "poll", "bump", "fail", "store", "lookup", "settle", "flip"}

RowTypes == /\ status \in [Task -> Status]
            /\ vendorTaskId \in [Task -> Job \cup {None}]
            /\ pollCount \in [Task -> Nat]
            /\ billed \in [Task -> Nat]
            /\ artifacts \in [Task -> Nat]

ListTypes == queued \in Seq(Task) /\ processing \in [Task -> Nat]

VendorTypes ==
  /\ upstream \in [Job -> {"unused", "running", "succeeded", "failed", "cancelled"}]
  /\ jobTask \in [Job -> Task \cup {None}]
  /\ cancels \subseteq Job

SweepTypes == /\ sweep \in SweepPc
              /\ sweepTodo \in [Task -> Nat]
              /\ sweepTask \in Task \cup {None}
              /\ sweep \in {"push", "remove"} => sweepTask \in Task

WorkerTypes == /\ wpc \in [Worker -> WorkerPc]
               /\ wtask \in [Worker -> Task \cup {None}]
               /\ wjob \in [Worker -> Job \cup {None}]
               /\ \A w \in Worker : /\ wpc[w] # "idle" => wtask[w] \in Task
                                    /\ wpc[w] = "commit" => wjob[w] \in Job

PollTypes == /\ batch \subseteq Task
             /\ batchCount \in [Task -> Nat]
             /\ active \subseteq Task
             /\ ppc \in [Slot -> PollPc]
             /\ ptask \in [Slot -> Task \cup {None}]
             /\ pcount \in [Slot -> Nat]
             /\ \A s \in Slot : ppc[s] # "idle" => ptask[s] \in Task

HistoryTypes == /\ enqueue \in [Task -> EnqueuePc]
                /\ okHooks \in [Task -> Nat]
                /\ failHooks \in [Task -> Nat]
                /\ crashes \in Nat /\ faults \in Nat

\* Every row, list, position and counter holds a value the program could hold,
\* and an actor past its first step holds the task (and the job) it works on.
TypeOK == /\ RowTypes /\ ListTypes /\ VendorTypes /\ SweepTypes
          /\ WorkerTypes /\ PollTypes /\ HistoryTypes

----------------------------------------------------------------------------
(* Safety                                                                  *)

\* A task whose id reached the queue is never lost while it is Queued: its id
\* is in QUEUE_KEY or PROCESSING_KEY whatever crashes, which is what worker_loop
\* keeps an unsettled id in PROCESSING_KEY for (worker.rs:101-103).
NoLostTask ==
  \A t \in Task : status[t] = "Queued" /\ enqueue[t] = "done"
                  => InQueue(t) \/ processing[t] > 0

\* A task is charged at most once, over retries, stale batches and restarts
\* (worker.rs:246 and 366: the in-flight set, the request_id lookup).
BilledAtMostOnce == \A t \in Task : billed[t] <= 1

\* A Succeeded task was charged (worker.rs:367), and a charged task was
\* submitted to the vendor: no path charges for work that was never started.
SucceededIsBilled ==
  \A t \in Task : /\ status[t] = "Succeeded" => billed[t] = 1
                  /\ billed[t] > 0 => vendorTaskId[t] # None

\* No two poll routines ever work on the same task (worker.rs:245-246).
SingleFlight ==
  \A s1, s2 \in Slot : ptask[s1] = ptask[s2] /\ ppc[s1] # "idle" => s1 = s2 \/ ppc[s2] = "idle"

\* What webhooks tell a client: "failed" at most once and only of a task that
\* stays Failed; "succeeded" only of a charged task, and at most twice, the
\* second time from a row copied before the first routine returned.
WebhooksAgree ==
  \A t \in Task : /\ failHooks[t] <= 1
                  /\ failHooks[t] > 0 => status[t] = "Failed"
                  /\ okHooks[t] <= 2
                  /\ okHooks[t] > 0 => billed[t] = 1 /\ status[t] \in Final

\* The time-out counts every completed poll: poll_count never passes POLL_MAX,
\* even from copied rows that are one poll behind.
PollBudget == \A t \in Task : pollCount[t] <= PollMax

\* Cancelling does not leak the vendor's job (api.rs:188, worker.rs:208): while
\* nothing crashed or failed, a job made for a Cancelled task is over, about to
\* be cancelled, or in the hands of the worker that will notice.
CancelReachesVendor ==
  crashes + faults = 0 =>
    \A j \in Job : jobTask[j] # None /\ upstream[j] = "running"
                    /\ status[jobTask[j]] = "Cancelled"
                  => j \in cancels \/ \E w \in Worker : wjob[w] = j

\* Without a restart a task is submitted upstream once: running the sweep before
\* the workers keeps an id from being consumed twice (worker.rs:32-33).
SubmittedOnce ==
  crashes = 0 => \A i, j \in Job : jobTask[i] = jobTask[j] /\ jobTask[i] # None => i = j

(* Action properties                                                       *)

\* A final status is final: every update of tasks.status is conditional, so no
\* late answer, stale row or cancel overwrites it; nor does the vendor id move.
FinalIsFinal ==
  [][\A t \in Task : /\ status[t] \in Final => status'[t] = status[t]
                     /\ vendorTaskId[t] # None => vendorTaskId'[t] = vendorTaskId[t]]_vars

\* The runtime implements the life cycle /v1/tasks promises.
Lifecycle == INSTANCE TaskLifecycle
LifecycleSpec == Lifecycle!Spec

(* Liveness                                                                *)

\* Once its id was queued a task reaches a final status: across restarts, and
\* even when the vendor never finishes, as the poller gives up at POLL_MAX.
QueuedTaskEnds == \A t \in Task : enqueue[t] = "done" ~> status[t] \in Final

(* What the code's comments say and the code does not do                   *)

\* api.rs:230 and 244: a task whose enqueue failed stays Queued in the database
\* and the start-up sweep, when nothing more fails, queues it again.
SweepRequeues ==
  \A t \in Task : /\ status[t] = "Queued" /\ enqueue[t] = "lost"
                  /\ sweep = "read" /\ faults = MaxFaults
                  ~> InQueue(t) \/ processing[t] > 0 \/ status[t] # "Queued"

============================================================================
