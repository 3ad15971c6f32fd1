------------------------- MODULE TaskRuntimeProofs -------------------------
(* What holds of TaskRuntime for every set of tasks, workers, routines and  *)
(* vendor jobs, and for every number of crashes and faults.                 *)
EXTENDS TaskRuntime, TLAPS

\* Named conditions of the actions: always in view.
USE DEF SpawnCancel, Verdict, WorkersUp, StillQueued, FailedHook, InFlight, TimedOut, Counted, Stored,
        AfterLookup

(***************************************************************************)
(* Type correctness, one lemma per part of TypeOK.  A lemma goes through   *)
(* the actors; those that leave the part alone need nothing but UNCHANGED. *)
(***************************************************************************)

LEMMA RowTypesNext ==
  ASSUME TypeOK, [Next]_vars
  PROVE  RowTypes'
<1> RowTypes /\ WorkerTypes
  BY DEF TypeOK
<1> USE RuntimeAssumption DEF RowTypes, WorkerTypes, Status, Open, Final, rowVars, listVars, vendorVars, sweepVars, workerVars,
         loopVars, pollVars, hookVars
<1>1. ASSUME NEW t \in Task, HandlerStep(t) PROVE RowTypes'
  BY <1>1 DEF HandlerStep, Insert, Enqueue, Cancel, Fault
<1>2. ASSUME NEW j \in Job, VendorStep(j) PROVE RowTypes'
  BY <1>2 DEF VendorStep, UpstreamCancel, VendorFinish, Fault
<1>3. ASSUME SweepStep PROVE RowTypes'
  BY <1>3 DEF SweepStep, SweepRead, SweepItem, SweepPush, SweepRemove, SweepDone,
         Removed, Fault
<1>4. ASSUME NEW w \in Worker, WorkerStep(w) PROVE RowTypes'
  BY <1>4 DEF WorkerStep, Pop, Check, Submit, Commit, SetFailed, Ack, Goto, SetRunning,
         Removed, Fault
<1>5. ASSUME PollerStep PROVE RowTypes'
  BY <1>5 DEF PollerStep, PollerRead, PollerSpawn, Running
<1>6. ASSUME NEW s \in Slot, PollStep(s) PROVE RowTypes'
  BY <1>6 DEF PollStep, Poll, Bump, FinalizeFailed, Store, Lookup, Settle, Flip,
         Continue, Return, PollOutcome, Finished, Fault
<1>7. ASSUME Crash PROVE RowTypes'
  BY <1>7 DEF Crash
<1>8. CASE UNCHANGED vars
  BY <1>8 DEF vars
<1>9. QED
  BY <1>1, <1>2, <1>3, <1>4, <1>5, <1>6, <1>7, <1>8 DEF Next

LEMMA ListTypesNext ==
  ASSUME TypeOK, [Next]_vars
  PROVE  ListTypes'
<1> ListTypes /\ SweepTypes
  BY DEF TypeOK
<1> USE RuntimeAssumption DEF ListTypes, SweepTypes, rowVars, listVars, vendorVars, sweepVars, workerVars,
         loopVars, pollVars, hookVars
<1>1. ASSUME NEW t \in Task, HandlerStep(t) PROVE ListTypes'
  BY <1>1 DEF HandlerStep, Insert, Enqueue, Cancel, Fault
<1>2. ASSUME NEW j \in Job, VendorStep(j) PROVE ListTypes'
  BY <1>2 DEF VendorStep, UpstreamCancel, VendorFinish, Fault
<1>3. ASSUME SweepStep PROVE ListTypes'
  <2>1. CASE SweepPush
    <3>1. sweepTask \in Task
      BY <2>1 DEF SweepPush
    <3>2. Append(queued, sweepTask) \in Seq(Task)
      BY <3>1
    <3>3. QED
      BY <2>1, <3>2 DEF SweepPush
  <2>2. CASE SweepRemove
    BY <2>2 DEF SweepRemove, Removed
  <2>3. CASE SweepRead \/ SweepDone \/ \E t \in Task : SweepItem(t)
    BY <2>3 DEF SweepRead, SweepDone, SweepItem
  <2>4. QED
    BY <1>3, <2>1, <2>2, <2>3 DEF SweepStep
<1>4. ASSUME NEW w \in Worker, WorkerStep(w) PROVE ListTypes'
  BY <1>4 DEF WorkerStep, Pop, Check, Submit, Commit, SetFailed, Ack, Goto, SetRunning,
         Removed, Fault
<1>5. ASSUME PollerStep PROVE ListTypes'
  BY <1>5 DEF PollerStep, PollerRead, PollerSpawn, Running
<1>6. ASSUME NEW s \in Slot, PollStep(s) PROVE ListTypes'
  BY <1>6 DEF PollStep, Poll, Bump, FinalizeFailed, Store, Lookup, Settle, Flip,
         Continue, Return, PollOutcome, Finished, Fault
<1>7. ASSUME Crash PROVE ListTypes'
  BY <1>7 DEF Crash
<1>8. CASE UNCHANGED vars
  BY <1>8 DEF vars
<1>9. QED
  BY <1>1, <1>2, <1>3, <1>4, <1>5, <1>6, <1>7, <1>8 DEF Next

LEMMA VendorTypesNext ==
  ASSUME TypeOK, [Next]_vars
  PROVE  VendorTypes'
<1> VendorTypes /\ WorkerTypes /\ RowTypes
  BY DEF TypeOK
<1> USE RuntimeAssumption DEF VendorTypes, WorkerTypes, RowTypes, rowVars, listVars, vendorVars, sweepVars, workerVars,
         loopVars, pollVars, hookVars
<1>1. ASSUME NEW t \in Task, HandlerStep(t) PROVE VendorTypes'
  BY <1>1 DEF HandlerStep, Insert, Enqueue, Cancel, Fault
<1>2. ASSUME NEW j \in Job, VendorStep(j) PROVE VendorTypes'
  BY <1>2 DEF VendorStep, UpstreamCancel, VendorFinish, Fault
<1>3. ASSUME SweepStep PROVE VendorTypes'
  BY <1>3 DEF SweepStep, SweepRead, SweepItem, SweepPush, SweepRemove, SweepDone,
         Removed, Fault
<1>4. ASSUME NEW w \in Worker, WorkerStep(w) PROVE VendorTypes'
  BY <1>4 DEF WorkerStep, Pop, Check, Submit, Commit, SetFailed, Ack, Goto, SetRunning,
         Removed, Fault
<1>5. ASSUME PollerStep PROVE VendorTypes'
  BY <1>5 DEF PollerStep, PollerRead, PollerSpawn, Running
<1>6. ASSUME NEW s \in Slot, PollStep(s) PROVE VendorTypes'
  BY <1>6 DEF PollStep, Poll, Bump, FinalizeFailed, Store, Lookup, Settle, Flip,
         Continue, Return, PollOutcome, Finished, Fault
<1>7. ASSUME Crash PROVE VendorTypes'
  BY <1>7 DEF Crash
<1>8. CASE UNCHANGED vars
  BY <1>8 DEF vars
<1>9. QED
  BY <1>1, <1>2, <1>3, <1>4, <1>5, <1>6, <1>7, <1>8 DEF Next

LEMMA SweepTypesNext ==
  ASSUME TypeOK, [Next]_vars
  PROVE  SweepTypes'
<1> SweepTypes /\ ListTypes
  BY DEF TypeOK
<1> USE RuntimeAssumption DEF SweepTypes, ListTypes, SweepPc, rowVars, listVars, vendorVars, sweepVars, workerVars,
         loopVars, pollVars, hookVars
<1>1. ASSUME NEW t \in Task, HandlerStep(t) PROVE SweepTypes'
  BY <1>1 DEF HandlerStep, Insert, Enqueue, Cancel, Fault
<1>2. ASSUME NEW j \in Job, VendorStep(j) PROVE SweepTypes'
  BY <1>2 DEF VendorStep, UpstreamCancel, VendorFinish, Fault
<1>3. ASSUME SweepStep PROVE SweepTypes'
  BY <1>3 DEF SweepStep, SweepRead, SweepItem, SweepPush, SweepRemove, SweepDone,
         Removed, Fault
<1>4. ASSUME NEW w \in Worker, WorkerStep(w) PROVE SweepTypes'
  BY <1>4 DEF WorkerStep, Pop, Check, Submit, Commit, SetFailed, Ack, Goto, SetRunning,
         Removed, Fault
<1>5. ASSUME PollerStep PROVE SweepTypes'
  BY <1>5 DEF PollerStep, PollerRead, PollerSpawn, Running
<1>6. ASSUME NEW s \in Slot, PollStep(s) PROVE SweepTypes'
  BY <1>6 DEF PollStep, Poll, Bump, FinalizeFailed, Store, Lookup, Settle, Flip,
         Continue, Return, PollOutcome, Finished, Fault
<1>7. ASSUME Crash PROVE SweepTypes'
  BY <1>7 DEF Crash
<1>8. CASE UNCHANGED vars
  BY <1>8 DEF vars
<1>9. QED
  BY <1>1, <1>2, <1>3, <1>4, <1>5, <1>6, <1>7, <1>8 DEF Next

LEMMA WorkerTypesNext ==
  ASSUME TypeOK, [Next]_vars
  PROVE  WorkerTypes'
<1> WorkerTypes /\ ListTypes
  BY DEF TypeOK
<1> USE RuntimeAssumption DEF WorkerTypes, ListTypes, WorkerPc, rowVars, listVars, vendorVars, sweepVars, workerVars,
         loopVars, pollVars, hookVars
<1>1. ASSUME NEW t \in Task, HandlerStep(t) PROVE WorkerTypes'
  BY <1>1 DEF HandlerStep, Insert, Enqueue, Cancel, Fault
<1>2. ASSUME NEW j \in Job, VendorStep(j) PROVE WorkerTypes'
  BY <1>2 DEF VendorStep, UpstreamCancel, VendorFinish, Fault
<1>3. ASSUME SweepStep PROVE WorkerTypes'
  BY <1>3 DEF SweepStep, SweepRead, SweepItem, SweepPush, SweepRemove, SweepDone,
         Removed, Fault
<1>4. ASSUME NEW w \in Worker, WorkerStep(w) PROVE WorkerTypes'
  BY <1>4 DEF WorkerStep, Pop, Check, Submit, Commit, SetFailed, Ack, Goto, SetRunning,
         Removed, Fault
<1>5. ASSUME PollerStep PROVE WorkerTypes'
  BY <1>5 DEF PollerStep, PollerRead, PollerSpawn, Running
<1>6. ASSUME NEW s \in Slot, PollStep(s) PROVE WorkerTypes'
  BY <1>6 DEF PollStep, Poll, Bump, FinalizeFailed, Store, Lookup, Settle, Flip,
         Continue, Return, PollOutcome, Finished, Fault
<1>7. ASSUME Crash PROVE WorkerTypes'
  BY <1>7 DEF Crash
<1>8. CASE UNCHANGED vars
  BY <1>8 DEF vars
<1>9. QED
  BY <1>1, <1>2, <1>3, <1>4, <1>5, <1>6, <1>7, <1>8 DEF Next

LEMMA PollTypesNext ==
  ASSUME TypeOK, [Next]_vars
  PROVE  PollTypes'
<1> PollTypes /\ RowTypes
  BY DEF TypeOK
<1> USE RuntimeAssumption DEF PollTypes, RowTypes, PollPc, rowVars, listVars, vendorVars, sweepVars, workerVars,
         loopVars, pollVars, hookVars
<1>1. ASSUME NEW t \in Task, HandlerStep(t) PROVE PollTypes'
  BY <1>1 DEF HandlerStep, Insert, Enqueue, Cancel, Fault
<1>2. ASSUME NEW j \in Job, VendorStep(j) PROVE PollTypes'
  BY <1>2 DEF VendorStep, UpstreamCancel, VendorFinish, Fault
<1>3. ASSUME SweepStep PROVE PollTypes'
  BY <1>3 DEF SweepStep, SweepRead, SweepItem, SweepPush, SweepRemove, SweepDone,
         Removed, Fault
<1>4. ASSUME NEW w \in Worker, WorkerStep(w) PROVE PollTypes'
  BY <1>4 DEF WorkerStep, Pop, Check, Submit, Commit, SetFailed, Ack, Goto, SetRunning,
         Removed, Fault
<1>5. ASSUME PollerStep PROVE PollTypes'
  <2>1. CASE PollerRead
    BY <2>1 DEF PollerRead, Running
  <2>2. ASSUME NEW t \in Task, PollerSpawn(t) PROVE PollTypes'
    <3>1. CASE t \in active
      BY <2>2, <3>1 DEF PollerSpawn
    <3>2. CASE t \notin active
      BY <2>2, <3>2 DEF PollerSpawn
    <3>3. QED
      BY <3>1, <3>2
  <2>3. QED
    BY <1>5, <2>1, <2>2 DEF PollerStep
<1>6. ASSUME NEW s \in Slot, PollStep(s) PROVE PollTypes'
  BY <1>6 DEF PollStep, Poll, Bump, FinalizeFailed, Store, Lookup, Settle, Flip,
         Continue, Return, PollOutcome, Finished, Fault
<1>7. ASSUME Crash PROVE PollTypes'
  BY <1>7 DEF Crash
<1>8. CASE UNCHANGED vars
  BY <1>8 DEF vars
<1>9. QED
  BY <1>1, <1>2, <1>3, <1>4, <1>5, <1>6, <1>7, <1>8 DEF Next

LEMMA HistoryTypesNext ==
  ASSUME TypeOK, [Next]_vars
  PROVE  HistoryTypes'
<1> HistoryTypes
  BY DEF TypeOK
<1> USE RuntimeAssumption DEF HistoryTypes, EnqueuePc, rowVars, listVars, vendorVars, sweepVars, workerVars,
         loopVars, pollVars, hookVars
<1>1. ASSUME NEW t \in Task, HandlerStep(t) PROVE HistoryTypes'
  BY <1>1 DEF HandlerStep, Insert, Enqueue, Cancel, Fault
<1>2. ASSUME NEW j \in Job, VendorStep(j) PROVE HistoryTypes'
  BY <1>2 DEF VendorStep, UpstreamCancel, VendorFinish, Fault
<1>3. ASSUME SweepStep PROVE HistoryTypes'
  BY <1>3 DEF SweepStep, SweepRead, SweepItem, SweepPush, SweepRemove, SweepDone,
         Removed, Fault
<1>4. ASSUME NEW w \in Worker, WorkerStep(w) PROVE HistoryTypes'
  BY <1>4 DEF WorkerStep, Pop, Check, Submit, Commit, SetFailed, Ack, Goto, SetRunning,
         Removed, Fault
<1>5. ASSUME PollerStep PROVE HistoryTypes'
  BY <1>5 DEF PollerStep, PollerRead, PollerSpawn, Running
<1>6. ASSUME NEW s \in Slot, PollStep(s) PROVE HistoryTypes'
  BY <1>6 DEF PollStep, Poll, Bump, FinalizeFailed, Store, Lookup, Settle, Flip,
         Continue, Return, PollOutcome, Finished, Fault
<1>7. ASSUME Crash PROVE HistoryTypes'
  BY <1>7 DEF Crash
<1>8. CASE UNCHANGED vars
  BY <1>8 DEF vars
<1>9. QED
  BY <1>1, <1>2, <1>3, <1>4, <1>5, <1>6, <1>7, <1>8 DEF Next

LEMMA TypeInit == Init => TypeOK
  BY RuntimeAssumption
  DEF Init, TypeOK, RowTypes, ListTypes, VendorTypes, SweepTypes, WorkerTypes, PollTypes,
      HistoryTypes, Status, Open, Final, EnqueuePc, SweepPc, WorkerPc, PollPc

LEMMA TypeNext == TypeOK /\ [Next]_vars => TypeOK'
  BY RowTypesNext, ListTypesNext, VendorTypesNext, SweepTypesNext, WorkerTypesNext,
     PollTypesNext, HistoryTypesNext
  DEF TypeOK

\* Rows, lists, positions and counters keep their types, and an actor past its
\* first step always has the task (and the vendor job) it works on in hand.
THEOREM TypeCorrect == Spec => []TypeOK
  BY TypeInit, TypeNext, PTL DEF Spec

(***************************************************************************)
(* Delivery: no task whose id was queued is lost.                          *)
(***************************************************************************)

\* NoLostTask is not inductive on its own: LREM must only ever drop an id that
\* has been queued again or is no longer Queued, which takes knowing what a
\* worker and the sweep have established before they remove, that the workers
\* are idle while the sweep runs, and that every id in a list has its row.

\* Every id in a list, in the sweep's copy or handed to the queue has its row.
EveryIdHasRow ==
  \A t \in Task : /\ InQueue(t) \/ processing[t] > 0 \/ sweepTodo[t] > 0 => status[t] # "Absent"
                  /\ enqueue[t] # "none" => status[t] # "Absent"

\* The sweep drops a Queued id only after queueing it again.
SweepKnows ==
  /\ sweep \in {"push", "remove"} => status[sweepTask] # "Absent"
  /\ sweep = "remove" /\ status[sweepTask] = "Queued" => InQueue(sweepTask)

\* Workers wait for the sweep, and drop only ids of tasks that left Queued.
WorkersKnow ==
  \A w \in Worker : /\ sweep # "up" => wpc[w] = "idle"
                    /\ wpc[w] # "idle" => status[wtask[w]] # "Absent"
                    /\ wpc[w] = "ack" => status[wtask[w]] # "Queued"

DeliveryInv == NoLostTask /\ EveryIdHasRow /\ SweepKnows /\ WorkersKnow

\* How one step may move a status: rows are never deleted, only Insert makes a
\* task Queued, and it leaves the submit handler before its LPUSH.
StatusMoves ==
  \A t \in Task : /\ status[t] # "Absent" => status'[t] # "Absent"
                  /\ status'[t] = "Queued" => \/ status[t] = "Queued"
                                              \/ status[t] = "Absent" /\ enqueue'[t] = "pending"

LEMMA QueueAppend ==
  ASSUME queued \in Seq(Task), NEW t \in Task, queued' = Append(queued, t)
  PROVE  \A u : InQueue(u)' <=> u = t \/ InQueue(u)
  BY DEF InQueue

LEMMA QueueTail ==
  ASSUME queued \in Seq(Task), queued # <<>>, queued' = Tail(queued)
  PROVE  /\ Head(queued) \in Task
         /\ InQueue(Head(queued))
         /\ \A u : InQueue(u)' => InQueue(u)
         /\ \A u : InQueue(u) => u = Head(queued) \/ InQueue(u)'
  BY DEF InQueue

LEMMA StatusMovesNext ==
  ASSUME TypeOK, Next
  PROVE  StatusMoves
<1> RowTypes /\ WorkerTypes /\ HistoryTypes
  BY DEF TypeOK
<1> USE DEF RowTypes, WorkerTypes, HistoryTypes, Status, Open, Final, StatusMoves, rowVars, listVars, vendorVars, sweepVars, workerVars, loopVars, pollVars, hookVars
<1>1. ASSUME NEW t \in Task, HandlerStep(t) PROVE StatusMoves
  BY <1>1 DEF HandlerStep, Insert, Enqueue, Cancel
<1>2. ASSUME NEW j \in Job, VendorStep(j) PROVE StatusMoves
  BY <1>2 DEF VendorStep, UpstreamCancel, VendorFinish
<1>3. ASSUME SweepStep PROVE StatusMoves
  BY <1>3 DEF SweepStep, SweepRead, SweepItem, SweepPush, SweepRemove, SweepDone
<1>4. ASSUME NEW w \in Worker, WorkerStep(w) PROVE StatusMoves
  BY <1>4 DEF WorkerStep, Pop, Check, Submit, Commit, SetFailed, Ack, SetRunning
<1>5. ASSUME PollerStep PROVE StatusMoves
  BY <1>5 DEF PollerStep, PollerRead, PollerSpawn
<1>6. ASSUME NEW s \in Slot, PollStep(s) PROVE StatusMoves
  BY <1>6 DEF PollStep, Poll, Bump, FinalizeFailed, Store, Lookup, Settle, Flip, Finished
<1>7. ASSUME Crash PROVE StatusMoves
  BY <1>7 DEF Crash
<1>8. QED
  BY <1>1, <1>2, <1>3, <1>4, <1>5, <1>6, <1>7 DEF Next

\* A step that leaves the lists, the sweep, the workers and the submit handlers
\* alone preserves DeliveryInv whatever it does to statuses.
LEMMA DeliveryQuiet ==
  ASSUME TypeOK, DeliveryInv, StatusMoves, UNCHANGED <<listVars, sweepVars, workerVars, enqueue>>
  PROVE  DeliveryInv'
<1> SweepTypes /\ WorkerTypes
  BY DEF TypeOK
<1>1. \A u : InQueue(u)' <=> InQueue(u)
  BY DEF InQueue, listVars
<1>2. NoLostTask'
  BY <1>1 DEF DeliveryInv, EveryIdHasRow, SweepKnows, WorkersKnow, NoLostTask, StatusMoves, listVars
<1>3. QED
  BY <1>1, <1>2 DEF DeliveryInv, EveryIdHasRow, SweepKnows, WorkersKnow, StatusMoves, SweepTypes, WorkerTypes, listVars, sweepVars, workerVars

LEMMA DeliveryInsert ==
  ASSUME TypeOK, DeliveryInv, StatusMoves, NEW t \in Task, Insert(t)
  PROVE  DeliveryInv'
<1> RowTypes /\ SweepTypes /\ WorkerTypes /\ HistoryTypes
  BY DEF TypeOK
<1>1. UNCHANGED <<listVars, sweepVars, workerVars>>
  BY DEF Insert
<1>2. /\ status' = [status EXCEPT ![t] = "Queued"]
      /\ enqueue' = [enqueue EXCEPT ![t] = "pending"]
      /\ status[t] = "Absent"
  BY DEF Insert
<1>3. \A u : InQueue(u)' <=> InQueue(u)
  BY <1>1 DEF InQueue, listVars
<1>4. NoLostTask'
  BY <1>1, <1>2, <1>3 DEF DeliveryInv, EveryIdHasRow, SweepKnows, WorkersKnow, NoLostTask, RowTypes, HistoryTypes, listVars
<1>5. QED
  BY <1>1, <1>2, <1>3, <1>4
  DEF DeliveryInv, EveryIdHasRow, SweepKnows, WorkersKnow, StatusMoves, RowTypes, SweepTypes, WorkerTypes, HistoryTypes, listVars, sweepVars, workerVars

LEMMA DeliveryEnqueue ==
  ASSUME TypeOK, DeliveryInv, NEW t \in Task, Enqueue(t)
  PROVE  DeliveryInv'
<1> ListTypes /\ HistoryTypes
  BY DEF TypeOK
<1>1. UNCHANGED <<status, processing, sweepVars, workerVars>> /\ enqueue[t] = "pending"
  BY DEF Enqueue, rowVars
<1>2. CASE queued' = Append(queued, t) /\ enqueue' = [enqueue EXCEPT ![t] = "done"]
  <2>1. \A u : InQueue(u)' <=> u = t \/ InQueue(u)
    BY <1>2, QueueAppend DEF ListTypes
  <2>2. NoLostTask'
    BY <1>1, <1>2, <2>1 DEF DeliveryInv, EveryIdHasRow, SweepKnows, WorkersKnow, NoLostTask, HistoryTypes
  <2>3. QED
    BY <1>1, <1>2, <2>1, <2>2 DEF DeliveryInv, EveryIdHasRow, SweepKnows, WorkersKnow, HistoryTypes, sweepVars, workerVars
<1>3. CASE UNCHANGED queued /\ enqueue' = [enqueue EXCEPT ![t] = "lost"]
  <2>1. \A u : InQueue(u)' <=> InQueue(u)
    BY <1>3 DEF InQueue
  <2>2. NoLostTask'
    BY <1>1, <1>3, <2>1 DEF DeliveryInv, EveryIdHasRow, SweepKnows, WorkersKnow, NoLostTask, HistoryTypes
  <2>3. QED
    BY <1>1, <1>3, <2>1, <2>2 DEF DeliveryInv, EveryIdHasRow, SweepKnows, WorkersKnow, HistoryTypes, sweepVars, workerVars
<1>4. QED
  BY <1>2, <1>3 DEF Enqueue

LEMMA DeliverySweep ==
  ASSUME TypeOK, TypeOK', DeliveryInv, SweepStep
  PROVE  DeliveryInv'
<1> ListTypes /\ SweepTypes /\ ListTypes' /\ SweepTypes'
  BY DEF TypeOK
<1>1. UNCHANGED <<status, enqueue, workerVars>>
  BY DEF SweepStep, SweepRead, SweepItem, SweepPush, SweepRemove, SweepDone, rowVars
<1>2. CASE SweepRead \/ SweepDone
  <2>1. UNCHANGED listVars /\ sweep' \in {"item", "up"} /\ sweepTodo' \in {processing, sweepTodo}
    BY <1>2 DEF SweepRead, SweepDone
  <2>2. \A u : InQueue(u)' <=> InQueue(u)
    BY <2>1 DEF InQueue, listVars
  <2>3. NoLostTask'
    BY <1>1, <2>1, <2>2 DEF DeliveryInv, EveryIdHasRow, SweepKnows, WorkersKnow, NoLostTask, listVars
  <2>4. \A w \in Worker : sweep' # "up" => wpc[w] = "idle"
    BY <1>2 DEF SweepRead, SweepDone, DeliveryInv, EveryIdHasRow, SweepKnows, WorkersKnow
  <2>5. QED
    BY <1>1, <2>1, <2>2, <2>3, <2>4 DEF DeliveryInv, EveryIdHasRow, SweepKnows, WorkersKnow, listVars, workerVars
<1>3. ASSUME NEW t \in Task, SweepItem(t) PROVE DeliveryInv'
  <2>1. UNCHANGED listVars /\ sweep = "item" /\ sweepTodo[t] > 0
        /\ sweepTodo' = [sweepTodo EXCEPT ![t] = @ - 1]
    BY <1>3 DEF SweepItem
  <2>2. \/ UNCHANGED <<sweep, sweepTask>>
        \/ sweepTask' = t /\ sweep' = IF status[t] = "Queued" THEN "push" ELSE "remove"
    BY <1>3 DEF SweepItem
  <2>3. \A u : InQueue(u)' <=> InQueue(u)
    BY <2>1 DEF InQueue, listVars
  <2>4. NoLostTask'
    BY <1>1, <2>1, <2>3 DEF DeliveryInv, EveryIdHasRow, SweepKnows, WorkersKnow, NoLostTask, listVars
  <2>5. \A u \in Task : sweepTodo'[u] > 0 => sweepTodo[u] > 0
    BY <2>1 DEF SweepTypes
  <2>6. status[t] # "Absent"
    BY <2>1 DEF DeliveryInv, EveryIdHasRow, SweepKnows, WorkersKnow
  <2>7. /\ sweep' \in {"push", "remove"} => status[sweepTask'] # "Absent"
        /\ sweep' = "remove" /\ status[sweepTask'] = "Queued" => InQueue(sweepTask)'
        /\ sweep' # "up"
    BY <2>1, <2>2, <2>6
  <2>8. \A w \in Worker : wpc[w] = "idle"
    BY <2>1 DEF DeliveryInv, EveryIdHasRow, SweepKnows, WorkersKnow
  <2>9. QED
    BY <1>1, <2>1, <2>3, <2>4, <2>5, <2>7, <2>8 DEF DeliveryInv, EveryIdHasRow, SweepKnows, WorkersKnow, listVars, workerVars
<1>4. CASE SweepPush
  <2>1. sweepTask \in Task /\ status[sweepTask] # "Absent"
    BY <1>4 DEF SweepPush, SweepTypes, DeliveryInv, EveryIdHasRow, SweepKnows, WorkersKnow
  <2>2. UNCHANGED processing
    BY <1>4 DEF SweepPush
  <2>3. \A u : InQueue(u)' => u = sweepTask \/ InQueue(u)
    BY <1>4, <2>1, QueueAppend DEF SweepPush, ListTypes, InQueue
  <2>4. \A u : InQueue(u) => InQueue(u)'
    BY <1>4, <2>1, QueueAppend DEF SweepPush, ListTypes, InQueue
  <2>5. \/ sweep' = "remove" /\ sweepTask' = sweepTask /\ sweepTodo' = sweepTodo /\ InQueue(sweepTask)'
        \/ sweep' = "up" /\ sweepTodo' = [u \in Task |-> 0]
    BY <1>4, <2>1, QueueAppend DEF SweepPush, ListTypes
  <2>6. NoLostTask'
    BY <1>1, <2>2, <2>4 DEF DeliveryInv, EveryIdHasRow, SweepKnows, WorkersKnow, NoLostTask
  <2>7. \A w \in Worker : wpc[w] = "idle"
    BY <1>4 DEF SweepPush, DeliveryInv, EveryIdHasRow, SweepKnows, WorkersKnow
  <2>8. QED
    BY <1>1, <2>1, <2>2, <2>3, <2>5, <2>6, <2>7 DEF DeliveryInv, EveryIdHasRow, SweepKnows, WorkersKnow, workerVars
<1>5. CASE SweepRemove
  <2>1. sweepTask \in Task /\ (status[sweepTask] = "Queued" => InQueue(sweepTask))
    BY <1>5 DEF SweepRemove, SweepTypes, DeliveryInv, EveryIdHasRow, SweepKnows, WorkersKnow
  <2>2. \A u : InQueue(u)' <=> InQueue(u)
    BY <1>5 DEF SweepRemove, InQueue
  <2>3. \A u \in Task : /\ processing'[u] > 0 => processing[u] > 0
                        /\ u # sweepTask => processing'[u] = processing[u]
    BY <1>5 DEF SweepRemove, Removed, ListTypes
  <2>4. \/ sweep' = "item" /\ sweepTodo' = sweepTodo
        \/ sweep' = "up" /\ sweepTodo' = [u \in Task |-> 0]
    BY <1>5 DEF SweepRemove
  <2>5. NoLostTask'
    BY <1>1, <2>1, <2>2, <2>3 DEF DeliveryInv, EveryIdHasRow, SweepKnows, WorkersKnow, NoLostTask
  <2>6. \A w \in Worker : wpc[w] = "idle"
    BY <1>5 DEF SweepRemove, DeliveryInv, EveryIdHasRow, SweepKnows, WorkersKnow
  <2>7. EveryIdHasRow'
    <3>1. \A u \in Task : sweepTodo'[u] > 0 => sweepTodo[u] > 0
      BY <2>4
    <3>2. QED
      BY <1>1, <2>2, <2>3, <3>1 DEF DeliveryInv, EveryIdHasRow, ListTypes, SweepTypes
  <2>8. SweepKnows'
    BY <2>4 DEF SweepKnows
  <2>9. WorkersKnow'
    BY <1>1, <2>6 DEF WorkersKnow, workerVars
  <2>10. QED
    BY <2>5, <2>7, <2>8, <2>9 DEF DeliveryInv
<1>6. QED
  BY <1>2, <1>3, <1>4, <1>5 DEF SweepStep

LEMMA DeliveryWorker ==
  ASSUME TypeOK, TypeOK', DeliveryInv, StatusMoves, NEW w \in Worker, WorkerStep(w)
  PROVE  DeliveryInv'
<1> RowTypes /\ ListTypes /\ WorkerTypes /\ SweepTypes /\ ListTypes' /\ WorkerTypes'
  BY DEF TypeOK
<1> USE DEF Goto
<1>1. UNCHANGED <<sweepVars, enqueue>>
  BY DEF WorkerStep, Pop, Check, Submit, Commit, SetFailed, Ack
<1>2. CASE Pop(w)
  <2>1. /\ sweep = "up" /\ queued # <<>> /\ UNCHANGED status
        /\ queued' = Tail(queued)
        /\ processing' = [processing EXCEPT ![Head(queued)] = @ + 1]
    BY <1>2 DEF Pop, rowVars
  <2>2. /\ Head(queued) \in Task /\ InQueue(Head(queued))
        /\ \A u : InQueue(u)' => InQueue(u)
        /\ \A u : InQueue(u) => u = Head(queued) \/ InQueue(u)'
    BY <2>1, QueueTail DEF ListTypes
  <2>3. \/ /\ wpc' = [wpc EXCEPT ![w] = "check"]
           /\ wtask' = [wtask EXCEPT ![w] = Head(queued)]
        \/ UNCHANGED <<wpc, wtask>>
    BY <1>2 DEF Pop
  <2>4. status[Head(queued)] # "Absent"
    BY <2>2 DEF DeliveryInv, EveryIdHasRow, SweepKnows, WorkersKnow
  <2>5. \A u \in Task : /\ processing'[u] > 0 => processing[u] > 0 \/ u = Head(queued)
                        /\ processing[u] > 0 => processing'[u] > 0
                        /\ processing'[Head(queued)] > 0
    BY <2>1, <2>2 DEF ListTypes
  <2>6. NoLostTask'
    <3> SUFFICES ASSUME NEW t \in Task, status[t] = "Queued", enqueue[t] = "done"
                 PROVE  InQueue(t)' \/ processing'[t] > 0
      BY <1>1, <2>1 DEF NoLostTask
    <3>1. InQueue(t) \/ processing[t] > 0
      BY DEF DeliveryInv, NoLostTask
    <3>2. CASE processing[t] > 0
      BY <3>2, <2>5
    <3>3. CASE InQueue(t)
      <4>1. t = Head(queued) \/ InQueue(t)'
        BY <3>3, <2>2
      <4>2. QED
        BY <4>1, <2>5 DEF ListTypes
    <3>4. QED
      BY <3>1, <3>2, <3>3
  <2>7. \A v \in Worker : /\ wpc'[v] # "idle" => status[wtask'[v]] # "Absent"
                          /\ wpc'[v] = "ack" => status[wtask'[v]] # "Queued"
    BY <2>3, <2>4 DEF DeliveryInv, EveryIdHasRow, SweepKnows, WorkersKnow, WorkerTypes
  <2>8. EveryIdHasRow'
    BY <1>1, <2>1, <2>2, <2>4, <2>5 DEF DeliveryInv, EveryIdHasRow, sweepVars
  <2>9. SweepKnows'
    BY <1>1, <2>1 DEF SweepKnows, sweepVars
  <2>10. WorkersKnow'
    <3>1. sweep' = "up"
      BY <1>1, <2>1 DEF sweepVars
    <3>2. QED
      BY <2>1, <2>7, <3>1 DEF WorkersKnow, WorkerTypes
  <2>11. QED
    BY <2>6, <2>8, <2>9, <2>10 DEF DeliveryInv
<1>3. CASE Ack(w)
  <2>1. UNCHANGED <<status, queued>> /\ wtask[w] \in Task /\ status[wtask[w]] # "Queued"
    BY <1>3 DEF Ack, rowVars, WorkerTypes, DeliveryInv, EveryIdHasRow, SweepKnows, WorkersKnow
  <2>2. \A u : InQueue(u)' <=> InQueue(u)
    BY <2>1 DEF InQueue
  <2>3. \A u \in Task : /\ processing'[u] > 0 => processing[u] > 0
                        /\ u # wtask[w] => processing'[u] = processing[u]
    BY <1>3 DEF Ack, Removed, ListTypes
  <2>4. NoLostTask'
    BY <1>1, <2>1, <2>2, <2>3 DEF DeliveryInv, EveryIdHasRow, SweepKnows, WorkersKnow, NoLostTask
  <2>5. \A v \in Worker : /\ wpc'[v] # "idle" => wpc[v] # "idle"
                          /\ wpc'[v] # "idle" => wpc'[v] = wpc[v] /\ wtask'[v] = wtask[v]
    BY <1>3 DEF Ack, WorkerTypes
  <2>6. EveryIdHasRow'
    <3>1. UNCHANGED <<sweepTodo, status, enqueue>>
      BY <1>1, <2>1 DEF sweepVars
    <3>2. QED
      BY <3>1, <2>2, <2>3 DEF DeliveryInv, EveryIdHasRow, ListTypes, SweepTypes
  <2>7. SweepKnows'
    BY <1>1, <2>1, <2>2 DEF DeliveryInv, SweepKnows, sweepVars
  <2>8. WorkersKnow'
    <3>1. UNCHANGED <<sweep, status>>
      BY <1>1, <2>1 DEF sweepVars
    <3>2. QED
      BY <3>1, <2>5 DEF DeliveryInv, WorkersKnow, WorkerTypes
  <2>9. QED
    BY <2>4, <2>6, <2>7, <2>8 DEF DeliveryInv
<1>4. CASE Check(w) \/ Submit(w) \/ Commit(w) \/ SetFailed(w)
  <2>1. UNCHANGED listVars /\ wpc[w] # "idle" /\ wtask[w] \in Task
    BY <1>4 DEF Check, Submit, Commit, SetFailed, WorkerTypes
  <2>2. \A u : InQueue(u)' <=> InQueue(u)
    BY <2>1 DEF InQueue, listVars
  <2>3. NoLostTask'
    BY <1>1, <2>1, <2>2 DEF DeliveryInv, EveryIdHasRow, SweepKnows, WorkersKnow, NoLostTask, StatusMoves, listVars
  <2>4. \A v \in Worker : v # w => wpc'[v] = wpc[v] /\ wtask'[v] = wtask[v]
    BY <1>4 DEF Check, Submit, Commit, SetFailed, WorkerTypes
  <2>5. /\ wpc'[w] # "idle" => wtask'[w] = wtask[w]
        /\ wpc'[w] = "ack" => status'[wtask[w]] # "Queued"
    <3>1. CASE Check(w)
      BY <2>1, <3>1 DEF Check, WorkerTypes, rowVars
    <3>2. CASE Submit(w)
      BY <2>1, <3>2 DEF Submit, WorkerTypes
    <3>3. CASE Commit(w)
      BY <2>1, <3>3 DEF Commit, SetRunning, WorkerTypes, RowTypes
    <3>4. CASE SetFailed(w)
      BY <2>1, <3>4 DEF SetFailed, WorkerTypes, RowTypes, Open
    <3>5. QED
      BY <1>4, <3>1, <3>2, <3>3, <3>4
  <2>6. QED
    BY <1>1, <2>1, <2>2, <2>3, <2>4, <2>5
    DEF DeliveryInv, EveryIdHasRow, SweepKnows, WorkersKnow, StatusMoves, WorkerTypes, SweepTypes, listVars, sweepVars
<1>5. QED
  BY <1>2, <1>3, <1>4 DEF WorkerStep

LEMMA DeliveryCrash ==
  ASSUME TypeOK, DeliveryInv, Crash
  PROVE  DeliveryInv'
<1>1. UNCHANGED <<status, queued, processing>>
  BY DEF Crash, rowVars, listVars
<1>2. \A u : InQueue(u)' <=> InQueue(u)
  BY <1>1 DEF InQueue
<1>3. \A t \in Task : \/ enqueue'[t] = enqueue[t]
                      \/ enqueue[t] = "pending" /\ enqueue'[t] = "lost"
  BY DEF Crash, TypeOK, HistoryTypes
<1>4. NoLostTask'
  <2> SUFFICES ASSUME NEW t \in Task, status[t] = "Queued", enqueue'[t] = "done"
               PROVE  InQueue(t)' \/ processing'[t] > 0
    BY <1>1 DEF NoLostTask
  <2>1. enqueue[t] = "done"
    BY <1>3
  <2>2. QED
    BY <1>1, <1>2, <2>1 DEF DeliveryInv, NoLostTask
<1>5. sweep' = "read" /\ sweepTodo' = [t \in Task |-> 0] /\ wpc' = [w \in Worker |-> "idle"]
  BY DEF Crash
<1>6. EveryIdHasRow'
  BY <1>1, <1>2, <1>3, <1>5 DEF DeliveryInv, EveryIdHasRow
<1>7. SweepKnows' /\ WorkersKnow'
  BY <1>5 DEF SweepKnows, WorkersKnow
<1>8. QED
  BY <1>4, <1>6, <1>7 DEF DeliveryInv

LEMMA DeliveryInit == Init => DeliveryInv
  BY DEF Init, DeliveryInv, EveryIdHasRow, SweepKnows, WorkersKnow, NoLostTask, InQueue

LEMMA DeliveryNext == TypeOK /\ DeliveryInv /\ [Next]_vars => DeliveryInv'
<1> SUFFICES ASSUME TypeOK, DeliveryInv, [Next]_vars PROVE DeliveryInv'
  OBVIOUS
<1>1. CASE UNCHANGED vars
  <2>1. UNCHANGED <<status, listVars, sweepVars, workerVars, enqueue>>
    BY <1>1 DEF vars, rowVars
  <2>2. StatusMoves
    BY <2>1 DEF StatusMoves
  <2>3. QED
    BY <2>1, <2>2, DeliveryQuiet
<1>2. CASE Next
  <2>1. StatusMoves
    BY <1>2, StatusMovesNext
  <2>2. ASSUME NEW t \in Task, Cancel(t) PROVE DeliveryInv'
    BY <2>1, <2>2, DeliveryQuiet DEF Cancel
  <2>3. ASSUME NEW j \in Job, VendorStep(j) PROVE DeliveryInv'
    BY <2>1, <2>3, DeliveryQuiet DEF VendorStep, UpstreamCancel, VendorFinish
  <2>4. ASSUME PollerStep PROVE DeliveryInv'
    BY <2>1, <2>4, DeliveryQuiet DEF PollerStep, PollerRead, PollerSpawn
  <2>5. ASSUME NEW s \in Slot, PollStep(s) PROVE DeliveryInv'
    <3>1. UNCHANGED <<listVars, sweepVars, workerVars, enqueue>>
      BY <2>5 DEF PollStep, Poll, Bump, FinalizeFailed, Store, Lookup, Settle, Flip
    <3>2. QED
      BY <2>1, <3>1, DeliveryQuiet
  <2>6. QED
    BY <1>2, <2>1, <2>2, <2>3, <2>4, <2>5, TypeNext, DeliveryInsert, DeliveryEnqueue,
       DeliverySweep, DeliveryWorker, DeliveryCrash DEF Next, HandlerStep
<1>3. QED
  BY <1>1, <1>2

\* Delivery is at least once: whatever the interleaving, the crashes and the
\* failing calls, a Queued task whose LPUSH succeeded stays in one of the lists.
THEOREM NothingLost == Spec => []NoLostTask
<1>1. DeliveryInv => NoLostTask
  BY DEF DeliveryInv
<1>2. QED
  BY <1>1, DeliveryInit, DeliveryNext, TypeCorrect, PTL DEF Spec

----------------------------------------------------------------------------
(* Charging, final statuses and the refinement of TaskLifecycle; webhooks,  *)
(* poll budget and the vendor's jobs.                                       *)

(***************************************************************************)
(* The inductive invariant.  That a task is charged once does not follow    *)
(* from the request_id lookup alone: between the lookup and the charge no   *)
(* other routine may work on the task, which the in-flight set guarantees   *)
(* only because a routine stays in it until it returns.                     *)
(***************************************************************************)

\* The vendor's id is written with the move to Running, and only then.
StartedHasJob ==
  \A t \in Task : /\ status[t] \in {"Absent", "Queued"} => vendorTaskId[t] = None
                  /\ status[t] \in {"Running", "Succeeded"} => vendorTaskId[t] # None

\* Rows copied by the poller, and the tasks of its routines, were started.
FlightsStarted ==
  /\ \A t \in batch : vendorTaskId[t] # None
  /\ \A s \in Slot : ppc[s] # "idle" => vendorTaskId[ptask[s]] # None

\* A routine is in the in-flight set until it returns.
FlightsActive == \A s \in Slot : ppc[s] # "idle" => ptask[s] \in active

\* What a routine knows of the charge past its lookup.
FlightsKnow ==
  \A s \in Slot : /\ ppc[s] = "settle" => billed[ptask[s]] = 0
                  /\ ppc[s] = "flip" => billed[ptask[s]] = 1

BillingInv == /\ BilledAtMostOnce /\ SucceededIsBilled /\ SingleFlight
              /\ StartedHasJob /\ FlightsStarted /\ FlightsActive /\ FlightsKnow

(***************************************************************************)
(* The five things a step may do to a row; every step does at most one of   *)
(* them, to at most one row.                                                *)
(***************************************************************************)

RowAccepted(t) == /\ status[t] = "Absent"
                  /\ status' = [status EXCEPT ![t] = "Queued"]
                  /\ UNCHANGED <<vendorTaskId, billed>>

RowStarted(t) == /\ status[t] = "Queued"
                 /\ \E j \in Job : SetRunning(t, j)
                 /\ UNCHANGED billed

RowStopped(t) == /\ status[t] \in Open
                 /\ \E final \in {"Failed", "Cancelled"} : status' = [status EXCEPT ![t] = final]
                 /\ UNCHANGED <<vendorTaskId, billed>>

RowSucceeded(t) == /\ status[t] = "Running" /\ billed[t] = 1
                   /\ status' = [status EXCEPT ![t] = "Succeeded"]
                   /\ UNCHANGED <<vendorTaskId, billed>>

RowCharged(t) == /\ vendorTaskId[t] # None /\ billed[t] = 0
                 /\ billed' = [billed EXCEPT ![t] = 1]
                 /\ UNCHANGED <<status, vendorTaskId>>

RowStep == \/ UNCHANGED <<status, vendorTaskId, billed>>
           \/ \E t \in Task : \/ RowAccepted(t) \/ RowStarted(t) \/ RowStopped(t)
                              \/ RowSucceeded(t) \/ RowCharged(t)

LEMMA WorkerRowStep ==
  ASSUME TypeOK, NEW w \in Worker, WorkerStep(w)
  PROVE  RowStep
<1> RowTypes /\ WorkerTypes
  BY DEF TypeOK
<1>1. CASE Pop(w) \/ Check(w) \/ Submit(w) \/ Ack(w)
  BY <1>1 DEF Pop, Check, Submit, Ack, RowStep, rowVars
<1>2. CASE Commit(w)
  <2>1. wtask[w] \in Task /\ wjob[w] \in Job
    BY <1>2 DEF Commit, WorkerTypes
  <2>2. UNCHANGED billed
    BY <1>2 DEF Commit
  <2>3. \/ UNCHANGED <<status, vendorTaskId>>
        \/ status[wtask[w]] = "Queued" /\ SetRunning(wtask[w], wjob[w])
    BY <1>2 DEF Commit
  <2>4. QED
    BY <2>1, <2>2, <2>3 DEF RowStep, RowStarted
<1>3. CASE SetFailed(w)
  <2>1. wtask[w] \in Task /\ UNCHANGED <<vendorTaskId, billed>>
    BY <1>3 DEF SetFailed, WorkerTypes
  <2>2. \/ UNCHANGED status
        \/ status' = [status EXCEPT ![wtask[w]] = IF @ \in Open THEN "Failed" ELSE @]
    BY <1>3 DEF SetFailed
  <2>3. \/ UNCHANGED status
        \/ status[wtask[w]] \in Open /\ status' = [status EXCEPT ![wtask[w]] = "Failed"]
    BY <2>1, <2>2 DEF RowTypes
  <2>4. QED
    BY <2>1, <2>3 DEF RowStep, RowStopped
<1>4. QED
  BY <1>1, <1>2, <1>3 DEF WorkerStep

LEMMA PollRowStep ==
  ASSUME TypeOK, BillingInv, NEW s \in Slot, PollStep(s)
  PROVE  RowStep
<1> RowTypes /\ PollTypes
  BY DEF TypeOK
<1>1. CASE Poll(s) \/ Bump(s) \/ Store(s) \/ Lookup(s)
  BY <1>1 DEF Poll, Bump, Store, Lookup, RowStep, rowVars
<1>2. CASE FinalizeFailed(s)
  <2>1. ptask[s] \in Task /\ UNCHANGED <<vendorTaskId, billed>>
    BY <1>2 DEF FinalizeFailed, PollTypes
  <2>2. UNCHANGED status \/ status' = Finished(ptask[s], "Failed")
    BY <1>2 DEF FinalizeFailed
  <2>3. \/ UNCHANGED status
        \/ status[ptask[s]] = "Running" /\ status' = [status EXCEPT ![ptask[s]] = "Failed"]
    BY <2>1, <2>2 DEF RowTypes, Finished
  <2>4. QED
    BY <2>1, <2>3 DEF RowStep, RowStopped, Open
<1>3. CASE Settle(s)
  <2>1. ptask[s] \in Task /\ UNCHANGED <<status, vendorTaskId>>
    BY <1>3 DEF Settle, PollTypes
  <2>2. billed[ptask[s]] = 0 /\ vendorTaskId[ptask[s]] # None
    BY <1>3 DEF Settle, BillingInv, FlightsKnow, FlightsStarted
  <2>3. UNCHANGED billed \/ billed' = [billed EXCEPT ![ptask[s]] = @ + 1]
    BY <1>3 DEF Settle
  <2>4. UNCHANGED billed \/ billed' = [billed EXCEPT ![ptask[s]] = 1]
    BY <2>1, <2>2, <2>3 DEF RowTypes
  <2>5. QED
    BY <2>1, <2>2, <2>4 DEF RowStep, RowCharged
<1>4. CASE Flip(s)
  <2>1. ptask[s] \in Task /\ UNCHANGED <<vendorTaskId, billed>>
    BY <1>4 DEF Flip, PollTypes
  <2>2. billed[ptask[s]] = 1
    BY <1>4 DEF Flip, BillingInv, FlightsKnow
  <2>3. UNCHANGED status \/ status' = Finished(ptask[s], "Succeeded")
    BY <1>4 DEF Flip
  <2>4. \/ UNCHANGED status
        \/ status[ptask[s]] = "Running" /\ status' = [status EXCEPT ![ptask[s]] = "Succeeded"]
    BY <2>1, <2>3 DEF RowTypes, Finished
  <2>5. QED
    BY <2>1, <2>2, <2>4 DEF RowStep, RowSucceeded
<1>5. QED
  BY <1>1, <1>2, <1>3, <1>4 DEF PollStep

LEMMA RowStepNext ==
  ASSUME TypeOK, BillingInv, [Next]_vars
  PROVE  RowStep
<1>1. ASSUME NEW t \in Task, HandlerStep(t) PROVE RowStep
  <2>1. CASE Insert(t)
    BY <2>1 DEF Insert, RowStep, RowAccepted
  <2>2. CASE Enqueue(t)
    BY <2>2 DEF Enqueue, RowStep, rowVars
  <2>3. CASE Cancel(t)
    BY <2>3 DEF Cancel, RowStep, RowStopped
  <2>4. QED
    BY <1>1, <2>1, <2>2, <2>3 DEF HandlerStep
<1>2. ASSUME NEW j \in Job, VendorStep(j) PROVE RowStep
  BY <1>2 DEF VendorStep, UpstreamCancel, VendorFinish, RowStep, rowVars
<1>3. CASE SweepStep
  BY <1>3 DEF SweepStep, SweepRead, SweepItem, SweepPush, SweepRemove, SweepDone, RowStep, rowVars
<1>4. CASE PollerStep
  BY <1>4 DEF PollerStep, PollerRead, PollerSpawn, RowStep, rowVars
<1>5. CASE Crash
  BY <1>5 DEF Crash, RowStep, rowVars
<1>6. CASE UNCHANGED vars
  BY <1>6 DEF vars, RowStep, rowVars
<1>7. QED
  BY <1>1, <1>2, <1>3, <1>4, <1>5, <1>6, WorkerRowStep, PollRowStep DEF Next

\* How the parts of a row that others rely on may move.
RowMoves ==
  \A t \in Task : /\ vendorTaskId[t] # None => vendorTaskId'[t] = vendorTaskId[t]
                  /\ status[t] \in Final => status'[t] = status[t]
                  /\ billed[t] = 1 => billed'[t] = 1

LEMMA RowStepMoves ==
  ASSUME TypeOK, BillingInv, RowStep
  PROVE  RowMoves
<1> RowTypes
  BY DEF TypeOK
<1>1. CASE UNCHANGED <<status, vendorTaskId, billed>>
  BY <1>1 DEF RowMoves
<1>2. ASSUME NEW t \in Task, RowAccepted(t) PROVE RowMoves
  BY <1>2 DEF RowAccepted, RowMoves, RowTypes, Final
<1>3. ASSUME NEW t \in Task, RowStarted(t) PROVE RowMoves
  BY <1>3 DEF RowStarted, SetRunning, RowMoves, RowTypes, Final, BillingInv, StartedHasJob
<1>4. ASSUME NEW t \in Task, RowStopped(t) PROVE RowMoves
  BY <1>4 DEF RowStopped, RowMoves, RowTypes, Open, Final
<1>5. ASSUME NEW t \in Task, RowSucceeded(t) PROVE RowMoves
  BY <1>5 DEF RowSucceeded, RowMoves, RowTypes, Final
<1>6. ASSUME NEW t \in Task, RowCharged(t) PROVE RowMoves
  BY <1>6 DEF RowCharged, RowMoves, RowTypes
<1>7. QED
  BY <1>1, <1>2, <1>3, <1>4, <1>5, <1>6 DEF RowStep

LEMMA RowInvNext ==
  ASSUME TypeOK, BillingInv, RowStep
  PROVE  (BilledAtMostOnce /\ SucceededIsBilled /\ StartedHasJob)'
<1> RowTypes /\ BilledAtMostOnce /\ SucceededIsBilled /\ StartedHasJob
  BY DEF TypeOK, BillingInv
<1> DEFINE Kept == (BilledAtMostOnce /\ SucceededIsBilled /\ StartedHasJob)'
<1> USE DEF RowTypes, BilledAtMostOnce, SucceededIsBilled, StartedHasJob
<1>1. CASE UNCHANGED <<status, vendorTaskId, billed>>
  BY <1>1
<1>2. ASSUME NEW t \in Task, RowAccepted(t) PROVE Kept
  BY <1>2 DEF RowAccepted
<1>3. ASSUME NEW t \in Task, RowStarted(t) PROVE Kept
  BY <1>3, RuntimeAssumption DEF RowStarted, SetRunning
<1>4. ASSUME NEW t \in Task, RowStopped(t) PROVE Kept
  BY <1>4 DEF RowStopped, Open
<1>5. ASSUME NEW t \in Task, RowSucceeded(t) PROVE Kept
  BY <1>5 DEF RowSucceeded
<1>6. ASSUME NEW t \in Task, RowCharged(t) PROVE Kept
  BY <1>6 DEF RowCharged
<1>7. QED
  BY <1>1, <1>2, <1>3, <1>4, <1>5, <1>6 DEF RowStep

\* What is known of the rest, when only rows move.
LEMMA FlightsQuiet ==
  ASSUME TypeOK, TypeOK', BillingInv, RowMoves, UNCHANGED <<loopVars, pollVars>>,
         \A s \in Slot : ppc[s] = "settle" => billed'[ptask[s]] = billed[ptask[s]]
  PROVE  (SingleFlight /\ FlightsStarted /\ FlightsActive /\ FlightsKnow)'
<1> PollTypes
  BY DEF TypeOK
<1>1. SingleFlight' /\ FlightsActive'
  BY DEF BillingInv, SingleFlight, FlightsActive, pollVars
<1>2. FlightsStarted'
  BY DEF BillingInv, FlightsStarted, RowMoves, PollTypes, loopVars, pollVars
<1>3. FlightsKnow'
  BY DEF BillingInv, FlightsKnow, RowMoves, PollTypes, pollVars
<1>4. QED
  BY <1>1, <1>2, <1>3

\* A routine goes to its next position, or returns.
LEMMA FlightsStep ==
  ASSUME TypeOK, TypeOK', BillingInv, RowMoves, NEW s \in Slot, ppc[s] # "idle",
         UNCHANGED loopVars,
         \/ /\ ppc' = [ppc EXCEPT ![s] = ppc'[s]] /\ ppc'[s] # "idle"
            /\ UNCHANGED <<active, ptask, pcount>>
            /\ ppc'[s] = "settle" => billed'[ptask[s]] = 0
            /\ ppc'[s] = "flip" => billed'[ptask[s]] = 1
         \/ Return(s),
         \A u \in Task \ {ptask[s]} : billed'[u] = billed[u]
  PROVE  (SingleFlight /\ FlightsStarted /\ FlightsActive /\ FlightsKnow)'
<1> PollTypes /\ ptask[s] \in Task
  BY DEF TypeOK, PollTypes
<1>1. \A r \in Slot \ {s} : /\ ppc'[r] = ppc[r] /\ ptask'[r] = ptask[r]
                            /\ ppc[r] # "idle" => ptask[r] \in Task \ {ptask[s]}
  BY DEF Return, PollTypes, BillingInv, SingleFlight
<1>2. \/ ppc'[s] = "idle" /\ active' = active \ {ptask[s]}
      \/ ptask' = ptask /\ ppc'[s] # "idle" /\ active' = active
  BY DEF Return, PollTypes
<1>3. SingleFlight'
  BY <1>1, <1>2 DEF BillingInv, SingleFlight
<1>4. FlightsActive'
  BY <1>1, <1>2 DEF BillingInv, FlightsActive
<1>5. FlightsStarted'
  BY <1>1, <1>2 DEF BillingInv, FlightsStarted, RowMoves, PollTypes, loopVars
<1>6. FlightsKnow'
  <2>1. ASSUME NEW r \in Slot \ {s}
        PROVE  /\ ppc'[r] = "settle" => billed'[ptask'[r]] = 0
               /\ ppc'[r] = "flip" => billed'[ptask'[r]] = 1
    BY <1>1 DEF BillingInv, FlightsKnow
  <2>2. /\ ppc'[s] = "settle" => billed'[ptask'[s]] = 0
        /\ ppc'[s] = "flip" => billed'[ptask'[s]] = 1
    BY <1>2 DEF Return, PollTypes
  <2>3. QED
    BY <2>1, <2>2 DEF FlightsKnow
<1>7. QED
  BY <1>3, <1>4, <1>5, <1>6

Flights == SingleFlight /\ FlightsStarted /\ FlightsActive /\ FlightsKnow

LEMMA FlightsPoll ==
  ASSUME TypeOK, TypeOK', BillingInv, RowMoves, NEW s \in Slot, PollStep(s)
  PROVE  Flights'
<1> RowTypes /\ PollTypes
  BY DEF TypeOK
<1> USE DEF Flights
<1>1. UNCHANGED loopVars /\ ppc[s] # "idle"
  BY DEF PollStep, Poll, Bump, FinalizeFailed, Store, Lookup, Settle, Flip
<1>2. CASE Settle(s)
  <2>1. \A u \in Task \ {ptask[s]} : billed'[u] = billed[u]
    BY <1>2 DEF Settle, RowTypes
  <2>2. CASE Continue(s, "flip") /\ billed' = [billed EXCEPT ![ptask[s]] = @ + 1]
    <3>1. billed'[ptask[s]] = 1
      BY <1>2, <2>2 DEF Settle, BillingInv, FlightsKnow, RowTypes, PollTypes
    <3>2. QED
      BY <1>1, <2>1, <2>2, <3>1, FlightsStep DEF Continue, PollTypes
  <2>3. CASE Return(s)
    BY <1>1, <2>1, <2>3, FlightsStep
  <2>4. QED
    BY <1>2, <2>2, <2>3 DEF Settle
<1>3. CASE Lookup(s)
  <2>1. UNCHANGED billed
    BY <1>3 DEF Lookup, rowVars
  <2>2. billed[ptask[s]] \in {0, 1}
    BY <1>1 DEF BillingInv, BilledAtMostOnce, RowTypes, PollTypes
  <2>3. CASE Continue(s, IF billed[ptask[s]] > 0 THEN "flip" ELSE "settle")
    <3>1. /\ ppc' = [ppc EXCEPT ![s] = ppc'[s]] /\ ppc'[s] # "idle"
          /\ UNCHANGED <<active, ptask, pcount>>
          /\ ppc'[s] = "settle" => billed'[ptask[s]] = 0
          /\ ppc'[s] = "flip" => billed'[ptask[s]] = 1
      BY <2>1, <2>2, <2>3 DEF Continue, PollTypes
    <3>2. QED
      BY <1>1, <2>1, <3>1, FlightsStep
  <2>4. CASE Return(s)
    BY <1>1, <2>1, <2>4, FlightsStep
  <2>5. QED
    BY <1>3, <2>3, <2>4 DEF Lookup
<1>4. CASE Poll(s) \/ Store(s)
  <2>1. UNCHANGED billed
    BY <1>4 DEF Poll, Store, rowVars
  <2>2. Return(s) \/ \E label \in {"fail", "bump", "store", "lookup"} : Continue(s, label)
    BY <1>4 DEF Poll, PollOutcome, Store
  <2>3. ASSUME NEW label \in {"fail", "bump", "store", "lookup"}, Continue(s, label)
        PROVE  /\ ppc' = [ppc EXCEPT ![s] = ppc'[s]] /\ ppc'[s] # "idle"
               /\ UNCHANGED <<active, ptask, pcount>>
               /\ ppc'[s] # "settle" /\ ppc'[s] # "flip"
    BY <2>3 DEF Continue, PollTypes
  <2>4. QED
    BY <1>1, <2>1, <2>2, <2>3, FlightsStep
<1>5. CASE Bump(s) \/ FinalizeFailed(s) \/ Flip(s)
  <2>1. UNCHANGED billed /\ Return(s)
    BY <1>5 DEF Bump, FinalizeFailed, Flip
  <2>2. QED
    BY <1>1, <2>1, FlightsStep
<1>6. QED
  BY <1>2, <1>3, <1>4, <1>5 DEF PollStep

LEMMA FlightsPoller ==
  ASSUME TypeOK, TypeOK', BillingInv, PollerStep
  PROVE  Flights'
<1> RowTypes /\ PollTypes
  BY DEF TypeOK
<1> USE DEF Flights
<1>1. UNCHANGED <<status, vendorTaskId, billed>>
  BY DEF PollerStep, PollerRead, PollerSpawn, rowVars
<1>2. CASE PollerRead
  <2>1. UNCHANGED pollVars /\ batch' \subseteq Running
    BY <1>2 DEF PollerRead
  <2>2. \A t \in Running : vendorTaskId[t] # None
    BY DEF BillingInv, StartedHasJob, Running
  <2>3. FlightsStarted'
    BY <1>1, <2>1, <2>2 DEF BillingInv, FlightsStarted, pollVars
  <2>4. (SingleFlight /\ FlightsActive /\ FlightsKnow)'
    BY <1>1, <2>1 DEF BillingInv, SingleFlight, FlightsActive, FlightsKnow, pollVars
  <2>5. QED
    BY <2>3, <2>4
<1>3. ASSUME NEW t \in Task, PollerSpawn(t) PROVE Flights'
  <2>1. t \in batch /\ batch' = batch \ {t} /\ vendorTaskId[t] # None
    BY <1>3 DEF PollerSpawn, BillingInv, FlightsStarted
  <2>2. CASE UNCHANGED pollVars
    BY <1>1, <2>1, <2>2 DEF BillingInv, SingleFlight, FlightsStarted, FlightsActive, FlightsKnow, pollVars
  <2>3. ASSUME NEW s \in Slot, t \notin active, active' = active \cup {t}, ppc[s] = "idle",
               ppc' = [ppc EXCEPT ![s] = "poll"], ptask' = [ptask EXCEPT ![s] = t]
        PROVE  Flights'
    <3>1. ppc'[s] = "poll" /\ ptask'[s] = t
      BY <2>3 DEF PollTypes
    <3>2. \A r \in Slot \ {s} : /\ ppc'[r] = ppc[r] /\ ptask'[r] = ptask[r]
                                /\ ppc[r] # "idle" => ptask[r] # t
      BY <2>3 DEF PollTypes, BillingInv, FlightsActive
    <3>3. SingleFlight'
      BY <3>1, <3>2 DEF BillingInv, SingleFlight
    <3>4. FlightsActive'
      BY <2>3, <3>1, <3>2 DEF BillingInv, FlightsActive
    <3>5. FlightsStarted'
      BY <1>1, <2>1, <3>1, <3>2 DEF BillingInv, FlightsStarted
    <3>6. FlightsKnow'
      BY <1>1, <3>1, <3>2 DEF BillingInv, FlightsKnow
    <3>7. QED
      BY <3>3, <3>4, <3>5, <3>6
  <2>4. QED
    BY <1>3, <2>2, <2>3 DEF PollerSpawn
<1>4. QED
  BY <1>2, <1>3 DEF PollerStep

LEMMA FlightsNext ==
  ASSUME TypeOK, TypeOK', BillingInv, RowMoves, [Next]_vars
  PROVE  Flights'
<1>1. ASSUME UNCHANGED <<billed, loopVars, pollVars>> PROVE Flights'
  BY <1>1, FlightsQuiet DEF Flights
<1>2. ASSUME NEW t \in Task, HandlerStep(t) PROVE Flights'
  BY <1>1, <1>2 DEF HandlerStep, Insert, Enqueue, Cancel, rowVars
<1>3. ASSUME NEW j \in Job, VendorStep(j) PROVE Flights'
  BY <1>1, <1>3 DEF VendorStep, UpstreamCancel, VendorFinish, rowVars
<1>4. CASE SweepStep
  BY <1>1, <1>4 DEF SweepStep, SweepRead, SweepItem, SweepPush, SweepRemove, SweepDone, rowVars
<1>5. ASSUME NEW w \in Worker, WorkerStep(w) PROVE Flights'
  BY <1>1, <1>5 DEF WorkerStep, Pop, Check, Submit, Commit, SetFailed, Ack, rowVars
<1>6. CASE Crash
  BY <1>6 DEF Crash, Flights, SingleFlight, FlightsStarted, FlightsActive, FlightsKnow
<1>7. CASE UNCHANGED vars
  BY <1>1, <1>7 DEF vars, rowVars
<1>8. QED
  BY <1>2, <1>3, <1>4, <1>5, <1>6, <1>7, FlightsPoll, FlightsPoller DEF Next

LEMMA BillingInit == Init => BillingInv
  BY DEF Init, BillingInv, BilledAtMostOnce, SucceededIsBilled, SingleFlight, StartedHasJob,
         FlightsStarted, FlightsActive, FlightsKnow

LEMMA BillingNext == TypeOK /\ BillingInv /\ [Next]_vars => BillingInv'
<1> SUFFICES ASSUME TypeOK, BillingInv, [Next]_vars PROVE BillingInv'
  OBVIOUS
<1>1. TypeOK' /\ RowStep
  BY TypeNext, RowStepNext
<1>2. RowMoves /\ (BilledAtMostOnce /\ SucceededIsBilled /\ StartedHasJob)'
  BY <1>1, RowStepMoves, RowInvNext
<1>3. Flights'
  BY <1>1, <1>2, FlightsNext
<1>4. QED
  BY <1>2, <1>3 DEF Flights, BillingInv

LEMMA BillingInvariant == Spec => []BillingInv
  BY BillingInit, BillingNext, TypeCorrect, PTL DEF Spec

(***************************************************************************)
(* The theorems.                                                           *)
(***************************************************************************)

\* Exactly-once charging: no number of retries, stale batch rows, failing
\* commits and restarts charges a task twice (worker.rs:246, 366).
THEOREM NoDoubleCharge == Spec => []BilledAtMostOnce
<1>1. BillingInv => BilledAtMostOnce
  BY DEF BillingInv
<1>2. QED
  BY <1>1, BillingInvariant, PTL

\* A Succeeded task was charged, and only started tasks are (worker.rs:367).
THEOREM SucceededWasBilled == Spec => []SucceededIsBilled
<1>1. BillingInv => SucceededIsBilled
  BY DEF BillingInv
<1>2. QED
  BY <1>1, BillingInvariant, PTL

\* The in-flight set keeps two routines off the same task (worker.rs:245-246).
THEOREM OneFlightPerTask == Spec => []SingleFlight
<1>1. BillingInv => SingleFlight
  BY DEF BillingInv
<1>2. QED
  BY <1>1, BillingInvariant, PTL

\* No handler, worker or routine overwrites a final status or a vendor id: a
\* cancellation, a time-out and a late result may race, and the first one wins.
THEOREM FinalStaysFinal == Spec => FinalIsFinal
<1>1. TypeOK /\ BillingInv /\ [Next]_vars
      => [\A t \in Task : /\ status[t] \in Final => status'[t] = status[t]
                          /\ vendorTaskId[t] # None => vendorTaskId'[t] = vendorTaskId[t]]_vars
  BY RowStepNext, RowStepMoves DEF RowMoves
<1>2. QED
  BY <1>1, TypeCorrect, BillingInvariant, PTL DEF Spec, FinalIsFinal

LEMMA RowStepRefines ==
  ASSUME TypeOK, BillingInv, RowStep
  PROVE  [Lifecycle!Next]_(Lifecycle!lifecycleVars)
<1> RowTypes
  BY DEF TypeOK
<1> USE DEF Lifecycle!Next, Lifecycle!Accept, Lifecycle!Start, Lifecycle!Succeed, Lifecycle!Fail,
            Lifecycle!Cancel, Lifecycle!Charge, Lifecycle!Move, Lifecycle!lifecycleVars
<1>1. CASE UNCHANGED <<status, vendorTaskId, billed>>
  BY <1>1
<1>2. ASSUME NEW t \in Task, RowAccepted(t) PROVE Lifecycle!Next
  BY <1>2 DEF RowAccepted
<1>3. ASSUME NEW t \in Task, RowStarted(t) PROVE Lifecycle!Next
  BY <1>3 DEF RowStarted, SetRunning
<1>4. ASSUME NEW t \in Task, RowStopped(t) PROVE Lifecycle!Next
  BY <1>4 DEF RowStopped, Open
<1>5. ASSUME NEW t \in Task, RowSucceeded(t) PROVE Lifecycle!Next
  BY <1>5 DEF RowSucceeded
<1>6. ASSUME NEW t \in Task, RowCharged(t) PROVE Lifecycle!Next
  <2>1. status[t] \notin {"Absent", "Queued"}
    BY <1>6 DEF RowCharged, BillingInv, StartedHasJob
  <2>2. QED
    BY <1>6, <2>1 DEF RowCharged
<1>7. QED
  BY <1>1, <1>2, <1>3, <1>4, <1>5, <1>6 DEF RowStep

\* The runtime implements TaskLifecycle: every step of every handler, worker,
\* routine and restart is, seen from /v1/tasks, one legal move of one task, or
\* nothing at all.
THEOREM RefinesLifecycle == Spec => LifecycleSpec
<1>1. Init => Lifecycle!Init
  BY DEF Init, Lifecycle!Init
<1>2. TypeOK /\ BillingInv /\ [Next]_vars => [Lifecycle!Next]_(Lifecycle!lifecycleVars)
  BY RowStepNext, RowStepRefines
<1>3. QED
  BY <1>1, <1>2, TypeCorrect, BillingInvariant, PTL DEF Spec, LifecycleSpec, Lifecycle!Spec

(***************************************************************************)
(* Webhooks.  That "succeeded" goes out at most twice takes counting what   *)
(* may still send it: once the status is final no new row is copied, so a   *)
(* copied row and a routine at work are all that is left.                   *)
(***************************************************************************)

Flying(t) == \E s \in Slot : ppc[s] # "idle" /\ ptask[s] = t

\* The "succeeded" webhooks a task has seen and may still see: one for a routine
\* that works on it, one for a row still in the batch.
OkChances ==
  \A t \in Task : okHooks[t] + (IF t \in batch THEN 1 ELSE 0) + (IF Flying(t) THEN 1 ELSE 0) <= 2

HooksInv == WebhooksAgree /\ OkChances

\* A step of a routine: it goes on, or returns; the others stay.
LEMMA FlyingPoll ==
  ASSUME TypeOK, NEW s \in Slot, PollStep(s)
  PROVE  /\ ppc[s] # "idle" /\ ptask[s] \in Task /\ UNCHANGED loopVars
         /\ \A r \in Slot \ {s} : ppc'[r] = ppc[r] /\ ptask'[r] = ptask[r] /\ pcount'[r] = pcount[r]
         /\ \/ ppc'[s] = "idle"
            \/ ptask'[s] = ptask[s] /\ pcount'[s] = pcount[s]
<1> PollTypes
  BY DEF TypeOK
<1>1. ppc[s] # "idle" /\ UNCHANGED loopVars
  BY DEF PollStep, Poll, Bump, FinalizeFailed, Store, Lookup, Settle, Flip
<1>2. Return(s) \/ \E label : Continue(s, label)
  BY DEF PollStep, Poll, Bump, FinalizeFailed, Store, Lookup, Settle, Flip
<1>3. QED
  BY <1>1, <1>2 DEF Return, Continue, PollTypes

\* What a step may do to the webhook counters of a row.
LEMMA HooksMove ==
  ASSUME TypeOK, BillingInv, [Next]_vars
  PROVE  /\ \/ UNCHANGED failHooks
            \/ \E t \in Task : /\ status[t] \in Open /\ status'[t] = "Failed"
                               /\ failHooks' = [failHooks EXCEPT ![t] = @ + 1]
         /\ \/ UNCHANGED okHooks
            \/ \E s \in Slot : Flip(s) /\ okHooks' = [okHooks EXCEPT ![ptask[s]] = @ + 1]
<1> RowTypes /\ WorkerTypes /\ PollTypes /\ HistoryTypes
  BY DEF TypeOK
<1> DEFINE P == /\ \/ UNCHANGED failHooks
                   \/ \E t \in Task : /\ status[t] \in Open /\ status'[t] = "Failed"
                                      /\ failHooks' = [failHooks EXCEPT ![t] = @ + 1]
                /\ \/ UNCHANGED okHooks
                   \/ \E s \in Slot : Flip(s) /\ okHooks' = [okHooks EXCEPT ![ptask[s]] = @ + 1]
<1>1. ASSUME NEW t \in Task, HandlerStep(t) PROVE P
  BY <1>1 DEF HandlerStep, Insert, Enqueue, Cancel, hookVars
<1>2. ASSUME NEW j \in Job, VendorStep(j) PROVE P
  BY <1>2 DEF VendorStep, UpstreamCancel, VendorFinish, hookVars
<1>3. CASE SweepStep
  BY <1>3 DEF SweepStep, SweepRead, SweepItem, SweepPush, SweepRemove, SweepDone, hookVars
<1>4. ASSUME NEW w \in Worker, WorkerStep(w) PROVE P
  <2>1. CASE SetFailed(w)
    <3>1. wtask[w] \in Task /\ UNCHANGED okHooks
      BY <2>1 DEF SetFailed, WorkerTypes
    <3>2. CASE UNCHANGED failHooks
      BY <3>1, <3>2
    <3>3. CASE /\ status' = [status EXCEPT ![wtask[w]] = IF @ \in Open THEN "Failed" ELSE @]
               /\ failHooks' = [failHooks EXCEPT ![wtask[w]] = IF status[wtask[w]] \in Open THEN @ + 1 ELSE @]
      <4>1. CASE status[wtask[w]] \in Open
        BY <3>1, <3>3, <4>1 DEF RowTypes
      <4>2. CASE status[wtask[w]] \notin Open
        BY <3>1, <3>3, <4>2 DEF HistoryTypes
      <4>3. QED
        BY <4>1, <4>2
    <3>4. QED
      BY <2>1, <3>2, <3>3 DEF SetFailed
  <2>2. CASE ~SetFailed(w)
    BY <1>4, <2>2 DEF WorkerStep, Pop, Check, Submit, Commit, Ack, hookVars
  <2>3. QED
    BY <2>1, <2>2
<1>5. CASE PollerStep
  BY <1>5 DEF PollerStep, PollerRead, PollerSpawn, hookVars
<1>6. ASSUME NEW s \in Slot, PollStep(s) PROVE P
  <2>1. CASE FinalizeFailed(s)
    <3>1. ptask[s] \in Task /\ UNCHANGED okHooks
      BY <2>1 DEF FinalizeFailed, PollTypes
    <3>2. CASE UNCHANGED failHooks
      BY <3>1, <3>2
    <3>3. CASE /\ status' = Finished(ptask[s], "Failed")
               /\ failHooks' = [failHooks EXCEPT ![ptask[s]] = IF status[ptask[s]] = "Running" THEN @ + 1 ELSE @]
      <4>1. CASE status[ptask[s]] = "Running"
        BY <3>1, <3>3, <4>1 DEF RowTypes, Finished, Open
      <4>2. CASE status[ptask[s]] # "Running"
        BY <3>1, <3>3, <4>2 DEF HistoryTypes
      <4>3. QED
        BY <4>1, <4>2
    <3>4. QED
      BY <2>1, <3>2, <3>3 DEF FinalizeFailed
  <2>2. CASE Flip(s)
    <3>1. UNCHANGED failHooks
      BY <2>2 DEF Flip
    <3>2. UNCHANGED okHooks \/ okHooks' = [okHooks EXCEPT ![ptask[s]] = @ + 1]
      BY <2>2 DEF Flip
    <3>3. QED
      BY <2>2, <3>1, <3>2
  <2>3. CASE ~FinalizeFailed(s) /\ ~Flip(s)
    BY <1>6, <2>3 DEF PollStep, Poll, Bump, Store, Lookup, Settle, hookVars
  <2>4. QED
    BY <2>1, <2>2, <2>3
<1>7. CASE Crash
  BY <1>7 DEF Crash, hookVars
<1>8. CASE UNCHANGED vars
  BY <1>8 DEF vars, hookVars
<1>9. QED
  BY <1>1, <1>2, <1>3, <1>4, <1>5, <1>6, <1>7, <1>8 DEF Next

LEMMA FailHooksNext ==
  ASSUME TypeOK, BillingInv, WebhooksAgree, [Next]_vars
  PROVE  \A t \in Task : failHooks'[t] <= 1 /\ (failHooks'[t] > 0 => status'[t] = "Failed")
<1> HistoryTypes
  BY DEF TypeOK
<1>1. RowMoves
  BY RowStepNext, RowStepMoves
<1>2. CASE UNCHANGED failHooks
  BY <1>1, <1>2 DEF WebhooksAgree, RowMoves, Final
<1>3. ASSUME NEW t \in Task, status[t] \in Open, status'[t] = "Failed",
             failHooks' = [failHooks EXCEPT ![t] = @ + 1]
      PROVE  \A u \in Task : failHooks'[u] <= 1 /\ (failHooks'[u] > 0 => status'[u] = "Failed")
  <2>1. failHooks[t] = 0
    BY <1>3 DEF WebhooksAgree, HistoryTypes, Open
  <2>2. failHooks'[t] = 1
    BY <1>3, <2>1 DEF HistoryTypes
  <2>3. \A u \in Task \ {t} : failHooks'[u] = failHooks[u]
    BY <1>3 DEF HistoryTypes
  <2>4. QED
    BY <1>1, <1>3, <2>2, <2>3 DEF WebhooksAgree, RowMoves, Final
<1>4. QED
  BY <1>2, <1>3, HooksMove

LEMMA OkHooksFinal ==
  ASSUME TypeOK, BillingInv, WebhooksAgree, [Next]_vars
  PROVE  \A t \in Task : okHooks'[t] > 0 => billed'[t] = 1 /\ status'[t] \in Final
<1> HistoryTypes /\ RowTypes /\ PollTypes
  BY DEF TypeOK
<1>1. RowMoves
  BY RowStepNext, RowStepMoves
<1>2. CASE UNCHANGED okHooks
  BY <1>1, <1>2 DEF WebhooksAgree, RowMoves
<1>3. ASSUME NEW s \in Slot, Flip(s), okHooks' = [okHooks EXCEPT ![ptask[s]] = @ + 1]
      PROVE  \A t \in Task : okHooks'[t] > 0 => billed'[t] = 1 /\ status'[t] \in Final
  <2>1. ptask[s] \in Task /\ billed[ptask[s]] = 1 /\ vendorTaskId[ptask[s]] # None
    BY <1>3 DEF Flip, PollTypes, BillingInv, FlightsKnow, FlightsStarted
  <2>2. status[ptask[s]] \in {"Running"} \cup Final
    BY <2>1 DEF BillingInv, StartedHasJob, RowTypes, Status, Open
  <2>3. status' = status \/ status' = Finished(ptask[s], "Succeeded")
    BY <1>3 DEF Flip
  <2>4. okHooks' # okHooks
    BY <1>3, <2>1 DEF HistoryTypes
  <2>5. status' = Finished(ptask[s], "Succeeded")
    BY <1>3, <2>4 DEF Flip
  <2>6. status'[ptask[s]] \in Final
    BY <2>1, <2>2, <2>5 DEF Finished, RowTypes, Final
  <2>7. QED
    BY <1>1, <1>3, <2>1, <2>6 DEF WebhooksAgree, RowMoves, HistoryTypes
<1>4. QED
  BY <1>2, <1>3, HooksMove

LEMMA OkChancesNext ==
  ASSUME TypeOK, TypeOK', BillingInv, HooksInv, [Next]_vars
  PROVE  OkChances'
<1> HistoryTypes /\ RowTypes /\ PollTypes /\ PollTypes' /\ HistoryTypes'
  BY DEF TypeOK
<1>1. ASSUME UNCHANGED <<okHooks, batch, ppc, ptask>> PROVE OkChances'
  BY <1>1 DEF HooksInv, OkChances, Flying
<1>2. ASSUME NEW t \in Task, HandlerStep(t) PROVE OkChances'
  BY <1>1, <1>2 DEF HandlerStep, Insert, Enqueue, Cancel, hookVars, loopVars, pollVars
<1>3. ASSUME NEW j \in Job, VendorStep(j) PROVE OkChances'
  BY <1>1, <1>3 DEF VendorStep, UpstreamCancel, VendorFinish, hookVars, loopVars, pollVars
<1>4. CASE SweepStep
  BY <1>1, <1>4 DEF SweepStep, SweepRead, SweepItem, SweepPush, SweepRemove, SweepDone, hookVars, loopVars, pollVars
<1>5. ASSUME NEW w \in Worker, WorkerStep(w) PROVE OkChances'
  BY <1>1, <1>5 DEF WorkerStep, Pop, Check, Submit, Commit, SetFailed, Ack, hookVars, loopVars, pollVars
<1>6. CASE Crash
  <2>1. \A t \in Task : t \notin batch' /\ ~Flying(t)' /\ okHooks'[t] = okHooks[t]
    BY <1>6 DEF Crash, Flying, hookVars
  <2>2. QED
    BY <2>1 DEF HooksInv, WebhooksAgree, OkChances, HistoryTypes
<1>7. CASE PollerRead
  <2>1. UNCHANGED <<okHooks, ppc, ptask>> /\ \A t \in batch' : status[t] = "Running"
    BY <1>7 DEF PollerRead, Running, hookVars, pollVars
  <2>2. \A t \in Task : Flying(t)' <=> Flying(t)
    BY <2>1 DEF Flying
  <2>3. \A t \in batch' : okHooks[t] = 0
    BY <2>1 DEF HooksInv, WebhooksAgree, Final, HistoryTypes, PollTypes
  <2>4. QED
    BY <2>1, <2>2, <2>3 DEF HooksInv, OkChances, HistoryTypes
<1>8. ASSUME NEW t \in Task, PollerSpawn(t) PROVE OkChances'
  <2>1. UNCHANGED okHooks /\ t \in batch /\ batch' = batch \ {t}
    BY <1>8 DEF PollerSpawn, hookVars
  <2>2. CASE UNCHANGED pollVars
    <3>1. \A u \in Task : Flying(u)' <=> Flying(u)
      BY <2>2 DEF Flying, pollVars
    <3>2. QED
      BY <2>1, <3>1 DEF HooksInv, OkChances, HistoryTypes
  <2>3. ASSUME NEW s \in Slot, t \notin active, ppc[s] = "idle",
               ppc' = [ppc EXCEPT ![s] = "poll"], ptask' = [ptask EXCEPT ![s] = t]
        PROVE  OkChances'
    <3>1. ~Flying(t)
      BY <2>3 DEF Flying, BillingInv, FlightsActive
    <3>2. \A u \in Task \ {t} : Flying(u)' => Flying(u)
      BY <2>3 DEF Flying, PollTypes
    <3>3. QED
      BY <2>1, <3>1, <3>2 DEF HooksInv, OkChances, HistoryTypes
  <2>4. QED
    BY <1>8, <2>2, <2>3 DEF PollerSpawn
<1>9. ASSUME NEW s \in Slot, PollStep(s) PROVE OkChances'
  <2>1. /\ ppc[s] # "idle" /\ ptask[s] \in Task /\ UNCHANGED loopVars
        /\ \A r \in Slot \ {s} : ppc'[r] = ppc[r] /\ ptask'[r] = ptask[r]
        /\ ppc'[s] = "idle" \/ ptask'[s] = ptask[s]
    BY <1>9, FlyingPoll
  <2>2. \A u \in Task : Flying(u)' => Flying(u)
    BY <2>1 DEF Flying
  <2>3. CASE UNCHANGED okHooks
    BY <2>1, <2>2, <2>3 DEF HooksInv, OkChances, loopVars, HistoryTypes
  <2>4. CASE Flip(s) /\ okHooks' = [okHooks EXCEPT ![ptask[s]] = @ + 1]
    <3>1. ppc'[s] = "idle"
      BY <2>4 DEF Flip, Return, PollTypes
    <3>2. \A u \in Task : u = ptask[s] => Flying(u) /\ ~Flying(u)'
      BY <2>1, <3>1 DEF Flying, BillingInv, SingleFlight
    <3>3. \A u \in Task \ {ptask[s]} : okHooks'[u] = okHooks[u]
      BY <2>4 DEF HistoryTypes
    <3>4. okHooks'[ptask[s]] = okHooks[ptask[s]] + 1
      BY <2>1, <2>4 DEF HistoryTypes
    <3>5. ASSUME NEW u \in Task
          PROVE  okHooks'[u] + (IF u \in batch' THEN 1 ELSE 0) + (IF Flying(u)' THEN 1 ELSE 0) <= 2
      <4>1. okHooks[u] + (IF u \in batch THEN 1 ELSE 0) + (IF Flying(u) THEN 1 ELSE 0) <= 2
        BY DEF HooksInv, OkChances
      <4>2. batch' = batch /\ okHooks[u] \in Nat
        BY <2>1 DEF loopVars, HistoryTypes
      <4>3. CASE u = ptask[s]
        BY <3>2, <3>4, <4>1, <4>2, <4>3
      <4>4. CASE u # ptask[s]
        BY <2>2, <3>3, <4>1, <4>2, <4>4
      <4>5. QED
        BY <4>3, <4>4
    <3>6. QED
      BY <3>5 DEF OkChances
  <2>5. UNCHANGED okHooks \/ (Flip(s) /\ okHooks' = [okHooks EXCEPT ![ptask[s]] = @ + 1])
    <3>1. CASE Flip(s)
      <4>1. UNCHANGED okHooks \/ okHooks' = [okHooks EXCEPT ![ptask[s]] = @ + 1]
        BY <3>1 DEF Flip
      <4>2. QED
        BY <3>1, <4>1
    <3>2. CASE ~Flip(s)
      <4>1. UNCHANGED okHooks
        BY <1>9, <3>2 DEF PollStep, Poll, Bump, FinalizeFailed, Store, Lookup, Settle, hookVars
      <4>2. QED
        BY <4>1
    <3>3. QED
      BY <3>1, <3>2
  <2>6. QED
    BY <2>3, <2>4, <2>5
<1>10. CASE UNCHANGED vars
  BY <1>1, <1>10 DEF vars, hookVars, loopVars, pollVars
<1>11. QED
  BY <1>2, <1>3, <1>4, <1>5, <1>6, <1>7, <1>8, <1>9, <1>10 DEF Next, PollerStep

LEMMA HooksInit == Init => HooksInv
  BY DEF Init, HooksInv, WebhooksAgree, OkChances, Flying

LEMMA HooksNext == TypeOK /\ BillingInv /\ HooksInv /\ [Next]_vars => HooksInv'
<1> SUFFICES ASSUME TypeOK, BillingInv, HooksInv, [Next]_vars PROVE HooksInv'
  OBVIOUS
<1>1. TypeOK' /\ WebhooksAgree
  BY TypeNext DEF HooksInv
<1>2. OkChances'
  BY <1>1, OkChancesNext
<1>3. \A t \in Task : okHooks'[t] <= 2
  BY <1>1, <1>2 DEF OkChances, TypeOK, HistoryTypes
<1>4. QED
  BY <1>1, <1>2, <1>3, FailHooksNext, OkHooksFinal DEF HooksInv, WebhooksAgree

\* What webhooks tell a client stays true: "failed" once and only of a task that
\* stays Failed, whichever of worker, routine and cancel came first; "succeeded"
\* only of a charged task in a final status, and at most twice, since Flip sends
\* it however many rows its update changed.
THEOREM HooksTellTheTruth == Spec => []WebhooksAgree
<1>1. HooksInv => WebhooksAgree
  BY DEF HooksInv
<1>2. QED
  BY <1>1, HooksInit, HooksNext, TypeCorrect, BillingInvariant, PTL DEF Spec

(***************************************************************************)
(* The poll budget.  The time-out is decided on a copied poll_count, so the *)
(* bound holds only because a copy is never more than one poll behind.      *)
(***************************************************************************)

\* A copied row is at most one poll behind, and exact while the routine that
\* may still count that poll is at work.
CopiesFresh ==
  \A t \in batch : /\ pollCount[t] <= batchCount[t] + 1
                   /\ Flying(t) => pollCount[t] <= batchCount[t]

FlightsFresh ==
  \A s \in Slot : /\ ppc[s] # "idle" => pollCount[ptask[s]] <= pcount[s] + 1
                  /\ ppc[s] = "bump" => pcount[s] + 2 <= PollMax

BudgetInv == PollBudget /\ CopiesFresh /\ FlightsFresh

LEMMA BudgetQuiet ==
  ASSUME BudgetInv, UNCHANGED <<pollCount, batch, batchCount, ppc, ptask, pcount>>
  PROVE  BudgetInv'
  BY DEF BudgetInv, PollBudget, CopiesFresh, FlightsFresh, Flying

\* Only Bump counts.
LEMMA CountMoves ==
  ASSUME TypeOK, NEW s \in Slot, PollStep(s)
  PROVE  \/ UNCHANGED pollCount
         \/ /\ ppc[s] = "bump" /\ ppc'[s] = "idle"
            /\ pollCount' = [pollCount EXCEPT ![ptask[s]] = @ + 1]
<1> RowTypes /\ PollTypes
  BY DEF TypeOK
<1>1. CASE Bump(s)
  <2>1. ppc[s] = "bump" /\ ppc'[s] = "idle" /\ ptask[s] \in Task
    BY <1>1 DEF Bump, Return, PollTypes
  <2>2. UNCHANGED pollCount \/ pollCount' = Counted(ptask[s])
    BY <1>1 DEF Bump
  <2>3. CASE status[ptask[s]] = "Running"
    BY <2>1, <2>2, <2>3
  <2>4. CASE status[ptask[s]] # "Running"
    BY <2>1, <2>2, <2>4 DEF RowTypes
  <2>5. QED
    BY <2>3, <2>4
<1>2. CASE ~Bump(s)
  <2>1. UNCHANGED pollCount
    BY <1>2 DEF PollStep, Poll, FinalizeFailed, Store, Lookup, Settle, Flip, rowVars
  <2>2. QED
    BY <2>1
<1>3. QED
  BY <1>1, <1>2

\* A routine starts counting only when the time-out is two polls away.
LEMMA BumpInTime ==
  ASSUME TypeOK, NEW s \in Slot, PollStep(s), ppc'[s] = "bump"
  PROVE  pcount[s] + 2 <= PollMax
<1> PollTypes
  BY DEF TypeOK
<1>1. Poll(s)
  BY DEF PollStep, Bump, FinalizeFailed, Store, Lookup, Settle, Flip, Return, Continue, PollTypes
<1>2. Continue(s, PollOutcome(s))
  BY <1>1 DEF Poll, Return, Continue, PollTypes
<1>3. PollOutcome(s) = "bump"
  BY <1>2 DEF Continue, PollTypes
<1>4. ~TimedOut(s)
  BY <1>3 DEF PollOutcome
<1>5. QED
  BY <1>4, RuntimeAssumption DEF PollTypes

LEMMA BudgetPoll ==
  ASSUME TypeOK, BillingInv, BudgetInv, NEW s \in Slot, PollStep(s)
  PROVE  BudgetInv'
<1> RowTypes /\ PollTypes
  BY DEF TypeOK
<1>1. /\ ppc[s] # "idle" /\ ptask[s] \in Task /\ batch' = batch /\ batchCount' = batchCount
      /\ \A r \in Slot \ {s} : ppc'[r] = ppc[r] /\ ptask'[r] = ptask[r] /\ pcount'[r] = pcount[r]
      /\ \/ ppc'[s] = "idle"
         \/ ptask'[s] = ptask[s] /\ pcount'[s] = pcount[s]
  BY FlyingPoll DEF loopVars
<1>2. \A u \in Task : Flying(u)' => Flying(u)
  BY <1>1 DEF Flying
<1>3. ppc'[s] = "bump" => pcount[s] + 2 <= PollMax
  BY BumpInTime
<1>4. CASE UNCHANGED pollCount
  <2>1. PollBudget' /\ CopiesFresh'
    BY <1>1, <1>2, <1>4 DEF BudgetInv, PollBudget, CopiesFresh, PollTypes
  <2>2. FlightsFresh'
    BY <1>1, <1>3, <1>4 DEF BudgetInv, FlightsFresh
  <2>3. QED
    BY <2>1, <2>2 DEF BudgetInv
<1>5. CASE /\ ppc[s] = "bump" /\ ppc'[s] = "idle"
           /\ pollCount' = [pollCount EXCEPT ![ptask[s]] = @ + 1]
  <2>1. pollCount'[ptask[s]] = pollCount[ptask[s]] + 1
    BY <1>1, <1>5 DEF RowTypes
  <2>2. \A u \in Task \ {ptask[s]} : pollCount'[u] = pollCount[u]
    BY <1>5 DEF RowTypes
  <2>3. PollBudget'
    <3>1. pollCount[ptask[s]] <= pcount[s] + 1 /\ pcount[s] + 2 <= PollMax
      BY <1>1, <1>5 DEF BudgetInv, FlightsFresh
    <3>2. pollCount[ptask[s]] \in Nat /\ pcount[s] \in Nat /\ PollMax \in Nat
      BY <1>1, RuntimeAssumption DEF RowTypes, PollTypes
    <3>3. pollCount'[ptask[s]] <= PollMax
      BY <2>1, <3>1, <3>2
    <3>4. QED
      BY <2>2, <3>3 DEF BudgetInv, PollBudget
  <2>4. \A u \in Task : u = ptask[s] => Flying(u) /\ ~Flying(u)'
    BY <1>1, <1>5 DEF Flying, BillingInv, SingleFlight
  <2>5. CopiesFresh'
    <3> SUFFICES ASSUME NEW t \in batch
                 PROVE  /\ pollCount'[t] <= batchCount[t] + 1
                        /\ Flying(t)' => pollCount'[t] <= batchCount[t]
      BY <1>1 DEF CopiesFresh
    <3>1. t \in Task
      BY DEF PollTypes
    <3>2. /\ pollCount[t] <= batchCount[t] + 1
          /\ Flying(t) => pollCount[t] <= batchCount[t]
      BY DEF BudgetInv, CopiesFresh
    <3>3. CASE t = ptask[s]
      BY <2>1, <2>4, <3>1, <3>2, <3>3 DEF RowTypes, PollTypes
    <3>4. CASE t # ptask[s]
      BY <1>2, <2>2, <3>1, <3>2, <3>4
    <3>5. QED
      BY <3>3, <3>4
  <2>6. FlightsFresh'
    <3>1. \A r \in Slot \ {s} : ppc[r] # "idle" => ptask[r] \in Task \ {ptask[s]}
      BY <1>1 DEF BillingInv, SingleFlight, PollTypes
    <3>2. QED
      BY <1>1, <1>5, <2>2, <3>1 DEF BudgetInv, FlightsFresh
  <2>7. QED
    BY <2>3, <2>5, <2>6 DEF BudgetInv
<1>6. QED
  BY <1>4, <1>5, CountMoves

LEMMA BudgetPoller ==
  ASSUME TypeOK, BillingInv, BudgetInv, PollerStep
  PROVE  BudgetInv'
<1> RowTypes /\ PollTypes
  BY DEF TypeOK
<1>1. UNCHANGED pollCount
  BY DEF PollerStep, PollerRead, PollerSpawn, rowVars
<1>2. CASE PollerRead
  <2>1. /\ UNCHANGED <<ppc, ptask, pcount>> /\ batch' \subseteq Task
        /\ batchCount' = [t \in Task |-> IF t \in batch' THEN pollCount[t] ELSE 0]
    BY <1>2 DEF PollerRead, Running, pollVars
  <2>2. CopiesFresh'
    BY <1>1, <2>1 DEF CopiesFresh, RowTypes
  <2>3. QED
    BY <1>1, <2>1, <2>2 DEF BudgetInv, PollBudget, FlightsFresh
<1>3. ASSUME NEW t \in Task, PollerSpawn(t) PROVE BudgetInv'
  <2>1. t \in batch /\ batch' = batch \ {t} /\ batchCount' = [batchCount EXCEPT ![t] = 0]
    BY <1>3 DEF PollerSpawn
  <2>2. \A u \in batch' : u \in batch /\ batchCount'[u] = batchCount[u]
    BY <2>1 DEF PollTypes
  <2>3. CASE UNCHANGED pollVars
    BY <1>1, <2>2, <2>3 DEF BudgetInv, PollBudget, CopiesFresh, FlightsFresh, Flying, pollVars
  <2>4. ASSUME NEW s \in Slot, ppc[s] = "idle", ppc' = [ppc EXCEPT ![s] = "poll"],
               ptask' = [ptask EXCEPT ![s] = t], pcount' = [pcount EXCEPT ![s] = batchCount[t]]
        PROVE  BudgetInv'
    <3>1. ppc'[s] = "poll" /\ ptask'[s] = t /\ pcount'[s] = batchCount[t]
      BY <2>4 DEF PollTypes
    <3>2. \A r \in Slot \ {s} : ppc'[r] = ppc[r] /\ ptask'[r] = ptask[r] /\ pcount'[r] = pcount[r]
      BY <2>4 DEF PollTypes
    <3>3. \A u \in Task \ {t} : Flying(u)' => Flying(u)
      BY <3>1, <3>2 DEF Flying
    <3>4. CopiesFresh'
      BY <1>1, <2>1, <2>2, <3>3 DEF BudgetInv, CopiesFresh, PollTypes
    <3>5. FlightsFresh'
      BY <1>1, <2>1, <3>1, <3>2 DEF BudgetInv, CopiesFresh, FlightsFresh
    <3>6. QED
      BY <1>1, <3>4, <3>5 DEF BudgetInv, PollBudget
  <2>5. QED
    BY <1>3, <2>3, <2>4 DEF PollerSpawn
<1>4. QED
  BY <1>2, <1>3 DEF PollerStep

LEMMA BudgetInit == Init => BudgetInv
  BY RuntimeAssumption DEF Init, BudgetInv, PollBudget, CopiesFresh, FlightsFresh

LEMMA BudgetNext == TypeOK /\ BillingInv /\ BudgetInv /\ [Next]_vars => BudgetInv'
<1> SUFFICES ASSUME TypeOK, BillingInv, BudgetInv, [Next]_vars PROVE BudgetInv'
  OBVIOUS
<1>1. ASSUME NEW t \in Task, HandlerStep(t) PROVE BudgetInv'
  BY <1>1, BudgetQuiet DEF HandlerStep, Insert, Enqueue, Cancel, rowVars, loopVars, pollVars
<1>2. ASSUME NEW j \in Job, VendorStep(j) PROVE BudgetInv'
  BY <1>2, BudgetQuiet DEF VendorStep, UpstreamCancel, VendorFinish, rowVars, loopVars, pollVars
<1>3. CASE SweepStep
  BY <1>3, BudgetQuiet DEF SweepStep, SweepRead, SweepItem, SweepPush, SweepRemove, SweepDone, rowVars, loopVars, pollVars
<1>4. ASSUME NEW w \in Worker, WorkerStep(w) PROVE BudgetInv'
  BY <1>4, BudgetQuiet DEF WorkerStep, Pop, Check, Submit, Commit, SetFailed, Ack, rowVars, loopVars, pollVars
<1>5. CASE Crash
  BY <1>5 DEF Crash, BudgetInv, PollBudget, CopiesFresh, FlightsFresh, rowVars
<1>6. CASE UNCHANGED vars
  BY <1>6, BudgetQuiet DEF vars, rowVars, loopVars, pollVars
<1>7. QED
  BY <1>1, <1>2, <1>3, <1>4, <1>5, <1>6, BudgetPoll, BudgetPoller DEF Next

\* poll_count never passes POLL_MAX: the routine that would make it so saw the
\* time-out coming, even from a row copied before the previous routine counted.
THEOREM PollsStayInBudget == Spec => []PollBudget
<1>1. BudgetInv => PollBudget
  BY DEF BudgetInv
<1>2. QED
  BY <1>1, BudgetInit, BudgetNext, TypeCorrect, BillingInvariant, PTL DEF Spec

(***************************************************************************)
(* Vendor jobs.  A cancel may land while the vendor's answer is on its way: *)
(* the job is then known to the worker alone, and must reach either the row *)
(* of a task that is not Cancelled or the list of upstream cancellations.   *)
(***************************************************************************)

\* A job has a task from the moment the vendor creates it, and the worker that
\* holds its id holds that task.
JobsMade ==
  /\ \A j \in Job : upstream[j] = "unused" <=> jobTask[j] = None
  /\ \A w \in Worker : wpc[w] = "commit" => jobTask[wjob[w]] = wtask[w]

\* While nothing fails, a job that runs is known to someone.
JobsKnown ==
  crashes + faults = 0 =>
    \A j \in Job : upstream[j] = "running" =>
      \/ j \in cancels
      \/ \E w \in Worker : wpc[w] = "commit" /\ wjob[w] = j
      \/ vendorTaskId[jobTask[j]] = j /\ status[jobTask[j]] # "Cancelled"

JobsInv == JobsMade /\ JobsKnown

LEMMA JobsInit == Init => JobsInv
  BY DEF Init, JobsInv, JobsMade, JobsKnown

\* A sum of two counters is zero only when both are.
LEMMA NoneOfEither == \A m, n \in Nat : m + n = 0 => m = 0 /\ n = 0
  OBVIOUS

\* While nothing fails, nothing has failed.
LEMMA FailuresCount ==
  ASSUME TypeOK, TypeOK', [Next]_vars, crashes' + faults' = 0
  PROVE  crashes + faults = 0 /\ UNCHANGED <<crashes, faults>>
<1> HistoryTypes /\ HistoryTypes'
  BY DEF TypeOK
<1>1. crashes \in Nat /\ faults \in Nat /\ crashes' \in Nat /\ faults' \in Nat
  BY DEF HistoryTypes
<1>2. crashes' >= crashes /\ faults' >= faults
  <2> USE DEF HistoryTypes, Fault
  <2>1. ASSUME NEW t \in Task, HandlerStep(t) PROVE crashes' >= crashes /\ faults' >= faults
    BY <2>1 DEF HandlerStep, Insert, Enqueue, Cancel
  <2>2. ASSUME NEW j \in Job, VendorStep(j) PROVE crashes' >= crashes /\ faults' >= faults
    BY <2>2 DEF VendorStep, UpstreamCancel, VendorFinish
  <2>3. CASE SweepStep
    BY <2>3 DEF SweepStep, SweepRead, SweepItem, SweepPush, SweepRemove, SweepDone
  <2>4. ASSUME NEW w \in Worker, WorkerStep(w) PROVE crashes' >= crashes /\ faults' >= faults
    BY <2>4 DEF WorkerStep, Pop, Check, Submit, Commit, SetFailed, Ack
  <2>5. CASE PollerStep
    BY <2>5 DEF PollerStep, PollerRead, PollerSpawn
  <2>6. ASSUME NEW s \in Slot, PollStep(s) PROVE crashes' >= crashes /\ faults' >= faults
    BY <2>6 DEF PollStep, Poll, Bump, FinalizeFailed, Store, Lookup, Settle, Flip
  <2>7. CASE Crash
    BY <2>7 DEF Crash
  <2>8. CASE UNCHANGED vars
    BY <2>8 DEF vars
  <2>9. QED
    BY <2>1, <2>2, <2>3, <2>4, <2>5, <2>6, <2>7, <2>8 DEF Next
<1>3. crashes' = 0 /\ faults' = 0
  BY <1>1, NoneOfEither
<1>4. crashes = 0 /\ faults = 0
  BY <1>1, <1>2, <1>3
<1>5. QED
  BY <1>3, <1>4

\* Nothing a job depends on moves.
LEMMA JobsQuiet ==
  ASSUME TypeOK, TypeOK', [Next]_vars, JobsInv, UNCHANGED <<vendorVars, workerVars>>,
         cancels \subseteq cancels' \/ crashes' > 0,
         \A t \in Task : vendorTaskId[t] # None
                         => vendorTaskId'[t] = vendorTaskId[t] /\ (status'[t] = "Cancelled" => status[t] = "Cancelled")
  PROVE  JobsInv'
<1> RowTypes /\ VendorTypes /\ HistoryTypes /\ HistoryTypes'
  BY DEF TypeOK
<1>1. JobsMade'
  BY DEF JobsInv, JobsMade, vendorVars, workerVars
<1>2. ASSUME crashes' + faults' = 0, NEW j \in Job, upstream[j] = "running"
      PROVE  \/ j \in cancels'
             \/ \E w \in Worker : wpc[w] = "commit" /\ wjob[w] = j
             \/ vendorTaskId'[jobTask[j]] = j /\ status'[jobTask[j]] # "Cancelled"
  <2>1. crashes + faults = 0 /\ crashes' = crashes
    BY <1>2, FailuresCount
  <2>2. cancels \subseteq cancels'
    BY <2>1, <1>2, NoneOfEither DEF HistoryTypes
  <2>3. jobTask[j] \in Task
    BY <1>2 DEF JobsInv, JobsMade, VendorTypes
  <2>4. j # None
    BY RuntimeAssumption
  <2>5. QED
    BY <1>2, <2>1, <2>2, <2>3, <2>4 DEF JobsInv, JobsKnown
<1>3. JobsKnown'
  BY <1>2 DEF JobsKnown, vendorVars, workerVars
<1>4. QED
  BY <1>1, <1>3 DEF JobsInv

LEMMA JobsCancel ==
  ASSUME TypeOK, TypeOK', [Next]_vars, JobsInv, NEW t \in Task, Cancel(t)
  PROVE  JobsInv'
<1> RowTypes /\ VendorTypes /\ HistoryTypes
  BY DEF TypeOK
<1>1. /\ UNCHANGED <<vendorTaskId, vendorVars, workerVars>>
      /\ status' = [status EXCEPT ![t] = "Cancelled"]
      /\ \/ cancels' = cancels \cup ({vendorTaskId[t]} \ {None})
         \/ faults' = faults + 1
  BY DEF Cancel, Fault
<1>2. JobsMade'
  BY <1>1 DEF JobsInv, JobsMade, vendorVars, workerVars
<1>3. ASSUME crashes' + faults' = 0, NEW j \in Job, upstream[j] = "running"
      PROVE  \/ j \in cancels'
             \/ \E w \in Worker : wpc[w] = "commit" /\ wjob[w] = j
             \/ vendorTaskId[jobTask[j]] = j /\ status'[jobTask[j]] # "Cancelled"
  <2>1. crashes + faults = 0 /\ faults' = faults
    BY <1>3, FailuresCount
  <2>2. cancels' = cancels \cup ({vendorTaskId[t]} \ {None})
    BY <1>1, <2>1 DEF HistoryTypes
  <2>3. jobTask[j] \in Task /\ j # None
    BY <1>3, RuntimeAssumption DEF JobsInv, JobsMade, VendorTypes
  <2>4. CASE jobTask[j] = t
    BY <1>1, <1>3, <2>1, <2>2, <2>3, <2>4 DEF JobsInv, JobsKnown
  <2>5. CASE jobTask[j] # t
    BY <1>1, <1>3, <2>1, <2>2, <2>3, <2>5 DEF JobsInv, JobsKnown, RowTypes
  <2>6. QED
    BY <2>4, <2>5
<1>4. JobsKnown'
  BY <1>1, <1>3 DEF JobsKnown, vendorVars, workerVars
<1>5. QED
  BY <1>2, <1>4 DEF JobsInv

LEMMA JobsVendor ==
  ASSUME TypeOK, TypeOK', [Next]_vars, JobsInv, NEW i \in Job, VendorStep(i)
  PROVE  JobsInv'
<1> RowTypes /\ VendorTypes /\ HistoryTypes
  BY DEF TypeOK
<1>1. UNCHANGED <<rowVars, jobTask, workerVars>>
  BY DEF VendorStep, UpstreamCancel, VendorFinish
<1>2. \A j \in Job : /\ upstream'[j] = "unused" <=> upstream[j] = "unused"
                     /\ upstream'[j] = "running" => upstream[j] = "running"
  BY DEF VendorStep, UpstreamCancel, VendorFinish, VendorTypes
<1>3. \/ UNCHANGED cancels
      \/ faults' = faults + 1
      \/ cancels' = cancels \ {i} /\ (upstream'[i] # "running")
  BY DEF VendorStep, UpstreamCancel, VendorFinish, VendorTypes, Fault
<1>4. JobsMade'
  BY <1>1, <1>2 DEF JobsInv, JobsMade, workerVars, VendorTypes
<1>5. ASSUME crashes' + faults' = 0, NEW j \in Job, upstream'[j] = "running"
      PROVE  \/ j \in cancels'
             \/ \E w \in Worker : wpc[w] = "commit" /\ wjob[w] = j
             \/ vendorTaskId[jobTask[j]] = j /\ status[jobTask[j]] # "Cancelled"
  <2>1. crashes + faults = 0 /\ faults' = faults
    BY <1>5, FailuresCount
  <2>2. j \in cancels => j \in cancels'
    BY <1>3, <1>5, <2>1 DEF HistoryTypes
  <2>3. QED
    BY <1>2, <1>5, <2>1, <2>2 DEF JobsInv, JobsKnown
<1>6. JobsKnown'
  BY <1>1, <1>5 DEF JobsKnown, rowVars, workerVars
<1>7. QED
  BY <1>4, <1>6 DEF JobsInv

\* The vendor makes a job for the task of a worker, and its id arrives or is lost.
LEMMA JobsSubmit ==
  ASSUME TypeOK, TypeOK', [Next]_vars, JobsInv, NEW w \in Worker, Submit(w)
  PROVE  JobsInv'
<1> RowTypes /\ VendorTypes /\ WorkerTypes /\ WorkerTypes' /\ HistoryTypes
  BY DEF TypeOK
<1>1. UNCHANGED <<rowVars, cancels, wtask>> /\ wpc[w] = "submit" /\ wtask[w] \in Task
  BY DEF Submit, WorkerTypes
<1>2. CASE UNCHANGED <<vendorVars, wjob>> /\ wpc' = [wpc EXCEPT ![w] = "fail"]
  <2>1. \A v \in Worker : wpc'[v] = "commit" <=> wpc[v] = "commit"
    BY <1>1, <1>2 DEF WorkerTypes
  <2>2. JobsMade'
    BY <1>1, <1>2, <2>1 DEF JobsInv, JobsMade, vendorVars
  <2>3. JobsKnown'
    <3> SUFFICES ASSUME crashes' + faults' = 0, NEW j \in Job, upstream[j] = "running"
                 PROVE  \/ j \in cancels
                        \/ \E v \in Worker : wpc'[v] = "commit" /\ wjob[v] = j
                        \/ vendorTaskId[jobTask[j]] = j /\ status[jobTask[j]] # "Cancelled"
      BY <1>1, <1>2 DEF JobsKnown, vendorVars, rowVars
    <3>1. crashes + faults = 0
      BY FailuresCount
    <3>2. QED
      BY <2>1, <3>1 DEF JobsInv, JobsKnown
  <2>4. QED
    BY <2>2, <2>3 DEF JobsInv
<1>3. ASSUME NEW i \in Job, upstream[i] = "unused",
             upstream' = [upstream EXCEPT ![i] = "running"],
             jobTask' = [jobTask EXCEPT ![i] = wtask[w]],
             \/ wpc' = [wpc EXCEPT ![w] = "commit"] /\ wjob' = [wjob EXCEPT ![w] = i]
             \/ wpc' = [wpc EXCEPT ![w] = "fail"] /\ wjob' = wjob /\ faults' = faults + 1
      PROVE  JobsInv'
  <2>1. \A v \in Worker \ {w} : wpc'[v] = wpc[v] /\ wjob'[v] = wjob[v]
    BY <1>3 DEF WorkerTypes
  <2>2. \/ wpc'[w] = "commit" /\ wjob'[w] = i
        \/ wpc'[w] = "fail" /\ faults' = faults + 1
    BY <1>3 DEF WorkerTypes
  <2>3. /\ upstream'[i] = "running" /\ jobTask'[i] = wtask[w]
        /\ \A j \in Job \ {i} : upstream'[j] = upstream[j] /\ jobTask'[j] = jobTask[j]
    BY <1>3 DEF VendorTypes
  <2>4. \A v \in Worker \ {w} : wpc[v] = "commit" => wjob[v] \in Job \ {i}
    <3> SUFFICES ASSUME NEW v \in Worker \ {w}, wpc[v] = "commit", wjob[v] = i PROVE FALSE
      BY DEF WorkerTypes
    <3>1. jobTask[i] = None /\ jobTask[i] = wtask[v] /\ wtask[v] \in Task
      BY <1>3 DEF JobsInv, JobsMade, WorkerTypes
    <3>2. QED
      BY <3>1, RuntimeAssumption
  <2>5. JobsMade'
    <3>1. \A j \in Job : upstream'[j] = "unused" <=> jobTask'[j] = None
      BY <1>1, <2>3, RuntimeAssumption DEF JobsInv, JobsMade
    <3>2. \A v \in Worker : wpc'[v] = "commit" => jobTask'[wjob'[v]] = wtask'[v]
      BY <1>1, <2>1, <2>2, <2>3, <2>4 DEF JobsInv, JobsMade
    <3>3. QED
      BY <3>1, <3>2 DEF JobsMade
  <2>6. JobsKnown'
    <3> SUFFICES ASSUME crashes' + faults' = 0, NEW j \in Job, upstream'[j] = "running"
                 PROVE  \/ j \in cancels
                        \/ \E v \in Worker : wpc'[v] = "commit" /\ wjob'[v] = j
                        \/ vendorTaskId[jobTask'[j]] = j /\ status[jobTask'[j]] # "Cancelled"
      BY <1>1 DEF JobsKnown, rowVars
    <3>1. crashes + faults = 0 /\ faults' = faults
      BY FailuresCount
    <3>2. wpc'[w] = "commit" /\ wjob'[w] = i
      BY <2>2, <3>1 DEF HistoryTypes
    <3>3. CASE j = i
      BY <3>2, <3>3
    <3>4. CASE j # i
      BY <1>1, <2>1, <2>3, <3>1, <3>4 DEF JobsInv, JobsKnown
    <3>5. QED
      BY <3>3, <3>4
  <2>7. QED
    BY <2>5, <2>6 DEF JobsInv
<1>4. QED
  BY <1>2, <1>3 DEF Submit, Goto, Fault

\* Commit writes the job's id into the row of its task, or cancels the job.
LEMMA JobsCommit ==
  ASSUME TypeOK, TypeOK', [Next]_vars, BillingInv, JobsInv, NEW w \in Worker, Commit(w)
  PROVE  JobsInv'
<1> RowTypes /\ VendorTypes /\ WorkerTypes /\ HistoryTypes
  BY DEF TypeOK
<1>1. /\ UNCHANGED <<vendorVars, wtask>> /\ wpc[w] = "commit"
      /\ wtask[w] \in Task /\ wjob[w] \in Job /\ jobTask[wjob[w]] = wtask[w]
      /\ wjob' = [wjob EXCEPT ![w] = None]
  BY DEF Commit, WorkerTypes, JobsInv, JobsMade
<1>2. wpc' = [wpc EXCEPT ![w] = "ack"] \/ wpc' = [wpc EXCEPT ![w] = "fail"]
  BY DEF Commit, Goto
<1>3. /\ wpc'[w] # "commit"
      /\ \A v \in Worker \ {w} : wpc'[v] = wpc[v] /\ wjob'[v] = wjob[v]
  BY <1>1, <1>2 DEF WorkerTypes
<1>4. JobsMade'
  BY <1>1, <1>3 DEF JobsInv, JobsMade, vendorVars
<1>5. ASSUME crashes' + faults' = 0, NEW j \in Job, upstream[j] = "running"
      PROVE  \/ j \in cancels'
             \/ \E v \in Worker : wpc'[v] = "commit" /\ wjob'[v] = j
             \/ vendorTaskId'[jobTask[j]] = j /\ status'[jobTask[j]] # "Cancelled"
  <2>1. crashes + faults = 0 /\ faults' = faults
    BY <1>5, FailuresCount
  <2>2. \/ /\ status[wtask[w]] = "Queued" /\ SetRunning(wtask[w], wjob[w])
           /\ UNCHANGED cancels
        \/ cancels' = cancels \cup ({wjob[w]} \ {None}) /\ UNCHANGED <<status, vendorTaskId>>
    BY <2>1 DEF Commit, Fault, HistoryTypes
  <2>3. jobTask[j] \in Task /\ j # None /\ wjob[w] # None
    BY <1>1, <1>5, RuntimeAssumption DEF JobsInv, JobsMade, VendorTypes
  <2>4. \/ j \in cancels
        \/ \E v \in Worker : wpc[v] = "commit" /\ wjob[v] = j
        \/ vendorTaskId[jobTask[j]] = j /\ status[jobTask[j]] # "Cancelled"
    BY <1>5, <2>1 DEF JobsInv, JobsKnown
  <2>5. CASE cancels' = cancels \cup ({wjob[w]} \ {None}) /\ UNCHANGED <<status, vendorTaskId>>
    BY <1>3, <2>3, <2>4, <2>5
  <2>6. CASE status[wtask[w]] = "Queued" /\ SetRunning(wtask[w], wjob[w]) /\ UNCHANGED cancels
    <3>1. vendorTaskId[wtask[w]] = None
      BY <1>1, <2>6 DEF BillingInv, StartedHasJob
    <3>2. /\ vendorTaskId'[wtask[w]] = wjob[w] /\ status'[wtask[w]] = "Running"
          /\ \A t \in Task \ {wtask[w]} : vendorTaskId'[t] = vendorTaskId[t] /\ status'[t] = status[t]
      BY <1>1, <2>6 DEF SetRunning, RowTypes
    <3>3. CASE j = wjob[w]
      BY <1>1, <3>2, <3>3
    <3>4. CASE j # wjob[w]
      BY <1>3, <2>3, <2>4, <2>6, <3>1, <3>2, <3>4
    <3>5. QED
      BY <3>3, <3>4
  <2>7. QED
    BY <2>2, <2>5, <2>6
<1>6. JobsKnown'
  BY <1>1, <1>5 DEF JobsKnown, vendorVars
<1>7. QED
  BY <1>4, <1>6 DEF JobsInv

\* The other steps of a worker hold no job before or after.
LEMMA JobsOther ==
  ASSUME TypeOK, TypeOK', [Next]_vars, JobsInv, NEW w \in Worker,
         Pop(w) \/ Check(w) \/ SetFailed(w) \/ Ack(w)
  PROVE  JobsInv'
<1> RowTypes /\ VendorTypes /\ WorkerTypes /\ HistoryTypes
  BY DEF TypeOK
<1>1. UNCHANGED <<vendorVars, cancels, vendorTaskId, wjob>> /\ wpc[w] # "commit"
  BY DEF Pop, Check, SetFailed, Ack, rowVars
<1>2. /\ wpc'[w] # "commit"
      /\ \A v \in Worker \ {w} : wpc'[v] = wpc[v] /\ wtask'[v] = wtask[v]
  BY DEF Pop, Check, SetFailed, Ack, Goto, WorkerTypes
<1>3. \A t \in Task : status'[t] = "Cancelled" => status[t] = "Cancelled"
  BY DEF Pop, Check, SetFailed, Ack, rowVars, RowTypes
<1>4. JobsMade'
  BY <1>1, <1>2 DEF JobsInv, JobsMade, vendorVars
<1>5. ASSUME crashes' + faults' = 0, NEW j \in Job, upstream[j] = "running"
      PROVE  \/ j \in cancels
             \/ \E v \in Worker : wpc'[v] = "commit" /\ wjob[v] = j
             \/ vendorTaskId[jobTask[j]] = j /\ status'[jobTask[j]] # "Cancelled"
  <2>1. crashes + faults = 0
    BY <1>5, FailuresCount
  <2>2. jobTask[j] \in Task
    BY <1>5 DEF JobsInv, JobsMade, VendorTypes
  <2>3. QED
    BY <1>1, <1>2, <1>3, <1>5, <2>1, <2>2 DEF JobsInv, JobsKnown
<1>6. JobsKnown'
  BY <1>1, <1>5 DEF JobsKnown, vendorVars
<1>7. QED
  BY <1>4, <1>6 DEF JobsInv

LEMMA JobsNext == TypeOK /\ BillingInv /\ JobsInv /\ [Next]_vars => JobsInv'
<1> SUFFICES ASSUME TypeOK, BillingInv, JobsInv, [Next]_vars PROVE JobsInv'
  OBVIOUS
<1>1. TypeOK' /\ RowMoves /\ RowTypes
  BY TypeNext, RowStepNext, RowStepMoves DEF TypeOK
<1>2. ASSUME UNCHANGED <<vendorVars, workerVars, cancels>>,
             \A t \in Task : status'[t] = "Cancelled" => status[t] = "Cancelled" \/ vendorTaskId[t] = None
      PROVE  JobsInv'
  BY <1>1, <1>2, JobsQuiet DEF RowMoves
<1>3. ASSUME NEW t \in Task, Insert(t) \/ Enqueue(t) PROVE JobsInv'
  BY <1>1, <1>2, <1>3 DEF Insert, Enqueue, rowVars, RowTypes
<1>4. CASE SweepStep
  BY <1>2, <1>4 DEF SweepStep, SweepRead, SweepItem, SweepPush, SweepRemove, SweepDone, rowVars
<1>5. ASSUME NEW w \in Worker, WorkerStep(w) PROVE JobsInv'
  BY <1>1, <1>5, JobsSubmit, JobsCommit, JobsOther DEF WorkerStep
<1>6. CASE PollerStep
  BY <1>2, <1>6 DEF PollerStep, PollerRead, PollerSpawn, rowVars
<1>7. ASSUME NEW s \in Slot, PollStep(s) PROVE JobsInv'
  <2>1. UNCHANGED <<vendorVars, workerVars, cancels>>
    BY <1>7 DEF PollStep, Poll, Bump, FinalizeFailed, Store, Lookup, Settle, Flip
  <2>2. \A t \in Task : status'[t] = "Cancelled" => status[t] = "Cancelled"
    BY <1>1, <1>7 DEF PollStep, Poll, Bump, FinalizeFailed, Store, Lookup, Settle, Flip, Finished, rowVars, RowTypes
  <2>3. QED
    BY <1>2, <2>1, <2>2
<1>8. CASE Crash
  <2>1. crashes' > 0 /\ UNCHANGED vendorVars /\ wpc' = [w \in Worker |-> "idle"]
    BY <1>8 DEF Crash, TypeOK, HistoryTypes
  <2>2. crashes' \in Nat /\ faults' \in Nat
    BY <1>1 DEF TypeOK, HistoryTypes
  <2>3. crashes' + faults' # 0
    <3>1. crashes' # 0
      BY <2>1
    <3>2. QED
      BY <2>2, <3>1, NoneOfEither
  <2>4. QED
    BY <2>1, <2>3 DEF JobsInv, JobsMade, JobsKnown, vendorVars
<1>9. CASE UNCHANGED vars
  BY <1>2, <1>9 DEF vars, rowVars
<1>10. QED
  BY <1>1, <1>3, <1>4, <1>5, <1>6, <1>7, <1>8, <1>9, JobsCancel, JobsVendor DEF Next, HandlerStep

\* No vendor job outlives the cancellation of its task unnoticed, wherever the
\* cancel lands between the worker's Submit and its Commit, while nothing crashed
\* or failed (api.rs:188, worker.rs:208).
THEOREM CancelsReachTheVendor == Spec => []CancelReachesVendor
<1>1. JobsInv /\ TypeOK => CancelReachesVendor
  BY DEF JobsInv, JobsKnown, CancelReachesVendor, TypeOK, VendorTypes
<1>2. QED
  BY <1>1, JobsInit, JobsNext, TypeCorrect, BillingInvariant, PTL DEF Spec

(***************************************************************************)
(* One submission per task.  An id must be shown to be in one place at a    *)
(* time, from the handler's LPUSH over the list to the worker's Submit, and *)
(* the sweep of a process that never restarted to have nothing to push.     *)
(***************************************************************************)

Holds(w, t) == wpc[w] # "idle" /\ wtask[w] = t
MadeFor(t) == \E j \in Job : jobTask[j] = t

\* The sweep of a process that never restarted has nothing to queue again.
NothingToSweep ==
  /\ \A t \in Task : sweepTodo[t] = 0
  /\ sweep # "up" => \A t \in Task : processing[t] = 0
  /\ sweep \notin {"push", "remove"}

\* The list holds no id twice.
QueuedOnce == \A i, k \in 1..Len(queued) : queued[i] = queued[k] => i = k

\* An id is in one place: with its handler, in the list, or with one worker, who
\* has not asked for a job before Submit.
InOnePlace ==
  /\ \A t \in Task : InQueue(t) => /\ enqueue[t] = "done"
                                   /\ ~MadeFor(t)
                                   /\ \A w \in Worker : ~Holds(w, t)
  /\ \A t \in Task : MadeFor(t) => enqueue[t] = "done"
  /\ \A w \in Worker : wpc[w] # "idle" => enqueue[wtask[w]] = "done"
  /\ \A w \in Worker : wpc[w] \in {"check", "submit"} => ~MadeFor(wtask[w])
  /\ \A v, w \in Worker : wpc[v] # "idle" /\ wpc[w] # "idle" /\ wtask[v] = wtask[w] => v = w

OnceBody == NothingToSweep /\ QueuedOnce /\ InOnePlace
            /\ \A i, j \in Job : jobTask[i] = jobTask[j] /\ jobTask[i] # None => i = j

SubmitInv == crashes = 0 => OnceBody

LEMMA SubmitInit == Init => SubmitInv
<1> SUFFICES ASSUME Init PROVE OnceBody
  BY DEF SubmitInv
<1>1. ~\E t : InQueue(t)
  BY DEF Init, InQueue
<1>2. \A t \in Task : ~MadeFor(t)
  BY RuntimeAssumption DEF Init, MadeFor
<1>3. QED
  BY <1>1, <1>2 DEF Init, OnceBody, NothingToSweep, QueuedOnce, InOnePlace

LEMMA AppendOnce ==
  ASSUME queued \in Seq(Task), NEW t \in Task, QueuedOnce, ~InQueue(t), queued' = Append(queued, t)
  PROVE  QueuedOnce'
<1>1. Len(queued') = Len(queued) + 1 /\ Len(queued) \in Nat
  OBVIOUS
<1>2. \A i \in 1..Len(queued) : queued'[i] = queued[i] /\ queued[i] # t
  BY DEF InQueue
<1>3. queued'[Len(queued) + 1] = t
  OBVIOUS
<1>4. QED
  BY <1>1, <1>2, <1>3 DEF QueuedOnce

LEMMA TailOnce ==
  ASSUME queued \in Seq(Task), queued # <<>>, QueuedOnce, queued' = Tail(queued)
  PROVE  QueuedOnce' /\ \A t : t = Head(queued) => ~InQueue(t)'
<1>1. Len(queued') = Len(queued) - 1 /\ Len(queued) \in Nat /\ Len(queued) > 0
  OBVIOUS
<1>2. \A i \in 1..Len(queued') : queued'[i] = queued[i + 1]
  OBVIOUS
<1>3. Head(queued) = queued[1]
  OBVIOUS
<1>4. QueuedOnce'
  BY <1>1, <1>2 DEF QueuedOnce
<1>5. ASSUME NEW i \in 1..Len(queued'), queued'[i] = Head(queued) PROVE FALSE
  <2>1. i + 1 \in 1..Len(queued) /\ 1 \in 1..Len(queued) /\ i + 1 # 1
    BY <1>1
  <2>2. queued[i + 1] = queued[1]
    BY <1>2, <1>3, <1>5
  <2>3. QED
    BY <2>1, <2>2 DEF QueuedOnce
<1>6. QED
  BY <1>4, <1>5 DEF InQueue

LEMMA SubmitQuiet ==
  ASSUME SubmitInv, UNCHANGED <<listVars, sweepVars, workerVars, enqueue, jobTask, crashes>>
  PROVE  SubmitInv'
<1>1. \A t : InQueue(t)' <=> InQueue(t)
  BY DEF InQueue, listVars
<1>2. \A t : MadeFor(t)' <=> MadeFor(t)
  BY DEF MadeFor
<1>3. \A w, t : Holds(w, t)' <=> Holds(w, t)
  BY DEF Holds, workerVars
<1>4. UNCHANGED <<queued, processing, sweep, sweepTodo, wpc, wtask>>
  BY DEF listVars, sweepVars, workerVars
<1>5. OnceBody => OnceBody'
  BY <1>1, <1>2, <1>3, <1>4 DEF OnceBody, NothingToSweep, QueuedOnce, InOnePlace
<1>6. QED
  BY <1>5 DEF SubmitInv

LEMMA SubmitHandler ==
  ASSUME TypeOK, DeliveryInv, OnceBody, NEW t \in Task, Insert(t) \/ Enqueue(t)
  PROVE  OnceBody'
<1> ListTypes /\ HistoryTypes /\ RowTypes /\ WorkerTypes
  BY DEF TypeOK
<1>1. UNCHANGED <<processing, jobTask, sweepVars, workerVars>>
  BY DEF Insert, Enqueue, listVars, vendorVars
<1>2. /\ \A u : MadeFor(u)' <=> MadeFor(u)
      /\ \A w, u : Holds(w, u)' <=> Holds(w, u)
  BY <1>1 DEF MadeFor, Holds, workerVars
<1>3. UNCHANGED <<sweep, sweepTodo, wpc, wtask>>
  BY <1>1 DEF sweepVars, workerVars
<1>4. enqueue[t] # "done"
  BY DEF Insert, Enqueue, DeliveryInv, EveryIdHasRow
<1>5. ~InQueue(t) /\ ~MadeFor(t) /\ \A w \in Worker : ~Holds(w, t)
  BY <1>4 DEF OnceBody, InOnePlace, Holds
<1>6. \A u \in Task \ {t} : enqueue'[u] = enqueue[u]
  BY DEF Insert, Enqueue, HistoryTypes
<1>7. CASE UNCHANGED queued
  <2>1. \A u : InQueue(u)' <=> InQueue(u)
    BY <1>7 DEF InQueue
  <2>2. InOnePlace'
    BY <1>2, <1>3, <1>5, <1>6, <2>1 DEF OnceBody, InOnePlace, Holds, WorkerTypes
  <2>3. QED
    BY <1>1, <1>3, <1>7, <2>2 DEF OnceBody, NothingToSweep, QueuedOnce
<1>8. CASE queued' = Append(queued, t) /\ enqueue' = [enqueue EXCEPT ![t] = "done"]
  <2>1. \A u : InQueue(u)' <=> u = t \/ InQueue(u)
    BY <1>8, QueueAppend DEF ListTypes
  <2>2. QueuedOnce'
    BY <1>5, <1>8, AppendOnce DEF OnceBody, ListTypes
  <2>3. enqueue'[t] = "done"
    BY <1>8 DEF HistoryTypes
  <2>4. InOnePlace'
    BY <1>2, <1>3, <1>5, <1>6, <2>1, <2>3 DEF OnceBody, InOnePlace, Holds, WorkerTypes
  <2>5. QED
    BY <1>1, <1>3, <2>2, <2>4 DEF OnceBody, NothingToSweep
<1>9. QED
  BY <1>7, <1>8 DEF Insert, Enqueue, listVars

LEMMA SubmitSweep ==
  ASSUME TypeOK, OnceBody, SweepStep
  PROVE  OnceBody'
<1>1. UNCHANGED <<listVars, enqueue, jobTask, workerVars>>
  BY DEF SweepStep, SweepRead, SweepItem, SweepPush, SweepRemove, SweepDone, OnceBody, NothingToSweep, vendorVars
<1>2. /\ \A u : MadeFor(u)' <=> MadeFor(u)
      /\ \A w, u : Holds(w, u)' <=> Holds(w, u)
      /\ \A u : InQueue(u)' <=> InQueue(u)
      /\ UNCHANGED <<queued, processing, wpc, wtask>>
  BY <1>1 DEF MadeFor, Holds, InQueue, workerVars, listVars
<1>3. NothingToSweep'
  BY <1>1 DEF SweepStep, SweepRead, SweepItem, SweepPush, SweepRemove, SweepDone, OnceBody, NothingToSweep, listVars
<1>4. QED
  BY <1>1, <1>2, <1>3 DEF OnceBody, QueuedOnce, InOnePlace

LEMMA SubmitPop ==
  ASSUME TypeOK, OnceBody, NEW w \in Worker, Pop(w)
  PROVE  OnceBody'
<1> ListTypes /\ WorkerTypes
  BY DEF TypeOK
<1> DEFINE t == Head(queued)
<1>1. /\ sweep = "up" /\ wpc[w] = "idle" /\ queued # <<>> /\ queued' = Tail(queued)
      /\ UNCHANGED <<sweep, sweepTodo, enqueue, jobTask>>
  BY DEF Pop, sweepVars, vendorVars
<1>2. t \in Task /\ InQueue(t) /\ \A u : InQueue(u)' => InQueue(u)
  BY <1>1, QueueTail DEF ListTypes
<1>3. QueuedOnce' /\ \A u : u = t => ~InQueue(u)'
  BY <1>1, TailOnce DEF ListTypes, OnceBody
<1>4. \A u : MadeFor(u)' <=> MadeFor(u)
  BY <1>1 DEF MadeFor
<1>5. enqueue[t] = "done" /\ ~MadeFor(t) /\ \A v \in Worker : ~Holds(v, t)
  BY <1>2 DEF OnceBody, InOnePlace
<1>6. \A v \in Worker \ {w} : wpc'[v] = wpc[v] /\ wtask'[v] = wtask[v]
  BY DEF Pop, WorkerTypes
<1>7. \/ wpc'[w] = "idle"
      \/ wpc'[w] = "check" /\ wtask'[w] = t
  BY <1>1 DEF Pop, WorkerTypes
<1>8. NothingToSweep'
  BY <1>1 DEF OnceBody, NothingToSweep
<1>9. InOnePlace'
  <2>1. \A u \in Task : InQueue(u)' => /\ enqueue'[u] = "done"
                                       /\ ~MadeFor(u)'
                                       /\ \A v \in Worker : ~Holds(v, u)'
    BY <1>1, <1>2, <1>3, <1>4, <1>6, <1>7 DEF OnceBody, InOnePlace, Holds
  <2>2. \A u \in Task : MadeFor(u)' => enqueue'[u] = "done"
    BY <1>1, <1>4 DEF OnceBody, InOnePlace
  <2>3. \A v \in Worker : /\ wpc'[v] # "idle" => enqueue'[wtask'[v]] = "done"
                          /\ wpc'[v] \in {"check", "submit"} => ~\E j \in Job : jobTask'[j] = wtask'[v]
    BY <1>1, <1>5, <1>6, <1>7 DEF OnceBody, InOnePlace, MadeFor
  <2>4. \A u, v \in Worker : wpc'[u] # "idle" /\ wpc'[v] # "idle" /\ wtask'[u] = wtask'[v] => u = v
    BY <1>5, <1>6, <1>7 DEF OnceBody, InOnePlace, Holds
  <2>5. QED
    BY <2>1, <2>2, <2>3, <2>4 DEF InOnePlace, MadeFor
<1>10. QED
  BY <1>1, <1>3, <1>8, <1>9 DEF OnceBody

\* A worker goes on with the task it holds, or lets go of it.
LEMMA SubmitHolder ==
  ASSUME TypeOK, OnceBody, NEW w \in Worker,
         Check(w) \/ Commit(w) \/ SetFailed(w) \/ Ack(w)
  PROVE  OnceBody'
<1> WorkerTypes /\ ListTypes
  BY DEF TypeOK
<1>1. UNCHANGED <<queued, sweep, sweepTodo, enqueue, jobTask>> /\ wpc[w] # "idle"
  BY DEF Check, Commit, SetFailed, Ack, listVars, sweepVars, vendorVars
<1>2. \A v \in Worker \ {w} : wpc'[v] = wpc[v] /\ wtask'[v] = wtask[v]
  BY DEF Check, Commit, SetFailed, Ack, Goto, WorkerTypes
<1>3. \/ wpc'[w] = "idle"
      \/ /\ wtask'[w] = wtask[w] /\ wpc'[w] # "idle"
         /\ wpc'[w] \in {"check", "submit"} => wpc[w] = "check"
  BY DEF Check, Commit, SetFailed, Ack, Goto, WorkerTypes
<1>4. /\ \A u : MadeFor(u)' <=> MadeFor(u)
      /\ \A u : InQueue(u)' <=> InQueue(u)
      /\ \A v \in Worker : \A u : Holds(v, u)' => Holds(v, u)
  BY <1>1, <1>2, <1>3 DEF MadeFor, InQueue, Holds
<1>5. NothingToSweep'
  <2>1. \A t \in Task : processing[t] = 0 => processing'[t] = 0
    BY DEF Check, Commit, SetFailed, Ack, Removed, ListTypes, listVars
  <2>2. QED
    BY <1>1, <2>1 DEF OnceBody, NothingToSweep
<1>6. InOnePlace'
  <2>1. \A v \in Worker : /\ wpc'[v] # "idle" => enqueue'[wtask'[v]] = "done"
                          /\ wpc'[v] \in {"check", "submit"} => ~\E j \in Job : jobTask'[j] = wtask'[v]
    BY <1>1, <1>2, <1>3 DEF OnceBody, InOnePlace, MadeFor
  <2>2. \A u, v \in Worker : wpc'[u] # "idle" /\ wpc'[v] # "idle" /\ wtask'[u] = wtask'[v] => u = v
    BY <1>1, <1>2, <1>3 DEF OnceBody, InOnePlace
  <2>3. \A u \in Task : /\ MadeFor(u)' => enqueue'[u] = "done"
                        /\ InQueue(u)' => /\ enqueue'[u] = "done"
                                          /\ ~MadeFor(u)'
                                          /\ \A v \in Worker : ~Holds(v, u)'
    BY <1>1, <1>4 DEF OnceBody, InOnePlace
  <2>4. QED
    BY <2>1, <2>2, <2>3 DEF InOnePlace, MadeFor
<1>7. QED
  BY <1>1, <1>5, <1>6 DEF OnceBody, QueuedOnce

LEMMA SubmitSubmit ==
  ASSUME TypeOK, JobsInv, OnceBody, NEW w \in Worker, Submit(w)
  PROVE  OnceBody'
<1> WorkerTypes /\ ListTypes /\ VendorTypes
  BY DEF TypeOK
<1>1. UNCHANGED <<queued, processing, sweep, sweepTodo, enqueue, wtask>> /\ wpc[w] = "submit"
      /\ wtask[w] \in Task
  BY DEF Submit, listVars, sweepVars, WorkerTypes
<1>2. /\ \A v \in Worker \ {w} : wpc'[v] = wpc[v]
      /\ wpc'[w] \in {"commit", "fail"}
  BY DEF Submit, Goto, WorkerTypes
<1>3. /\ \A u : InQueue(u)' <=> InQueue(u)
      /\ \A v \in Worker : \A u : Holds(v, u)' <=> Holds(v, u)
  BY <1>1, <1>2 DEF InQueue, Holds
<1>4. ~MadeFor(wtask[w]) /\ enqueue[wtask[w]] = "done"
      /\ \A u \in Task : InQueue(u) => u # wtask[w]
  BY <1>1 DEF OnceBody, InOnePlace, Holds
<1>5. \/ UNCHANGED jobTask
      \/ \E i \in Job : upstream[i] = "unused" /\ jobTask' = [jobTask EXCEPT ![i] = wtask[w]]
  BY DEF Submit, vendorVars
<1>6. \A u : MadeFor(u)' => MadeFor(u) \/ u = wtask[w]
  BY <1>5 DEF MadeFor, VendorTypes
<1>7. \A i, j \in Job : jobTask'[i] = jobTask'[j] /\ jobTask'[i] # None => i = j
  BY <1>4, <1>5 DEF OnceBody, MadeFor, VendorTypes
<1>8. InOnePlace'
  <2>1. \A u \in Task : /\ MadeFor(u)' => enqueue'[u] = "done"
                        /\ InQueue(u)' => /\ enqueue'[u] = "done"
                                          /\ ~MadeFor(u)'
                                          /\ \A v \in Worker : ~Holds(v, u)'
    BY <1>1, <1>3, <1>4, <1>6 DEF OnceBody, InOnePlace
  <2>2. \A v \in Worker : wpc'[v] # "idle" => enqueue'[wtask'[v]] = "done"
    BY <1>1, <1>2 DEF OnceBody, InOnePlace
  <2>3. \A u, v \in Worker : wpc'[u] # "idle" /\ wpc'[v] # "idle" /\ wtask'[u] = wtask'[v] => u = v
    BY <1>1, <1>2 DEF OnceBody, InOnePlace
  <2>4. ASSUME NEW v \in Worker, wpc'[v] \in {"check", "submit"}
        PROVE  ~MadeFor(wtask[v])'
    <3>1. v # w /\ wpc[v] = wpc'[v] /\ wtask[v] # wtask[w]
      BY <1>1, <1>2, <2>4 DEF OnceBody, InOnePlace
    <3>2. ~\E j \in Job : jobTask[j] = wtask[v]
      BY <2>4, <3>1 DEF OnceBody, InOnePlace, MadeFor
    <3>3. ~\E j \in Job : jobTask'[j] = wtask[v]
      BY <1>5, <3>1, <3>2 DEF VendorTypes
    <3>4. QED
      BY <1>1, <3>3 DEF MadeFor
  <2>5. QED
    BY <2>1, <2>2, <2>3, <2>4 DEF InOnePlace
<1>9. QED
  BY <1>1, <1>7, <1>8 DEF OnceBody, NothingToSweep, QueuedOnce

LEMMA SubmitNext == TypeOK /\ DeliveryInv /\ JobsInv /\ SubmitInv /\ [Next]_vars => SubmitInv'
<1> SUFFICES ASSUME TypeOK, DeliveryInv, JobsInv, SubmitInv, [Next]_vars PROVE SubmitInv'
  OBVIOUS
<1>1. ASSUME UNCHANGED crashes, OnceBody => OnceBody' PROVE SubmitInv'
  BY <1>1 DEF SubmitInv
<1>2. ASSUME NEW t \in Task, HandlerStep(t) PROVE SubmitInv'
  <2>1. CASE Insert(t) \/ Enqueue(t)
    BY <1>1, <2>1, SubmitHandler DEF Insert, Enqueue
  <2>2. CASE Cancel(t)
    BY <2>2, SubmitQuiet DEF Cancel, vendorVars
  <2>3. QED
    BY <1>2, <2>1, <2>2 DEF HandlerStep
<1>3. ASSUME NEW j \in Job, VendorStep(j) PROVE SubmitInv'
  BY <1>3, SubmitQuiet DEF VendorStep, UpstreamCancel, VendorFinish
<1>4. CASE SweepStep
  <2>1. UNCHANGED crashes
    BY <1>4 DEF SweepStep, SweepRead, SweepItem, SweepPush, SweepRemove, SweepDone
  <2>2. QED
    BY <1>1, <1>4, <2>1, SubmitSweep
<1>5. ASSUME NEW w \in Worker, WorkerStep(w) PROVE SubmitInv'
  <2>1. UNCHANGED crashes
    BY <1>5 DEF WorkerStep, Pop, Check, Submit, Commit, SetFailed, Ack
  <2>2. QED
    BY <1>1, <1>5, <2>1, SubmitPop, SubmitHolder, SubmitSubmit DEF WorkerStep
<1>6. CASE PollerStep
  BY <1>6, SubmitQuiet DEF PollerStep, PollerRead, PollerSpawn, vendorVars
<1>7. ASSUME NEW s \in Slot, PollStep(s) PROVE SubmitInv'
  <2>1. UNCHANGED <<listVars, sweepVars, workerVars, enqueue, jobTask, crashes>>
    BY <1>7 DEF PollStep, Poll, Bump, FinalizeFailed, Store, Lookup, Settle, Flip, vendorVars
  <2>2. QED
    BY <2>1, SubmitQuiet
<1>8. CASE Crash
  BY <1>8 DEF Crash, SubmitInv, TypeOK, HistoryTypes
<1>9. CASE UNCHANGED vars
  BY <1>9, SubmitQuiet DEF vars, vendorVars
<1>10. QED
  BY <1>2, <1>3, <1>4, <1>5, <1>6, <1>7, <1>8, <1>9 DEF Next

\* Without a restart no task is submitted to the vendor twice, however many
\* workers pop and whatever fails in between (worker.rs:32-33).
THEOREM TasksSubmittedOnce == Spec => []SubmittedOnce
<1>1. SubmitInv => SubmittedOnce
  BY DEF SubmitInv, OnceBody, SubmittedOnce
<1>2. QED
  BY <1>1, SubmitInit, SubmitNext, DeliveryInit, DeliveryNext, JobsInit, JobsNext,
     TypeCorrect, BillingInvariant, PTL DEF Spec
============================================================================
