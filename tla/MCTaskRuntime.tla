--------------------------- MODULE MCTaskRuntime ---------------------------
(* Instances of TaskRuntime for TLC.  Workers, poll slots and vendor job ids *)
(* are interchangeable; task ids are not, the poller orders by them.         *)
EXTENDS TaskRuntime, TLC

CONSTANTS w1, p1    \* a worker and a poll slot

Symmetry == Permutations(Slot) \cup Permutations(Job)

Inserted == {t \in Task : status[t] # "Absent"}

(* Every race over one task; over two tasks, which meet in the two lists,    *)
(* with one worker, two jobs, one restart and one poll of each.              *)
OneTaskOrSmall ==
  \/ Cardinality(Inserted) <= 1
  \/ /\ \A w \in Worker \ {w1} : wpc[w] = "idle"
     /\ Cardinality({j \in Job : upstream[j] # "unused"}) <= 2
     /\ \A t \in Task : pollCount[t] = 0
     /\ crashes <= 1

RacesSpec == Init /\ [][Next /\ OneTaskOrSmall']_vars

(* Liveness over two instances: one task with everything the constants name, *)
(* and two tasks that share one worker and one slot of the poller and no     *)
(* restart.  Only the inserts of clients are bounded further, and nothing    *)
(* that is fair.                                                             *)
Narrow == INSTANCE TaskRuntime WITH Worker <- {w1}, Slot <- {p1}, MaxCrashes <- 0

IsNarrow == DOMAIN wpc = {w1}

EndsInit == Init \/ Narrow!Init
EndsNext == \/ ~IsNarrow /\ Next /\ 2 \notin Inserted'
            \/ IsNarrow /\ Narrow!Next

EndsFairness ==
  /\ \A t \in Task : WF_vars(Enqueue(t))
  /\ WF_vars(~IsNarrow /\ SweepStep)
  /\ \A w \in Worker : WF_vars(~IsNarrow /\ WorkerStep(w))
  /\ WF_vars(~IsNarrow /\ PollerStep)
  /\ \A s \in Slot : WF_vars(~IsNarrow /\ PollStep(s))
  /\ WF_vars(IsNarrow /\ Narrow!SweepStep)
  /\ WF_vars(IsNarrow /\ Narrow!WorkerStep(w1))
  /\ WF_vars(IsNarrow /\ Narrow!PollerStep)
  /\ WF_vars(IsNarrow /\ Narrow!PollStep(p1))

EndsSpec == EndsInit /\ [][EndsNext]_vars /\ EndsFairness
============================================================================
