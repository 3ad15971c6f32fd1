------------------------------- MODULE Closing -------------------------------
(***************************************************************************)
(* Closing a month (billing/src/reconcile.rs): a reconciliation is         *)
(* generated from usage_logs, may be generated again, and is locked; the   *)
(* margin report (margin.rs) and the overview of the customers             *)
(* (admin_read.rs) are sums over the same rows.                            *)
(*                                                                         *)
(* Calls are settled all the while.  settle stamps a row before its        *)
(* transaction and others see it when it commits, possibly a month later.  *)
(* generate reads the existing row, the totals and the detail and writes:  *)
(* four statements without a transaction.                                  *)
(***************************************************************************)
EXTENDS Periods, FiniteSets, Sequences

CONSTANTS
  Calls,     \* the calls to be settled: [id, model, channel, org, charged, cost]
  Clerk,     \* requests of finance in progress
  Month,     \* the periods they ask for
  None,
  FirstTick, LastTick   \* bounds: the instants of the run

ASSUME ClosingAssumption ==
  /\ IsFiniteSet(Calls) /\ \A c \in Calls : c.charged \in Nat /\ c.cost \in Nat \cup {None}
  /\ \A p \in Month : p \in Nat \X Nat /\ ValidPeriod(p)
  /\ None \notin {"model", "channel"}
  /\ FirstTick \in Nat /\ LastTick \in Nat /\ FirstTick <= LastTick

VARIABLES
  now,
  flying,   \* calls whose settlement has stamped its row and not committed: [call, at]
  logs,     \* usage_logs, in the order of their commits
  recs,     \* reconciliations: the rows there are, by period
  asked,    \* length of logs when the request that wrote the row began
  pos, job, \* a request: position, and its period with all it has read
  answer    \* the last row it answered with

vars == <<now, flying, logs, recs, asked, pos, job, answer>>

Idle == [period |-> None]

-----------------------------------------------------------------------------
(* Sums over usage_logs.  A query selects rows, by their place in logs; a    *)
(* sum of amounts is the number of units they have.                        *)

Units(f) == UNION {{x} \X (1..f[x]) : x \in DOMAIN f}
SumOf(f) == Cardinality(Units(f))

\* The rows of a period among the first n.
Rows(n, p) == {i \in 1..n : Within(logs[i].at, period_bounds(p))}
In(p) == Rows(Len(logs), p)
Revenue(S) == SumOf([i \in S |-> logs[i].call.charged])
Costed(S) == {i \in S : logs[i].call.cost # None}
Cost(S) == SumOf([i \in Costed(S) |-> logs[i].call.cost])
Sums(S) == [revenue |-> Revenue(S), calls |-> Cardinality(S)]

\* GROUP BY one column: a group for each of its values that occurs.
Groups(S, dim) == {logs[i].call[dim] : i \in S}
GroupOf(S, dim, g) == {i \in S : logs[i].call[dim] = g}
Detail(S) == [m \in Groups(S, "model") |-> Sums(GroupOf(S, "model", m))]

Cell(S) == [revenue |-> Revenue(S), cost |-> Cost(S), gross |-> Revenue(S) - Cost(S),
            calls |-> Cardinality(S), covered |-> Cardinality(Costed(S))]
\* compute_margin: one cell over all, or a cell for each group.
Cells(S, dim) == IF dim = None THEN [g \in {None} |-> Cell(S)]
                 ELSE [g \in Groups(S, dim) |-> Cell(GroupOf(S, dim, g))]
Complete(cells) == \A g \in DOMAIN cells : cells[g].covered = cells[g].calls
compute_margin(p, dim) ==
  LET cells == Cells(In(p), dim) IN [rows |-> cells, complete |-> Complete(cells)]
tenants(p) == [o \in Groups(In(p), "org") |-> Sums(GroupOf(In(p), "org", o))]

-----------------------------------------------------------------------------
Numbers == [revenue : Nat, calls : Nat]
Lines(d) == DOMAIN d \subseteq {c.model : c \in Calls} /\ \A m \in DOMAIN d : d[m] \in Numbers
IsRow(r) == /\ r.status \in {"Draft", "Locked"} /\ r.total \in Numbers /\ Lines(r.detail)
            /\ IF r.status = "Locked" THEN r.locked_at \in FirstTick..LastTick ELSE r.locked_at = None

TypeOK ==
  /\ now \in FirstTick..LastTick
  /\ \A f \in flying : f.call \in Calls /\ f.at \in FirstTick..now
  /\ \A i \in DOMAIN logs : logs[i].call \in Calls /\ logs[i].at \in FirstTick..now
  /\ DOMAIN recs \subseteq Month /\ \A p \in DOMAIN recs : IsRow(recs[p])
  /\ asked \in [Month -> 0..Len(logs)]
  /\ pos \in [Clerk -> {"idle", "totals", "detail", "write", "reread", "lock"}]
  /\ \A c \in Clerk : (job[c] = Idle) = (pos[c] = "idle")
  /\ DOMAIN answer = Clerk /\ \A c \in Clerk : answer[c] # None => IsRow(answer[c].row)

Init ==
  /\ now = FirstTick /\ flying = {} /\ logs = <<>>
  /\ recs = <<>> /\ asked = [p \in Month |-> 0]
  /\ pos = [c \in Clerk |-> "idle"] /\ job = [c \in Clerk |-> Idle]
  /\ answer = [c \in Clerk |-> None]

TimePasses ==
  /\ now < LastTick
  /\ now' = now + 1
  /\ UNCHANGED <<flying, logs, recs, asked, pos, job, answer>>

Begun == {f.call : f \in flying} \cup {logs[i].call : i \in DOMAIN logs}

Stamp ==
  /\ \E c \in Calls \ Begun : flying' = flying \cup {[call |-> c, at |-> now]}
  /\ UNCHANGED <<now, logs, recs, asked, pos, job, answer>>

Commit ==
  /\ \E f \in flying : flying' = flying \ {f} /\ logs' = Append(logs, f)
  /\ UNCHANGED <<now, recs, asked, pos, job, answer>>

Goto(c, p, j) == pos' = [pos EXCEPT ![c] = p] /\ job' = [job EXCEPT ![c] = j]
Reply(c, p, r) == /\ Goto(c, "idle", Idle)
                  /\ answer' = [answer EXCEPT ![c] = [period |-> p, row |-> r]]
Refuse(c) == Goto(c, "idle", Idle) /\ answer' = [answer EXCEPT ![c] = None]
\* What a request knows once it has read one thing more.
With(j, f, v) == [k \in DOMAIN j \cup {f} |-> IF k = f THEN v ELSE j[k]]

Exists(p) == p \in DOMAIN recs
\* Slip: any row may be written over, locked or not.
AnyRow(p) == Exists(p)

IsLocked(p) == Exists(p) /\ recs[p].status = "Locked"

\* generate reads the period's row; a locked one is refused at once.
Generate(c) ==
  /\ pos[c] = "idle"
  /\ \E p \in Month :
       /\ ~IsLocked(p)
       /\ Goto(c, "totals", [period |-> p, exists |-> Exists(p), since |-> Len(logs)])
  /\ UNCHANGED <<now, flying, logs, recs, asked, answer>>

Totals(c) ==
  /\ pos[c] = "totals"
  /\ Goto(c, "detail", With(job[c], "total", Sums(In(job[c].period))))
  /\ UNCHANGED <<now, flying, logs, recs, asked, answer>>

\* Slip: the detail as it was before the totals were read.
DetailFirst(c) ==
  /\ pos[c] = "detail"
  /\ Goto(c, "write", With(job[c], "detail",
                        Detail(Rows(job[c].since, job[c].period))))
  /\ UNCHANGED <<now, flying, logs, recs, asked, answer>>

DetailRows(c) ==
  /\ pos[c] = "detail"
  /\ Goto(c, "write", With(job[c], "detail", Detail(In(job[c].period))))
  /\ UNCHANGED <<now, flying, logs, recs, asked, answer>>

Drafted(j) == [status |-> "Draft", total |-> j.total, detail |-> j.detail, locked_at |-> None]
Put(c, row) == /\ recs' = [p \in DOMAIN recs \cup {job[c].period} |->
                                IF p = job[c].period THEN row ELSE recs[p]]
               /\ asked' = [asked EXCEPT ![job[c].period] = job[c].since]

\* INSERT: the period is unique, and the second of two first requests fails.
Insert(c) ==
  /\ pos[c] = "write" /\ ~job[c].exists
  /\ IF ~Exists(job[c].period)
     THEN Put(c, Drafted(job[c])) /\ Reply(c, job[c].period, Drafted(job[c]))
     ELSE UNCHANGED <<recs, asked>> /\ Refuse(c)
  /\ UNCHANGED <<now, flying, logs>>

IsDraft(p) == Exists(p) /\ recs[p].status = "Draft"

\* UPDATE ... WHERE id AND status = Draft; no row is a refusal.
Update(c) ==
  /\ pos[c] = "write" /\ job[c].exists
  /\ IF IsDraft(job[c].period)
     THEN Put(c, Drafted(job[c])) /\ Goto(c, "reread", job[c]) /\ UNCHANGED answer
     ELSE UNCHANGED <<recs, asked>> /\ Refuse(c)
  /\ UNCHANGED <<now, flying, logs>>

Reread(c) ==
  /\ pos[c] = "reread"
  /\ Reply(c, job[c].period, recs[job[c].period])
  /\ UNCHANGED <<now, flying, logs, recs, asked>>

LocksWhat(p) == IsDraft(p)
Sealed(r, t) == [r EXCEPT !.status = "Locked", !.locked_at = t]

\* lock takes its clock before the UPDATE.
BeginLock(c) ==
  /\ pos[c] = "idle"
  /\ \E p \in DOMAIN recs : Goto(c, "lock", [period |-> p, at |-> now])
  /\ UNCHANGED <<now, flying, logs, recs, asked, answer>>

\* One conditional UPDATE; when it finds no row the row is read as it is.
Lock(c) ==
  LET p == job[c].period IN
  /\ pos[c] = "lock"
  /\ IF LocksWhat(p)
     THEN recs' = [recs EXCEPT ![p] = Sealed(@, job[c].at)] /\ Reply(c, p, recs'[p])
     ELSE Goto(c, "reread", job[c]) /\ UNCHANGED <<recs, answer>>
  /\ UNCHANGED <<now, flying, logs, asked>>

\* get_one, and the export that renders the same row.
GetOne(c) ==
  /\ pos[c] = "idle"
  /\ \E p \in DOMAIN recs : Reply(c, p, recs[p])
  /\ UNCHANGED <<now, flying, logs, recs, asked>>

Next ==
  \/ TimePasses \/ Stamp \/ Commit
  \/ \E c \in Clerk : \/ Generate(c) \/ Totals(c) \/ DetailRows(c) \/ Insert(c) \/ Update(c)
                      \/ Reread(c) \/ BeginLock(c) \/ Lock(c) \/ GetOne(c)

Spec == Init /\ [][Next]_vars

-----------------------------------------------------------------------------
\* A locked month is read-only: whatever requests were under way when it was
\* locked, generate never overwrites the row and lock never stamps it again
\* (the status conditions of the two UPDATEs in reconcile.rs).
LockedFrozen ==
  [][\A p \in DOMAIN recs : IsLocked(p) => p \in DOMAIN recs' /\ recs'[p] = recs[p]]_vars

\* Whoever has been answered with a locked month, by lock, by generate's own
\* re-read, by get_one or in an export, has the row everybody sees from then on.
SealedAnswers ==
  \A c \in Clerk : answer[c] # None /\ answer[c].row.status = "Locked" =>
    Exists(answer[c].period) /\ recs[answer[c].period] = answer[c].row

\* generate reads the totals before the detail, and usage_logs only grows: the
\* lines of a row add up to its total or to more, never to less, however many
\* calls are settled between the two reads.
DetailCoversTotal ==
  \A p \in DOMAIN recs :
    LET d == recs[p].detail IN
    /\ recs[p].total.revenue <= SumOf([m \in DOMAIN d |-> d[m].revenue])
    /\ recs[p].total.calls <= SumOf([m \in DOMAIN d |-> d[m].calls])

\* The total of a row was once the true total of its month: the sums over that
\* month's calls, by the month the stamp falls in, after some prefix of the
\* commits, and no earlier a prefix than when generate was asked.
TotalsWereTrue ==
  \A p \in DOMAIN recs :
    \E k \in asked[p]..Len(logs) :
      recs[p].total = Sums({i \in 1..k : PeriodAt(logs[i].at) = p})

Column(cells, f) == [g \in DOMAIN cells |-> cells[g][f]]
\* The margin of a month is one figure: its cells by model or by channel add up
\* to the overview in every column (gross is a difference of two), all three
\* agree on whether the costs are complete, and the customers' charges (tenants)
\* add up to the same revenue.
MarginConsistent ==
  \A p \in Month :
    LET whole == compute_margin(p, None)
        total == whole.rows[None]
    IN /\ \A dim \in {"model", "channel"} :
            LET m == compute_margin(p, dim) IN
            /\ \A f \in {"revenue", "cost", "calls", "covered"} :
                 SumOf(Column(m.rows, f)) = total[f]
            /\ m.complete = whole.complete
       /\ SumOf(Column(tenants(p), "revenue")) = total.revenue

\* The books are true: a total was the total of its month at some time, its
\* detail covers it, the margin is one figure however it is grouped, and whoever
\* was answered with a locked month has the row that stands (reconcile.rs,
\* margin.rs, admin_read.rs); with the types of the rows and requests.
BooksAreTrue ==
  TypeOK /\ SealedAnswers /\ TotalsWereTrue /\ DetailCoversTotal /\ MarginConsistent
=============================================================================
