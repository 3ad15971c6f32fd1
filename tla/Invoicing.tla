------------------------------ MODULE Invoicing ------------------------------
(***************************************************************************)
(* Invoices (billing/src/invoice.rs): customers ask for them with an API   *)
(* key, on a paid order or on their balance; finance issues or voids them. *)
(*                                                                         *)
(* create reads the order, then the order's other invoices, and inserts:   *)
(* three statements without a transaction.  issue and void are one         *)
(* conditional UPDATE, and a second read when it found no row.             *)
(***************************************************************************)
EXTENDS Integers, Sequences, FiniteSetsExt

CONSTANTS
  Org, Order, Handler, None,
  OrgOf, Price,     \* of each order
  Amounts,          \* what customers ask for, rounded to the column's scale
  Limit,            \* the largest amount of one invoice
  MaxInvoices, Late, \* bounds: invoices ever created; the last instant
  MaxReaders         \* bound: 1 when a customer reads its list, or 0

ASSUME InvoicingAssumption ==
  /\ IsFiniteSet(Handler) /\ IsFiniteSet(Order)
  /\ OrgOf \in [Order -> Org] /\ Price \in [Order -> Nat]
  /\ Amounts \subseteq Nat /\ {Limit, MaxInvoices, Late, MaxReaders} \subseteq Nat
  /\ None \notin Order \cup Org

VARIABLES
  paid,      \* orders the payment of which is confirmed (orders.status = Paid)
  invoices,  \* id -> [org, order, amount, status, issued_at]
  now,
  pos, job,  \* a request: position, and what it asks for and has read
  page       \* a customer reading its list: [org, cursor, seen, due], or None

vars == <<paid, invoices, now, pos, job, page>>

Ids == DOMAIN invoices
NextId == Cardinality(Ids) + 1
Statuses == {"Pending", "Issued", "Voided"}

\* Not voided: what counts against an order.
Live(o) == {i \in Ids : invoices[i].order = o /\ invoices[i].status # "Voided"}
\* Sums of amounts count units: a set with as many elements as the amounts say.
Invoiced(o) == UNION {{i} \X (1..invoices[i].amount) : i \in Live(o)}
prior_sum(o) == Cardinality(Invoiced(o))

Asks == [kind : {"create"}, org : Org, order : Order \cup {None}, amount : Amounts]
        \cup [kind : {"issue", "void"}, id : 1..MaxInvoices]

TypeOK ==
  /\ paid \subseteq Order
  /\ Ids = 1..Cardinality(Ids) /\ Cardinality(Ids) <= MaxInvoices
  /\ \A i \in Ids :
       LET v == invoices[i] IN
       /\ v.org \in Org /\ v.order \in Order \cup {None} /\ v.amount \in 1..Limit
       /\ v.status \in Statuses
       /\ v.status = "Issued" => v.issued_at \in 0..now
       /\ v.status = "Pending" => v.issued_at = None
  /\ now \in 0..Late
  /\ pos \in [Handler -> {"idle", "order", "sum", "insert", "update", "reread", "done"}]
  /\ \A h \in Handler : pos[h] # "idle" => job[h].ask \in Asks

Init ==
  /\ paid = {} /\ invoices = <<>> /\ now = 0 /\ page = None
  /\ pos = [h \in Handler |-> "idle"]
  /\ job = [h \in Handler |-> None]

\* The order is confirmed (order.rs); nothing in the program takes that back.
Confirm ==
  /\ \E o \in Order \ paid : paid' = paid \cup {o}
  /\ UNCHANGED <<invoices, now, pos, job, page>>

Tick ==
  /\ now < Late /\ now' = now + 1
  /\ UNCHANGED <<paid, invoices, pos, job, page>>

Goto(h, p, j) == pos' = [pos EXCEPT ![h] = p] /\ job' = [job EXCEPT ![h] = j]
Done(h) == Goto(h, "idle", None)

\* The amount is positive after rounding and within the limit; the type, the
\* title, the tax number of a special invoice and the lengths are as refused.
Valid(n) == n > 0 /\ n <= Limit

BeginCreate(h) ==
  /\ pos[h] = "idle"
  /\ \E org \in Org, o \in Order \cup {None}, n \in Amounts :
       /\ Valid(n)
       /\ Goto(h, IF o = None THEN "insert" ELSE "order",
               [ask |-> [kind |-> "create", org |-> org, order |-> o, amount |-> n]])
  /\ UNCHANGED <<paid, invoices, now, page>>

\* Slip: the order may be another customer's.
AnyPaid(org, o) == o \in paid

\* Another customer's order is as good as none; an unpaid one is refused.
OwnPaid(org, o) == OrgOf[o] = org /\ o \in paid
CheckOrder(h) ==
  /\ pos[h] = "order"
  /\ IF OwnPaid(job[h].ask.org, job[h].ask.order) THEN Goto(h, "sum", job[h]) ELSE Done(h)
  /\ UNCHANGED <<paid, invoices, now, page>>

\* Slip: each invoice on its own against the order.
FitsAlone(o, n) == n <= Price[o]

Fits(o, n) == prior_sum(o) + n <= Price[o]
CheckSum(h) ==
  /\ pos[h] = "sum"
  /\ IF Fits(job[h].ask.order, job[h].ask.amount) THEN Goto(h, "insert", job[h]) ELSE Done(h)
  /\ UNCHANGED <<paid, invoices, now, page>>

New(a) == [org |-> a.org, order |-> a.order, amount |-> a.amount,
           status |-> "Pending", issued_at |-> None]
Insert(h) ==
  /\ pos[h] = "insert" /\ NextId <= MaxInvoices
  /\ invoices' = [i \in Ids \cup {NextId} |-> IF i = NextId THEN New(job[h].ask) ELSE invoices[i]]
  /\ Done(h)
  /\ UNCHANGED <<paid, now, page>>

\* issue and void take their clock before the UPDATE.
BeginUpdate(h) ==
  /\ pos[h] = "idle"
  /\ \E k \in {"issue", "void"}, i \in Ids :
       Goto(h, "update", [ask |-> [kind |-> k, id |-> i], at |-> now])
  /\ UNCHANGED <<paid, invoices, now, page>>

Issuable(v) == v.status = "Pending"
\* Slip: only what is still pending can be voided.
PendingOnly(v) == v.status = "Pending"

Voidable(v) == v.status # "Voided"
Found(a, v) == IF a.kind = "issue" THEN Issuable(v) ELSE Voidable(v)
Updated(j, v) == IF j.ask.kind = "issue" THEN [v EXCEPT !.status = "Issued", !.issued_at = j.at]
                                         ELSE [v EXCEPT !.status = "Voided"]

\* RETURNING gives the row as updated; no row means a second read.
Update(h) ==
  LET j == job[h]  i == j.ask.id IN
  /\ pos[h] = "update"
  /\ IF Found(j.ask, invoices[i])
     THEN /\ invoices' = [invoices EXCEPT ![i] = Updated(j, @)]
          /\ Goto(h, "done", [ask |-> j.ask, answer |-> invoices'[i].status])
     ELSE UNCHANGED invoices /\ Goto(h, "reread", j)
  /\ UNCHANGED <<paid, now, page>>

Reread(h) ==
  /\ pos[h] = "reread"
  /\ Goto(h, "done", [ask |-> job[h].ask, answer |-> invoices[job[h].ask.id].status])
  /\ UNCHANGED <<paid, invoices, now, page>>

Answer(h) == pos[h] = "done" /\ Done(h) /\ UNCHANGED <<paid, invoices, now, page>>

-----------------------------------------------------------------------------
(* A customer reads its list page by page, newest first, one row a page.   *)

OfOrg(org) == {i \in Ids : invoices[i].org = org}
Before(org, c) == {i \in OfOrg(org) : i < c}

OpenList ==
  /\ page = None /\ MaxReaders > 0
  /\ \E org \in Org : page' = [org |-> org, cursor |-> NextId, seen |-> <<>>, due |-> OfOrg(org)]
  /\ UNCHANGED <<paid, invoices, now, pos, job>>

TurnPage ==
  /\ page # None /\ Before(page.org, page.cursor) # {}
  /\ Len(page.seen) < MaxInvoices
  /\ LET i == Max(Before(page.org, page.cursor))
     IN page' = [page EXCEPT !.cursor = i, !.seen = Append(@, i)]
  /\ UNCHANGED <<paid, invoices, now, pos, job>>

Next ==
  \/ Confirm \/ Tick \/ OpenList \/ TurnPage
  \/ \E h \in Handler : \/ BeginCreate(h) \/ CheckOrder(h) \/ CheckSum(h) \/ Insert(h)
                        \/ BeginUpdate(h) \/ Update(h) \/ Reread(h) \/ Answer(h)

Spec == Init /\ [][Next]_vars

-----------------------------------------------------------------------------
InFlight(o) == {h \in Handler : pos[h] = "insert" /\ job[h].ask.order = o}
Passed(o) == UNION {{h} \X (1..job[h].ask.amount) : h \in InFlight(o)}

\* Only races overrun an order.  Live invoices of an order, with those that have
\* passed the check and are about to be inserted, come to its amount once for each
\* request that can be between check and insert at the same time; so one request
\* at a time never invoices more than was paid (create, the cumulative check).
OverrunBounded ==
  \A o \in Order :
    prior_sum(o) + Cardinality(Passed(o)) <= Price[o] * Max({1, Cardinality(Handler)})

\* An invoice that names an order names a paid one of its own organisation,
\* however the order and the request interleave.
BackedByPaidOrder ==
  \A i \in Ids : invoices[i].order # None =>
    OrgOf[invoices[i].order] = invoices[i].org /\ invoices[i].order \in paid

\* A voided invoice stays voided, an issued one is issued once: its date never
\* changes, neither by a second issue nor when it is voided later.
VoidIsFinal ==
  [][\A i \in Ids :
       /\ invoices[i].status = "Voided" => invoices'[i] = invoices[i]
       /\ invoices[i].issued_at # None => invoices'[i].issued_at = invoices[i].issued_at]_vars

\* The second read finds what the comments of issue and void rely on: after void
\* the row is voided, whoever did it, and issue never meets a pending row there.
RereadsAsExpected ==
  \A h \in Handler : pos[h] = "done" =>
    IF job[h].ask.kind = "void" THEN job[h].answer = "Voided" ELSE job[h].answer # "Pending"

\* A customer that reads its list to the end sees every invoice it had when it
\* began exactly once, newest first, and nobody else's, while others are created.
ListExact ==
  page # None =>
    /\ \A i, j \in DOMAIN page.seen : i < j => page.seen[i] > page.seen[j]
    /\ \A i \in DOMAIN page.seen : page.seen[i] \in page.due
    /\ Before(page.org, page.cursor) = {} => page.due = {page.seen[i] : i \in DOMAIN page.seen}

\* Whatever issue, void and create do at once, a voided invoice stays voided and
\* an issued one keeps its date; the second read of issue and void finds what they
\* rely on; and a customer's list shows each of its invoices once (issue, void and
\* list of invoice.rs); with the types of the rows and requests.
InvoicesHold == [](TypeOK /\ RereadsAsExpected /\ ListExact) /\ VoidIsFinal
=============================================================================
