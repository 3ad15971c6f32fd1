--------------------------- MODULE InvoicingProofs ---------------------------
(* Invoices stay what they were made from: the paid order of their own        *)
(* organisation, and a final status.  Both rest on what a request has read    *)
(* still being true when it writes: a paid order stays paid, and a row that an *)
(* update did not find eligible never becomes eligible again.                 *)
EXTENDS Invoicing, TLAPS, FiniteSetTheorems, WellFoundedInduction

----------------------------------------------------------------------------
(* Types, as an invariant that is inductive by itself.                     *)

InvoiceRow == [org : Org, order : Order \cup {None}, amount : 1..Limit,
               status : Statuses, issued_at : 0..Late \cup {None}]
CreateAsk == [kind : {"create"}, org : Org, order : Order \cup {None}, amount : Amounts]
UpdateAsk == [kind : {"issue", "void"}, id : 1..MaxInvoices]
Positions == {"idle", "order", "sum", "insert", "update", "reread", "done"}
JobType == [ask : CreateAsk] \cup [ask : UpdateAsk, at : 0..Late]
           \cup [ask : UpdateAsk, answer : Statuses] \cup {None}

\* Ids are given out without gaps.
RowTypes ==
  /\ \E n \in 0..MaxInvoices : invoices \in [1..n -> InvoiceRow]
  /\ \A i \in Ids : /\ invoices[i].status = "Pending" => invoices[i].issued_at = None
                    /\ invoices[i].status = "Issued" => invoices[i].issued_at \in 0..now

\* A request carries at each position what the next statement uses.
JobTypes ==
  /\ pos \in [Handler -> Positions] /\ job \in [Handler -> JobType]
  /\ \A h \in Handler :
       /\ pos[h] \in {"order", "sum", "insert"} =>
            job[h] \in [ask : CreateAsk] /\ job[h].ask.amount \in 1..Limit
       /\ pos[h] = "order" => job[h].ask.order # None
       /\ pos[h] \in {"update", "reread"} =>
            job[h] \in [ask : UpdateAsk, at : 0..now] /\ job[h].ask.id \in Ids
       /\ pos[h] = "done" => job[h] \in [ask : UpdateAsk, answer : Statuses]

Types == paid \subseteq Order /\ now \in 0..Late /\ RowTypes /\ JobTypes

LEMMA NextIdFresh ==
  ASSUME NEW n \in Nat, DOMAIN invoices = 1..n
  PROVE  Ids = 1..n /\ Cardinality(Ids) = n /\ NextId = n + 1
<1>1. Cardinality(1..n) = IF 1 > n THEN 0 ELSE n - 1 + 1
  BY FS_Interval
<1>2. Cardinality(1..n) = n
  BY <1>1
<1>3. QED
  BY <1>2 DEF Ids, NextId

LEMMA TypesTypeOK == Types => TypeOK
<1> SUFFICES ASSUME Types PROVE TypeOK
  OBVIOUS
<1>1. PICK n \in 0..MaxInvoices : invoices \in [1..n -> InvoiceRow]
  BY DEF Types, RowTypes
<1>2. n \in Nat /\ MaxInvoices \in Nat /\ n <= MaxInvoices
  BY InvoicingAssumption
<1>3. Ids = 1..n /\ Cardinality(Ids) = n
  BY <1>1, <1>2, NextIdFresh
<1>4. \A i \in Ids :
        /\ invoices[i].org \in Org /\ invoices[i].order \in Order \cup {None}
        /\ invoices[i].amount \in 1..Limit /\ invoices[i].status \in Statuses
        /\ invoices[i].status = "Issued" => invoices[i].issued_at \in 0..now
        /\ invoices[i].status = "Pending" => invoices[i].issued_at = None
  BY <1>1, <1>3 DEF Types, RowTypes, InvoiceRow
<1>5. \A h \in Handler : pos[h] # "idle" => job[h].ask \in Asks
  BY DEF Types, JobTypes, Positions, CreateAsk, UpdateAsk, Asks
<1>6. pos \in [Handler -> {"idle", "order", "sum", "insert", "update", "reread", "done"}]
  BY DEF Types, JobTypes, Positions
<1>7. QED
  BY <1>2, <1>3, <1>4, <1>5, <1>6 DEF TypeOK, Types

----------------------------------------------------------------------------
(* What one request does leaves the others alone.                          *)

LEMMA GotoOthers ==
  ASSUME JobTypes, NEW h \in Handler, NEW p \in Positions, NEW j \in JobType, Goto(h, p, j)
  PROVE  /\ pos' \in [Handler -> Positions] /\ job' \in [Handler -> JobType]
         /\ pos'[h] = p /\ job'[h] = j
         /\ \A g \in Handler \ {h} : pos'[g] = pos[g] /\ job'[g] = job[g]
  BY DEF JobTypes, Goto

\* Rows unchanged and a request at its next place.
LEMMA JobMoves ==
  ASSUME Types, NEW h \in Handler, NEW p \in Positions, NEW j \in JobType,
         Goto(h, p, j), UNCHANGED <<invoices, now>>,
         p \in {"order", "sum", "insert"} =>
           j \in [ask : CreateAsk] /\ j.ask.amount \in 1..Limit,
         p = "order" => j.ask.order # None,
         p \in {"update", "reread"} =>
           j \in [ask : UpdateAsk, at : 0..now] /\ j.ask.id \in Ids,
         p = "done" => j \in [ask : UpdateAsk, answer : Statuses]
  PROVE  RowTypes' /\ JobTypes'
<1>1. RowTypes'
  BY DEF Types, RowTypes, Ids
<1>2. Ids' = Ids
  BY DEF Ids
<1>3. JobTypes'
  BY <1>2, GotoOthers DEF Types, JobTypes
<1>4. QED
  BY <1>1, <1>3

LEMMA IdleNone == "idle" \in Positions /\ None \in JobType
  BY DEF Positions, JobType

LEMMA InsertTypes ==
  ASSUME Types, NEW h \in Handler, Insert(h)
  PROVE  /\ RowTypes' /\ JobTypes'
         /\ \E n \in Nat : /\ Ids = 1..n /\ Ids' = 1..(n + 1)
                           /\ \A i \in 1..n : invoices'[i] = invoices[i]
                           /\ invoices'[n + 1] = New(job[h].ask)
<1>1. PICK n \in 0..MaxInvoices : invoices \in [1..n -> InvoiceRow]
  BY DEF Types, RowTypes
<1>2. n \in Nat /\ MaxInvoices \in Nat
  BY InvoicingAssumption
<1>3. Ids = 1..n /\ NextId = n + 1
  BY <1>1, <1>2, NextIdFresh
<1>4. n + 1 \in 0..MaxInvoices
  BY <1>2, <1>3 DEF Insert
<1>5. job[h] \in [ask : CreateAsk] /\ job[h].ask.amount \in 1..Limit
  BY DEF Insert, Types, JobTypes
<1>6. New(job[h].ask) \in InvoiceRow
  BY <1>5 DEF New, InvoiceRow, CreateAsk, Statuses
<1>7. Ids \cup {NextId} = 1..(n + 1)
  BY <1>2, <1>3
<1>8. invoices' = [i \in 1..(n + 1) |-> IF i = n + 1 THEN New(job[h].ask) ELSE invoices[i]]
  BY <1>3, <1>7 DEF Insert
<1>9. /\ invoices' \in [1..(n + 1) -> InvoiceRow]
      /\ \A i \in 1..n : invoices'[i] = invoices[i]
      /\ invoices'[n + 1] = New(job[h].ask)
  <2>1. \A i \in 1..(n + 1) : i # n + 1 => i \in 1..n
    BY <1>2
  <2>2. n + 1 \in 1..(n + 1) /\ \A i \in 1..n : i \in 1..(n + 1) /\ i # n + 1
    BY <1>2
  <2>3. QED
    BY <1>1, <1>6, <1>8, <2>1, <2>2
<1>10. Ids' = 1..(n + 1)
  BY <1>9 DEF Ids
<1>11. RowTypes'
  <2>1. UNCHANGED now
    BY DEF Insert
  <2>2. \A i \in 1..(n + 1) :
          /\ invoices'[i].status = "Pending" => invoices'[i].issued_at = None
          /\ invoices'[i].status = "Issued" => invoices'[i].issued_at \in 0..now
    <3> TAKE i \in 1..(n + 1)
    <3>1. CASE i = n + 1
      BY <1>9, <3>1 DEF New
    <3>2. CASE i # n + 1
      <4>1. i \in 1..n
        BY <3>2, <1>2
      <4>2. QED
        BY <1>3, <1>9, <4>1 DEF Types, RowTypes
    <3>3. QED
      BY <3>1, <3>2
  <2>3. QED
    BY <1>4, <1>9, <1>10, <2>1, <2>2 DEF RowTypes
<1>12. JobTypes'
  <2>1. Goto(h, "idle", None) /\ UNCHANGED now
    BY DEF Insert, Done
  <2>2. \A i \in Ids : i \in Ids'
    BY <1>2, <1>3, <1>10
  <2>3. QED
    BY <2>1, <2>2, GotoOthers, IdleNone DEF Types, JobTypes
<1>13. QED
  BY <1>2, <1>3, <1>9, <1>10, <1>11, <1>12

LEMMA UpdateTypes ==
  ASSUME Types, NEW h \in Handler, Update(h)
  PROVE  RowTypes' /\ JobTypes' /\ Ids' = Ids
<1> DEFINE j == job[h]
           i == job[h].ask.id
<1>1. PICK n \in 0..MaxInvoices : invoices \in [1..n -> InvoiceRow]
  BY DEF Types, RowTypes
<1>2. Ids = 1..n
  BY <1>1 DEF Ids
<1>3. j \in [ask : UpdateAsk, at : 0..now] /\ i \in Ids /\ pos[h] = "update"
  BY DEF Update, Types, JobTypes
<1>4. UNCHANGED now /\ now \in 0..Late /\ 0..now \subseteq 0..Late
  <2>1. Late \in Nat
    BY InvoicingAssumption
  <2>2. UNCHANGED now
    BY DEF Update
  <2>3. QED
    BY <2>1, <2>2 DEF Types
<1>5. CASE Found(j.ask, invoices[i])
  <2>1. /\ invoices' = [invoices EXCEPT ![i] = Updated(j, @)]
        /\ Goto(h, "done", [ask |-> j.ask, answer |-> invoices'[i].status])
    BY <1>5 DEF Update
  <2>2. Updated(j, invoices[i]) \in InvoiceRow
    <3>1. invoices[i] \in InvoiceRow /\ j.at \in 0..Late
      BY <1>1, <1>2, <1>3, <1>4
    <3>2. QED
      BY <3>1 DEF Updated, InvoiceRow, Statuses
  <2>3. invoices' \in [1..n -> InvoiceRow] /\ Ids' = Ids
    BY <1>1, <1>2, <2>1, <2>2 DEF Ids
  <2>4. invoices'[i] = Updated(j, invoices[i]) /\ \A k \in Ids \ {i} : invoices'[k] = invoices[k]
    BY <1>1, <1>2, <1>3, <2>1
  <2>5. /\ Updated(j, invoices[i]).status # "Pending"
        /\ Updated(j, invoices[i]).status = "Issued" =>
             Updated(j, invoices[i]).issued_at \in 0..now
    BY <1>1, <1>2, <1>3 DEF Updated, InvoiceRow
  <2>6. RowTypes'
    <3>1. \A k \in Ids : /\ invoices'[k].status = "Pending" => invoices'[k].issued_at = None
                         /\ invoices'[k].status = "Issued" => invoices'[k].issued_at \in 0..now
      BY <2>4, <2>5 DEF Types, RowTypes
    <3>2. \A k \in Ids' : /\ invoices'[k].status = "Pending" => invoices'[k].issued_at = None
                          /\ invoices'[k].status = "Issued" => invoices'[k].issued_at \in 0..now'
      BY <1>4, <2>3, <3>1
    <3>3. QED
      BY <1>1, <2>3, <3>2 DEF RowTypes
  <2>7. [ask |-> j.ask, answer |-> invoices'[i].status] \in [ask : UpdateAsk, answer : Statuses]
    BY <1>3, <2>2, <2>4 DEF InvoiceRow
  <2> DEFINE new == [ask |-> j.ask, answer |-> invoices'[i].status]
  <2>8. JobTypes'
    <3>1. new \in [ask : UpdateAsk, answer : Statuses] /\ Goto(h, "done", new)
      BY <2>1, <2>7
    <3>2. new \in JobType /\ "done" \in Positions
      BY <3>1 DEF JobType, Positions
    <3> HIDE DEF new
    <3>3. /\ pos' \in [Handler -> Positions] /\ job' \in [Handler -> JobType]
          /\ pos'[h] = "done" /\ job'[h] = new
          /\ \A g \in Handler \ {h} : pos'[g] = pos[g] /\ job'[g] = job[g]
      BY <3>1, <3>2, GotoOthers DEF Types
    <3>4. QED
      BY <1>4, <2>3, <3>1, <3>3 DEF Types, JobTypes
  <2>9. QED
    BY <2>3, <2>6, <2>8
<1>6. CASE ~Found(j.ask, invoices[i])
  <2>1. UNCHANGED invoices /\ Goto(h, "reread", j)
    BY <1>6 DEF Update
  <2>2. j \in JobType /\ "reread" \in Positions
    BY DEF Types, JobTypes, Positions
  <2>3. RowTypes' /\ JobTypes'
    BY <1>3, <1>4, <2>1, <2>2, JobMoves
  <2>4. QED
    BY <2>1, <2>3 DEF Ids
<1>7. QED
  BY <1>5, <1>6

LEMMA RequestTypes ==
  ASSUME Types, NEW h \in Handler,
         BeginCreate(h) \/ CheckOrder(h) \/ CheckSum(h) \/ BeginUpdate(h) \/ Reread(h) \/ Answer(h)
  PROVE  RowTypes' /\ JobTypes'
<1>0. UNCHANGED <<invoices, now>> /\ job[h] \in JobType
  BY DEF BeginCreate, CheckOrder, CheckSum, BeginUpdate, Reread, Answer, Types, JobTypes
<1>1. CASE BeginCreate(h)
  <2>1. PICK org \in Org, o \in Order \cup {None}, n \in Amounts :
          /\ Valid(n)
          /\ Goto(h, IF o = None THEN "insert" ELSE "order",
                  [ask |-> [kind |-> "create", org |-> org, order |-> o, amount |-> n]])
    BY <1>1 DEF BeginCreate
  <2> DEFINE new == [ask |-> [kind |-> "create", org |-> org, order |-> o, amount |-> n]]
  <2>2. new \in [ask : CreateAsk] /\ new.ask.amount = n /\ new.ask.order = o
    BY DEF CreateAsk
  <2>3. n \in 1..Limit
    <3>1. n \in Nat /\ Limit \in Nat
      BY InvoicingAssumption
    <3>2. QED
      BY <2>1, <3>1 DEF Valid
  <2>4. new \in JobType
    BY <2>2 DEF JobType
  <2>5. CASE o = None
    BY <1>0, <2>1, <2>2, <2>3, <2>4, <2>5, JobMoves DEF Positions
  <2>6. CASE o # None
    BY <1>0, <2>1, <2>2, <2>3, <2>4, <2>6, JobMoves DEF Positions
  <2>7. QED
    BY <2>5, <2>6
<1>2. CASE CheckOrder(h) \/ CheckSum(h)
  <2>1. pos[h] \in {"order", "sum"} /\ job[h] \in [ask : CreateAsk] /\ job[h].ask.amount \in 1..Limit
    BY <1>2 DEF CheckOrder, CheckSum, Types, JobTypes
  <2>2. Goto(h, "sum", job[h]) \/ Goto(h, "insert", job[h]) \/ Goto(h, "idle", None)
    BY <1>2 DEF CheckOrder, CheckSum, Done
  <2>3. QED
    BY <1>0, <2>1, <2>2, JobMoves, IdleNone DEF Positions
<1>3. CASE BeginUpdate(h)
  <2>1. PICK k \in {"issue", "void"}, i \in Ids :
          Goto(h, "update", [ask |-> [kind |-> k, id |-> i], at |-> now])
    BY <1>3 DEF BeginUpdate
  <2> DEFINE new == [ask |-> [kind |-> k, id |-> i], at |-> now]
  <2>2. PICK n \in 0..MaxInvoices : invoices \in [1..n -> InvoiceRow]
    BY DEF Types, RowTypes
  <2>3. i \in 1..MaxInvoices
    <3>1. MaxInvoices \in Nat
      BY InvoicingAssumption
    <3>2. QED
      BY <2>2, <3>1 DEF Ids
  <2>4. now \in 0..now /\ now \in 0..Late
    BY InvoicingAssumption DEF Types
  <2>5. new \in [ask : UpdateAsk, at : 0..now] /\ new \in [ask : UpdateAsk, at : 0..Late]
    BY <2>3, <2>4 DEF UpdateAsk
  <2>6. new \in JobType /\ new.ask.id \in Ids
    BY <2>5 DEF JobType
  <2>7. QED
    BY <1>0, <2>1, <2>5, <2>6, JobMoves DEF Positions
<1>4. CASE Reread(h)
  <2> DEFINE new == [ask |-> job[h].ask, answer |-> invoices[job[h].ask.id].status]
  <2>1. Goto(h, "done", new) /\ job[h].ask \in UpdateAsk /\ job[h].ask.id \in Ids
    BY <1>4 DEF Reread, Types, JobTypes
  <2>2. invoices[job[h].ask.id].status \in Statuses
    BY <2>1 DEF Types, RowTypes, InvoiceRow, Ids
  <2>3. new \in [ask : UpdateAsk, answer : Statuses] /\ new \in JobType
    BY <2>1, <2>2 DEF JobType
  <2>4. QED
    BY <1>0, <2>1, <2>3, JobMoves DEF Positions
<1>5. CASE Answer(h)
  <2>1. Goto(h, "idle", None)
    BY <1>5 DEF Answer, Done
  <2>2. QED
    BY <1>0, <2>1, IdleNone, JobMoves
<1>6. QED
  BY <1>1, <1>2, <1>3, <1>4, <1>5

LEMMA TypesInit == Init => Types
<1> SUFFICES ASSUME Init PROVE Types
  OBVIOUS
<1>1. invoices \in [1..0 -> InvoiceRow] /\ Ids = {} /\ 0 \in 0..MaxInvoices
  <2>1. 1..0 = {} /\ 0 \in 0..MaxInvoices
    BY InvoicingAssumption
  <2>2. QED
    BY <2>1 DEF Init, Ids
<1>2. 0 \in 0..Late
  BY InvoicingAssumption
<1>3. QED
  BY <1>1, <1>2, IdleNone DEF Init, Types, RowTypes, JobTypes

LEMMA TypesStep == Types /\ [Next]_vars => Types'
<1> SUFFICES ASSUME Types, [Next]_vars PROVE Types'
  OBVIOUS
<1>1. CASE UNCHANGED <<invoices, now, pos, job>> /\ paid' \subseteq Order
  BY <1>1 DEF Types, RowTypes, JobTypes, Ids
<1>2. CASE Tick
  <2>1. now' \in 0..Late /\ \A t \in 0..now : t \in 0..now'
    BY <1>2, InvoicingAssumption DEF Tick, Types
  <2>2. UNCHANGED <<paid, invoices, pos, job>> /\ Ids' = Ids
    BY <1>2 DEF Tick, Ids
  <2>3. RowTypes'
    BY <2>1, <2>2 DEF Types, RowTypes
  <2>4. \A j : j \in [ask : UpdateAsk, at : 0..now] => j \in [ask : UpdateAsk, at : 0..now']
    BY <2>1
  <2>5. JobTypes'
    BY <2>2, <2>4 DEF Types, JobTypes
  <2>6. QED
    BY <2>1, <2>2, <2>3, <2>5 DEF Types
<1>3. CASE \E h \in Handler : Insert(h) \/ Update(h)
  BY <1>3, InsertTypes, UpdateTypes DEF Types, Insert, Update
<1>4. CASE \E h \in Handler : \/ BeginCreate(h) \/ CheckOrder(h) \/ CheckSum(h)
                              \/ BeginUpdate(h) \/ Reread(h) \/ Answer(h)
  BY <1>4, RequestTypes
  DEF Types, BeginCreate, CheckOrder, CheckSum, BeginUpdate, Reread, Answer
<1>5. CASE Confirm \/ OpenList \/ TurnPage \/ UNCHANGED vars
  <2>1. UNCHANGED <<invoices, now, pos, job>> /\ paid' \subseteq Order
    BY <1>5 DEF Confirm, OpenList, TurnPage, vars, Types
  <2>2. QED
    BY <2>1, <1>1
<1>6. QED
  BY <1>2, <1>3, <1>4, <1>5 DEF Next

\* Every state of the specification is of the declared types (Invoicing!TypeOK).
THEOREM TypeCorrect == Spec => []TypeOK
<1>1. Spec => []Types
  BY TypesInit, TypesStep, PTL DEF Spec
<1>2. QED
  BY <1>1, TypesTypeOK, PTL

----------------------------------------------------------------------------
(* The order an invoice names                                              *)

\* What CheckOrder found stays true: an order keeps its organisation, and
\* nothing takes a payment back.
CheckedOrders ==
  \A h \in Handler : pos[h] \in {"sum", "insert"} /\ job[h].ask.order # None =>
    OwnPaid(job[h].ask.org, job[h].ask.order)

BackingInv == Types /\ BackedByPaidOrder /\ CheckedOrders

LEMMA BackingKept ==
  ASSUME BackedByPaidOrder, paid \subseteq paid', UNCHANGED invoices
  PROVE  BackedByPaidOrder'
  BY DEF BackedByPaidOrder, Ids

LEMMA CheckedKept ==
  ASSUME CheckedOrders, paid \subseteq paid', NEW h \in Handler,
         \A g \in Handler \ {h} : pos'[g] = pos[g] /\ job'[g] = job[g],
         pos'[h] \in {"sum", "insert"} /\ job'[h].ask.order # None =>
           OwnPaid(job'[h].ask.org, job'[h].ask.order)
  PROVE  CheckedOrders'
  BY DEF CheckedOrders, OwnPaid

\* Where a request goes in one step, and that its order has been checked there.
LEMMA MoveChecked ==
  ASSUME Types, CheckedOrders, NEW h \in Handler,
         \/ BeginCreate(h) \/ CheckOrder(h) \/ CheckSum(h) \/ Insert(h)
         \/ BeginUpdate(h) \/ Update(h) \/ Reread(h) \/ Answer(h)
  PROVE  CheckedOrders'
<1>0. UNCHANGED paid
  BY DEF BeginCreate, CheckOrder, CheckSum, Insert, BeginUpdate, Update, Reread, Answer
<1>1. \A g \in Handler \ {h} : pos'[g] = pos[g] /\ job'[g] = job[g]
  BY DEF BeginCreate, CheckOrder, CheckSum, Insert, BeginUpdate, Update, Reread, Answer,
         Done, Goto, Types, JobTypes
<1>2. pos \in [Handler -> Positions] /\ job \in [Handler -> JobType]
  BY DEF Types, JobTypes
<1>3. CASE BeginCreate(h)
  <2>1. PICK org \in Org, o \in Order \cup {None}, n \in Amounts :
          Goto(h, IF o = None THEN "insert" ELSE "order",
               [ask |-> [kind |-> "create", org |-> org, order |-> o, amount |-> n]])
    BY <1>3 DEF BeginCreate
  <2>2. job'[h].ask.order = o /\ (o # None => pos'[h] = "order")
    BY <1>2, <2>1 DEF Goto
  <2>3. QED
    BY <1>0, <1>1, <2>2, CheckedKept
<1>4. CASE CheckOrder(h)
  <2>1. pos'[h] = "sum" => job'[h] = job[h] /\ OwnPaid(job[h].ask.org, job[h].ask.order)
    BY <1>2, <1>4 DEF CheckOrder, Goto, Done
  <2>2. pos'[h] \in {"sum", "idle"}
    BY <1>2, <1>4 DEF CheckOrder, Goto, Done
  <2>3. QED
    BY <1>0, <1>1, <2>1, <2>2, CheckedKept DEF OwnPaid
<1>5. CASE CheckSum(h)
  <2>1. pos[h] = "sum" /\ (Goto(h, "insert", job[h]) \/ Goto(h, "idle", None))
    BY <1>5 DEF CheckSum, Done
  <2>2. pos'[h] \in {"sum", "insert"} /\ job'[h].ask.order # None =>
          OwnPaid(job'[h].ask.org, job'[h].ask.order)
    <3>0. JobTypes /\ job[h] \in JobType /\ "insert" \in Positions
      BY <1>2 DEF Types, Positions
    <3>1. pos'[h] = "idle" \/ (pos'[h] = "insert" /\ job'[h] = job[h])
      BY <2>1, <3>0, IdleNone, GotoOthers
    <3>2. QED
      BY <2>1, <3>1 DEF CheckedOrders
  <2>3. QED
    BY <1>0, <1>1, <2>2, CheckedKept
<1>6. CASE Insert(h) \/ BeginUpdate(h) \/ Update(h) \/ Reread(h) \/ Answer(h)
  <2>1. pos'[h] \in {"idle", "update", "reread", "done"}
    BY <1>2, <1>6 DEF Insert, BeginUpdate, Update, Reread, Answer, Goto, Done
  <2>2. QED
    BY <1>0, <1>1, <2>1, CheckedKept
<1>7. QED
  BY <1>3, <1>4, <1>5, <1>6

LEMMA InsertBacked ==
  ASSUME BackingInv, NEW h \in Handler, Insert(h)
  PROVE  BackedByPaidOrder'
<1>1. Types /\ BackedByPaidOrder /\ CheckedOrders /\ UNCHANGED paid /\ pos[h] = "insert"
  BY DEF BackingInv, Insert
<1>2. PICK n \in Nat : /\ Ids = 1..n /\ Ids' = 1..(n + 1)
                       /\ \A i \in 1..n : invoices'[i] = invoices[i]
                       /\ invoices'[n + 1] = New(job[h].ask)
  BY <1>1, InsertTypes
<1>3. SUFFICES ASSUME NEW i \in 1..(n + 1), invoices'[i].order # None
               PROVE  OrgOf[invoices'[i].order] = invoices'[i].org /\ invoices'[i].order \in paid'
  BY <1>2 DEF BackedByPaidOrder
<1>4. CASE i = n + 1
  <2>1. invoices'[i].order = job[h].ask.order /\ invoices'[i].org = job[h].ask.org
    BY <1>2, <1>4 DEF New
  <2>2. OwnPaid(job[h].ask.org, job[h].ask.order)
    BY <1>1, <1>3, <2>1 DEF CheckedOrders
  <2>3. QED
    BY <1>1, <2>1, <2>2 DEF OwnPaid
<1>5. CASE i # n + 1
  <2>1. i \in 1..n
    BY <1>5
  <2>2. QED
    BY <1>1, <1>2, <1>3, <2>1 DEF BackedByPaidOrder
<1>6. QED
  BY <1>4, <1>5

\* An update of a row: its status, and its date when it is issued.
LEMMA UpdateEffect ==
  ASSUME Types, NEW h \in Handler, Update(h)
  PROVE  \/ UNCHANGED invoices
         \/ LET i == job[h].ask.id  v == invoices[i] IN
            /\ i \in Ids /\ invoices' = [invoices EXCEPT ![i] = invoices'[i]]
            /\ invoices'[i] = Updated(job[h], v) /\ Found(job[h].ask, v)
            /\ invoices'[i].org = v.org /\ invoices'[i].order = v.order
<1>1. PICK n \in 0..MaxInvoices : invoices \in [1..n -> InvoiceRow]
  BY DEF Types, RowTypes
<1>2. job[h].ask.id \in 1..n /\ Ids = 1..n
  BY <1>1 DEF Update, Types, JobTypes, Ids
<1>3. CASE Found(job[h].ask, invoices[job[h].ask.id])
  <2>1. invoices' = [invoices EXCEPT ![job[h].ask.id] = Updated(job[h], @)]
    BY <1>3 DEF Update
  <2>2. invoices'[job[h].ask.id] = Updated(job[h], invoices[job[h].ask.id])
    BY <1>1, <1>2, <2>1
  <2>3. invoices[job[h].ask.id] \in InvoiceRow
    BY <1>1, <1>2
  <2>4. /\ Updated(job[h], invoices[job[h].ask.id]).org = invoices[job[h].ask.id].org
        /\ Updated(job[h], invoices[job[h].ask.id]).order = invoices[job[h].ask.id].order
    BY <2>3 DEF Updated, InvoiceRow
  <2>5. QED
    BY <1>2, <1>3, <2>1, <2>2, <2>4
<1>4. CASE ~Found(job[h].ask, invoices[job[h].ask.id])
  BY <1>4 DEF Update
<1>5. QED
  BY <1>3, <1>4

LEMMA UpdateBacked ==
  ASSUME BackingInv, NEW h \in Handler, Update(h)
  PROVE  BackedByPaidOrder'
<1>1. Types /\ BackedByPaidOrder /\ UNCHANGED paid
  BY DEF BackingInv, Update
<1>2. Ids' = Ids
  BY <1>1, UpdateTypes
<1>3. \A k \in Ids : invoices'[k].org = invoices[k].org /\ invoices'[k].order = invoices[k].order
  <2>1. PICK n \in 0..MaxInvoices : invoices \in [1..n -> InvoiceRow]
    BY <1>1 DEF Types, RowTypes
  <2>2. QED
    BY <1>1, <2>1, UpdateEffect DEF Ids
<1>4. QED
  BY <1>1, <1>2, <1>3 DEF BackedByPaidOrder

LEMMA BackingStep == BackingInv /\ [Next]_vars => BackingInv'
<1> SUFFICES ASSUME BackingInv, [Next]_vars PROVE BackingInv'
  OBVIOUS
<1>0. Types /\ BackedByPaidOrder /\ CheckedOrders /\ Types'
  BY TypesStep DEF BackingInv
<1>1. CASE Confirm \/ Tick \/ OpenList \/ TurnPage \/ UNCHANGED vars
  <2>1. UNCHANGED <<invoices, pos, job>> /\ paid \subseteq paid'
    BY <1>1 DEF Confirm, Tick, OpenList, TurnPage, vars
  <2>2. BackedByPaidOrder'
    BY <1>0, <2>1, BackingKept
  <2>3. CheckedOrders'
    BY <1>0, <2>1 DEF CheckedOrders, OwnPaid
  <2>4. QED
    BY <1>0, <2>2, <2>3 DEF BackingInv
<1>2. ASSUME NEW h \in Handler,
             \/ BeginCreate(h) \/ CheckOrder(h) \/ CheckSum(h) \/ Insert(h)
             \/ BeginUpdate(h) \/ Update(h) \/ Reread(h) \/ Answer(h)
      PROVE  BackingInv'
  <2>1. CheckedOrders'
    BY <1>0, <1>2, MoveChecked
  <2>2. CASE Insert(h) \/ Update(h)
    BY <1>0, <2>1, <2>2, InsertBacked, UpdateBacked DEF BackingInv
  <2>3. CASE ~(Insert(h) \/ Update(h))
    <3>1. UNCHANGED <<invoices, paid>>
      BY <1>2, <2>3 DEF BeginCreate, CheckOrder, CheckSum, BeginUpdate, Reread, Answer
    <3>2. QED
      BY <1>0, <2>1, <3>1, BackingKept DEF BackingInv
  <2>4. QED
    BY <2>2, <2>3
<1>3. QED
  BY <1>1, <1>2 DEF Next

\* An invoice that names an order names a paid one of its own organisation,
\* whatever happens between create's reads and its insert (BackedByPaidOrder).
THEOREM AlwaysBackedByPaidOrder == Spec => []BackedByPaidOrder
<1>1. Init => BackingInv
  BY TypesInit DEF Init, BackingInv, BackedByPaidOrder, CheckedOrders, Ids
<1>2. BackingInv => BackedByPaidOrder
  BY DEF BackingInv
<1>3. QED
  BY <1>1, <1>2, BackingStep, PTL DEF Spec

----------------------------------------------------------------------------
(* Statuses only go forward                                                *)

\* What an update of another request does to a row: it ends a Pending one, or
\* voids it.
RowOnward(i) ==
  /\ invoices[i].status = "Voided" => invoices'[i] = invoices[i]
  /\ invoices[i].status # "Pending" => invoices'[i].status # "Pending"
  /\ invoices[i].issued_at # None => invoices'[i].issued_at = invoices[i].issued_at
  /\ invoices'[i].status \in Statuses

LEMMA UpdateOnward ==
  ASSUME Types, NEW h \in Handler, Update(h), NEW i \in Ids
  PROVE  RowOnward(i)
<1>1. PICK n \in 0..MaxInvoices : invoices \in [1..n -> InvoiceRow]
  BY DEF Types, RowTypes
<1>2. Ids = 1..n /\ invoices[i] \in InvoiceRow
  BY <1>1 DEF Ids
<1>3. CASE invoices'[i] = invoices[i]
  BY <1>2, <1>3 DEF RowOnward, InvoiceRow
<1>4. CASE invoices'[i] # invoices[i]
  <2>1. /\ invoices'[i] = Updated(job[h], invoices[i]) /\ Found(job[h].ask, invoices[i])
        /\ i = job[h].ask.id
    BY <1>1, <1>2, <1>4, UpdateEffect
  <2>2. invoices[i].status = "Pending" => invoices[i].issued_at = None
    BY DEF Types, RowTypes
  <2>3. CASE job[h].ask.kind = "issue"
    <3>1. invoices[i].status = "Pending"
      BY <2>1, <2>3 DEF Found, Issuable
    <3>2. invoices'[i].status = "Issued"
      BY <1>2, <2>1, <2>3 DEF Updated, InvoiceRow
    <3>3. QED
      BY <2>2, <3>1, <3>2 DEF RowOnward, Statuses
  <2>4. CASE job[h].ask.kind # "issue"
    <3>1. invoices[i].status # "Voided"
      BY <2>1, <2>4 DEF Found, Voidable
    <3>2. invoices'[i].status = "Voided" /\ invoices'[i].issued_at = invoices[i].issued_at
      BY <1>2, <2>1, <2>4 DEF Updated, InvoiceRow
    <3>3. QED
      BY <3>1, <3>2 DEF RowOnward, Statuses
  <2>5. QED
    BY <2>3, <2>4
<1>5. QED
  BY <1>3, <1>4

LEMMA RowsOnward == Types /\ [Next]_vars => \A i \in Ids : RowOnward(i) /\ i \in Ids'
<1> SUFFICES ASSUME Types, [Next]_vars, NEW i \in Ids PROVE RowOnward(i) /\ i \in Ids'
  OBVIOUS
<1>1. invoices[i] \in InvoiceRow
  BY DEF Types, RowTypes, Ids
<1>2. CASE \E h \in Handler : Update(h)
  BY <1>2, UpdateOnward, UpdateTypes
<1>3. CASE \E h \in Handler : Insert(h)
  <2>1. invoices'[i] = invoices[i] /\ i \in Ids'
    BY <1>3, InsertTypes
  <2>2. QED
    BY <1>1, <2>1 DEF RowOnward, InvoiceRow
<1>4. CASE UNCHANGED invoices
  BY <1>1, <1>4 DEF RowOnward, InvoiceRow, Ids
<1>5. QED
  BY <1>2, <1>3, <1>4
  DEF Next, Confirm, Tick, OpenList, TurnPage, vars,
      BeginCreate, CheckOrder, CheckSum, BeginUpdate, Reread, Answer

\* A voided invoice stays voided and an issued one keeps its date (VoidIsFinal).
THEOREM VoidAlwaysFinal == Spec => VoidIsFinal
<1>1. Spec => []Types
  BY TypesInit, TypesStep, PTL DEF Spec
<1>2. Types /\ [Next]_vars =>
        [\A i \in Ids :
           /\ invoices[i].status = "Voided" => invoices'[i] = invoices[i]
           /\ invoices[i].issued_at # None => invoices'[i].issued_at = invoices[i].issued_at]_vars
  BY RowsOnward DEF RowOnward
<1>3. QED
  BY <1>1, <1>2, PTL DEF Spec, VoidIsFinal

\* An update that found no eligible row knows something that lasts: the row is
\* voided, or is no longer pending.
MissedRows ==
  \A h \in Handler : pos[h] = "reread" =>
    IF job[h].ask.kind = "void" THEN invoices[job[h].ask.id].status = "Voided"
    ELSE invoices[job[h].ask.id].status # "Pending"

RereadInv == Types /\ MissedRows /\ RereadsAsExpected

\* What a request at "reread" or "done" knows, if it was not there before.
Arrived(h) ==
  /\ pos'[h] = "reread" =>
       IF job'[h].ask.kind = "void" THEN invoices'[job'[h].ask.id].status = "Voided"
       ELSE invoices'[job'[h].ask.id].status # "Pending"
  /\ pos'[h] = "done" =>
       IF job'[h].ask.kind = "void" THEN job'[h].answer = "Voided" ELSE job'[h].answer # "Pending"

LEMMA UpdateArrives ==
  ASSUME Types, NEW h \in Handler, Update(h)
  PROVE  Arrived(h)
<1> DEFINE a == job[h].ask
           v == invoices[job[h].ask.id]
<1>1. job[h] \in [ask : UpdateAsk, at : 0..now] /\ a.id \in Ids /\ JobTypes
  BY DEF Update, Types, JobTypes
<1>2. PICK n \in 0..MaxInvoices : invoices \in [1..n -> InvoiceRow]
  BY DEF Types, RowTypes
<1>3. Ids = 1..n /\ v \in InvoiceRow
  BY <1>1, <1>2 DEF Ids
<1>4. pos \in [Handler -> Positions] /\ job \in [Handler -> JobType]
  BY <1>1 DEF JobTypes
<1>5. CASE Found(a, v)
  <2>1. /\ invoices' = [invoices EXCEPT ![a.id] = Updated(job[h], @)]
        /\ Goto(h, "done", [ask |-> a, answer |-> invoices'[a.id].status])
    BY <1>5 DEF Update
  <2>2. invoices'[a.id] = Updated(job[h], v)
    BY <1>1, <1>2, <1>3, <2>1
  <2>3. invoices'[a.id].status = IF a.kind = "issue" THEN "Issued" ELSE "Voided"
    BY <1>3, <2>2 DEF Updated, InvoiceRow
  <2>4. pos'[h] = "done" /\ job'[h] = [ask |-> a, answer |-> invoices'[a.id].status]
    BY <1>4, <2>1 DEF Goto
  <2>5. a.kind \in {"issue", "void"}
    BY <1>1 DEF UpdateAsk
  <2>6. QED
    BY <2>3, <2>4, <2>5 DEF Arrived
<1>6. CASE ~Found(a, v)
  <2>1. UNCHANGED invoices /\ Goto(h, "reread", job[h])
    BY <1>6 DEF Update
  <2>2. pos'[h] = "reread" /\ job'[h] = job[h]
    BY <1>4, <2>1 DEF Goto
  <2>3. a.kind \in {"issue", "void"} /\ v.status \in Statuses
    BY <1>1, <1>3 DEF UpdateAsk, InvoiceRow
  <2>4. IF a.kind = "void" THEN v.status = "Voided" ELSE v.status # "Pending"
    BY <1>6, <2>3 DEF Found, Issuable, Voidable
  <2>5. QED
    BY <2>1, <2>2, <2>4 DEF Arrived
<1>7. QED
  BY <1>5, <1>6

LEMMA RequestArrives ==
  ASSUME RereadInv, NEW h \in Handler,
         \/ BeginCreate(h) \/ CheckOrder(h) \/ CheckSum(h) \/ Insert(h)
         \/ BeginUpdate(h) \/ Reread(h) \/ Answer(h)
  PROVE  Arrived(h)
<1>1. pos \in [Handler -> Positions] /\ job \in [Handler -> JobType]
  BY DEF RereadInv, Types, JobTypes
<1>2. CASE Reread(h)
  <2>1. pos[h] = "reread" /\ Goto(h, "done", [ask |-> job[h].ask,
                                              answer |-> invoices[job[h].ask.id].status])
    BY <1>2 DEF Reread
  <2>2. pos'[h] = "done" /\ job'[h].ask = job[h].ask
        /\ job'[h].answer = invoices[job[h].ask.id].status
    BY <1>1, <2>1 DEF Goto
  <2>3. QED
    BY <2>1, <2>2 DEF Arrived, RereadInv, MissedRows
<1>3. CASE ~Reread(h)
  <2>1. pos'[h] \notin {"reread", "done"}
    BY <1>1, <1>3 DEF BeginCreate, CheckOrder, CheckSum, Insert, BeginUpdate, Answer, Goto, Done
  <2>2. QED
    BY <2>1 DEF Arrived
<1>4. QED
  BY <1>2, <1>3

LEMMA RereadStep == RereadInv /\ [Next]_vars => RereadInv'
<1> SUFFICES ASSUME RereadInv, [Next]_vars PROVE RereadInv'
  OBVIOUS
<1>0. Types /\ MissedRows /\ RereadsAsExpected /\ Types'
  BY TypesStep DEF RereadInv
<1>1. \A i \in Ids : invoices[i].status \in Statuses /\ RowOnward(i)
  BY <1>0, RowsOnward DEF Types, RowTypes, InvoiceRow, Ids
<1>2. ASSUME NEW g \in Handler, pos'[g] = pos[g], job'[g] = job[g]
      PROVE  Arrived(g)
  <2>1. CASE pos[g] = "reread"
    <3>1. job[g].ask.id \in Ids
      BY <1>0, <2>1 DEF Types, JobTypes
    <3>2. QED
      BY <1>0, <1>1, <1>2, <2>1, <3>1 DEF Arrived, MissedRows, RowOnward
  <2>2. CASE pos[g] # "reread"
    BY <1>0, <1>2, <2>2 DEF Arrived, RereadsAsExpected
  <2>3. QED
    BY <2>1, <2>2
<1>3. \A g \in Handler : Arrived(g)
  <2>1. CASE Confirm \/ Tick \/ OpenList \/ TurnPage \/ UNCHANGED vars
    <3>1. UNCHANGED <<pos, job>>
      BY <2>1 DEF Confirm, Tick, OpenList, TurnPage, vars
    <3>2. QED
      BY <1>2, <3>1
  <2>2. ASSUME NEW h \in Handler,
               \/ BeginCreate(h) \/ CheckOrder(h) \/ CheckSum(h) \/ Insert(h)
               \/ BeginUpdate(h) \/ Update(h) \/ Reread(h) \/ Answer(h)
        PROVE  \A g \in Handler : Arrived(g)
    <3>1. \A g \in Handler \ {h} : pos'[g] = pos[g] /\ job'[g] = job[g]
      BY <1>0, <2>2 DEF BeginCreate, CheckOrder, CheckSum, Insert, BeginUpdate, Update, Reread,
                        Answer, Done, Goto, Types, JobTypes
    <3>2. Arrived(h)
      BY <1>0, <2>2, UpdateArrives, RequestArrives DEF RereadInv
    <3>3. QED
      BY <1>2, <3>1, <3>2
  <2>3. QED
    BY <2>1, <2>2 DEF Next
<1>4. QED
  BY <1>0, <1>3 DEF RereadInv, MissedRows, RereadsAsExpected, Arrived

\* The second read finds what the comments of issue and void rely on
\* (RereadsAsExpected).
THEOREM RereadsAlwaysAsExpected == Spec => []RereadsAsExpected
<1>1. Init => RereadInv
  BY TypesInit DEF Init, RereadInv, MissedRows, RereadsAsExpected
<1>2. RereadInv => RereadsAsExpected
  BY DEF RereadInv
<1>3. QED
  BY <1>1, <1>2, RereadStep, PTL DEF Spec

----------------------------------------------------------------------------
(* How far an order can be overrun.  The bound is inductive once it is known *)
(* that what each request brings past the check fits the order by itself.    *)

PassedFit == \A o \in Order : \A h \in InFlight(o) : job[h].ask.amount <= Price[o]

OverrunInv == Types /\ PassedFit /\ OverrunBounded

LEMMA MaxOfTwo ==
  ASSUME NEW n \in Nat
  PROVE  Max({1, n}) = IF n >= 1 THEN n ELSE 1
<1> DEFINE m == IF n >= 1 THEN n ELSE 1
<1>1. m \in {1, n} /\ \A y \in {1, n} : m >= y
  OBVIOUS
<1>2. \A x \in {1, n} : (\A y \in {1, n} : x >= y) => x = m
  OBVIOUS
<1>3. QED
  BY <1>1, <1>2 DEF Max

\* As many units as an amount says.
LEMMA BlockAdded ==
  ASSUME NEW U, IsFiniteSet(U), NEW x, NEW n \in Nat, \A u \in U : u[1] # x
  PROVE  /\ IsFiniteSet(U \cup ({x} \X (1..n)))
         /\ Cardinality(U \cup ({x} \X (1..n))) = Cardinality(U) + n
<1> DEFINE S == {x}
           T == 1..n
<1>1. IsFiniteSet(S) /\ Cardinality(S) = 1
  BY FS_Singleton
<1>2. IsFiniteSet(T) /\ Cardinality(T) = n
  BY FS_Interval
<1>3. U \cap (S \X T) = {}
  OBVIOUS
<1> HIDE DEF S, T
<1>4. IsFiniteSet(S \X T) /\ Cardinality(S \X T) = Cardinality(S) * Cardinality(T)
  BY <1>1, <1>2, FS_Product, Zenon
<1>5. Cardinality(S \X T) = n
  <2>1. 1 * n = n
    OBVIOUS
  <2>2. QED
    BY <1>1, <1>2, <1>4, <2>1, Zenon
<1>6. /\ IsFiniteSet(U \cup (S \X T))
      /\ Cardinality(U \cup (S \X T)) = Cardinality(U) + Cardinality(S \X T) - Cardinality({})
  BY <1>3, <1>4, FS_Union
<1>7. Cardinality(U) \in Nat
  BY FS_CardinalityType
<1>8. Cardinality(U \cup (S \X T)) = Cardinality(U) + n
  BY <1>5, <1>6, <1>7, FS_EmptySet
<1>9. QED
  BY <1>6, <1>8 DEF S, T

LEMMA PilesFinite ==
  ASSUME Types, NEW o \in Order
  PROVE  /\ IsFiniteSet(Invoiced(o)) /\ IsFiniteSet(Passed(o))
         /\ prior_sum(o) \in Nat /\ Cardinality(Passed(o)) \in Nat
<1>1. PICK n \in 0..MaxInvoices : invoices \in [1..n -> InvoiceRow]
  BY DEF Types, RowTypes
<1>2. n \in Nat /\ Limit \in Nat /\ IsFiniteSet(Handler)
  BY InvoicingAssumption
<1>3. IsFiniteSet((1..n) \X (1..Limit)) /\ IsFiniteSet(Handler \X (1..Limit))
  <2>1. IsFiniteSet(1..n) /\ IsFiniteSet(1..Limit)
    BY <1>2, FS_Interval
  <2>2. QED
    BY <1>2, <2>1, FS_Product
<1>4. Invoiced(o) \subseteq (1..n) \X (1..Limit)
  <2>1. \A i \in Live(o) : i \in 1..n /\ invoices[i].amount \in 1..Limit
    BY <1>1 DEF Live, Ids, InvoiceRow
  <2>2. QED
    BY <1>2, <2>1 DEF Invoiced
<1>5. Passed(o) \subseteq Handler \X (1..Limit)
  <2>1. \A h \in InFlight(o) : h \in Handler /\ job[h].ask.amount \in 1..Limit
    BY DEF InFlight, Types, JobTypes
  <2>2. QED
    BY <1>2, <2>1 DEF Passed
<1>6. IsFiniteSet(Invoiced(o)) /\ IsFiniteSet(Passed(o))
  BY <1>3, <1>4, <1>5, FS_Subset
<1>7. QED
  BY <1>6, FS_CardinalityType DEF prior_sum

\* What comes to the same or less for an order.
LEMMA NoMoreInvoiced ==
  ASSUME OverrunInv, NEW o \in Order,
         Invoiced(o)' \subseteq Invoiced(o), Passed(o)' \subseteq Passed(o)
  PROVE  (prior_sum(o) + Cardinality(Passed(o)))'
           <= Price[o] * Max({1, Cardinality(Handler)})
<1> DEFINE top == Price[o] * Max({1, Cardinality(Handler)})
<1>1. /\ IsFiniteSet(Invoiced(o)) /\ IsFiniteSet(Passed(o))
      /\ prior_sum(o) \in Nat /\ Cardinality(Passed(o)) \in Nat
  BY PilesFinite DEF OverrunInv
<1>2. /\ IsFiniteSet(Invoiced(o)') /\ Cardinality(Invoiced(o)') <= prior_sum(o)
      /\ IsFiniteSet(Passed(o)') /\ Cardinality(Passed(o)') <= Cardinality(Passed(o))
  BY <1>1, FS_Subset DEF prior_sum
<1>3. Cardinality(Invoiced(o)') \in Nat /\ Cardinality(Passed(o)') \in Nat
  BY <1>2, FS_CardinalityType
<1>4. prior_sum(o) + Cardinality(Passed(o)) <= top /\ top \in Int
  <2>1. Cardinality(Handler) \in Nat
    BY InvoicingAssumption, FS_CardinalityType
  <2>2. Max({1, Cardinality(Handler)}) \in Nat
    BY <2>1, MaxOfTwo
  <2>3. Price[o] \in Nat
    BY InvoicingAssumption
  <2>4. top \in Int
    <3> DEFINE a == Price[o]
               b == Max({1, Cardinality(Handler)})
    <3> HIDE DEF a, b
    <3>1. a \in Nat /\ b \in Nat
      BY <2>2, <2>3 DEF a, b
    <3>2. a * b \in Int
      BY <3>1
    <3>3. QED
      BY <3>2 DEF a, b
  <2>5. QED
    BY <2>4 DEF OverrunInv, OverrunBounded
<1>5. prior_sum(o)' = Cardinality(Invoiced(o)')
  BY DEF prior_sum
<1> HIDE DEF top
<1>6. Cardinality(Invoiced(o)') + Cardinality(Passed(o)') <= top
  BY <1>1, <1>2, <1>3, <1>4
<1>7. QED
  BY <1>5, <1>6 DEF top

\* A request that neither passes the check nor inserts: no order gains.
LEMMA QuietKeeps ==
  ASSUME OverrunInv, NEW h \in Handler, Types',
         \A g \in Handler \ {h} : pos'[g] = pos[g] /\ job'[g] = job[g],
         pos[h] # "insert",
         pos'[h] = "insert" => job'[h].ask.order = None,
         Ids' = Ids,
         \A i \in Ids : /\ invoices'[i].order = invoices[i].order
                        /\ invoices'[i].amount = invoices[i].amount
                        /\ invoices[i].status = "Voided" => invoices'[i].status = "Voided"
  PROVE  OverrunInv'
<1>1. \A o \in Order : InFlight(o)' = InFlight(o) /\ h \notin InFlight(o)
  BY InvoicingAssumption DEF InFlight
<1>2. PassedFit'
  BY <1>1 DEF OverrunInv, PassedFit, InFlight
<1>3. \A o \in Order : Passed(o)' = Passed(o)
  <2> TAKE o \in Order
  <2>1. \A g \in InFlight(o) : job'[g] = job[g]
    BY <1>1 DEF InFlight
  <2>2. QED
    BY <1>1, <2>1 DEF Passed
<1>4. \A o \in Order : Invoiced(o)' \subseteq Invoiced(o)
  BY DEF Invoiced, Live
<1>5. OverrunBounded'
  BY <1>3, <1>4, NoMoreInvoiced DEF OverrunBounded
<1>6. QED
  BY <1>2, <1>5 DEF OverrunInv

\* A request that passes the check brings its amount; the others together bring
\* at most the price each.
LEMMA CheckOverrun ==
  ASSUME OverrunInv, Types', NEW h \in Handler, CheckSum(h)
  PROVE  OverrunInv'
<1>1. /\ Types /\ JobTypes /\ pos[h] = "sum" /\ UNCHANGED invoices
      /\ job[h] \in [ask : CreateAsk] /\ job[h].ask.amount \in 1..Limit
  BY DEF OverrunInv, Types, JobTypes, CheckSum
<1>2. UNCHANGED Ids
  BY <1>1 DEF Ids
<1>3. CASE Done(h)
  <2>1. pos'[h] = "idle" /\ \A g \in Handler \ {h} : pos'[g] = pos[g] /\ job'[g] = job[g]
    BY <1>1, <1>3, IdleNone, GotoOthers DEF Done
  <2>2. QED
    BY <1>1, <1>2, <2>1, QuietKeeps
<1>4. CASE ~Done(h)
  <2>1. Fits(job[h].ask.order, job[h].ask.amount) /\ Goto(h, "insert", job[h])
    BY <1>4 DEF CheckSum
  <2>2. /\ pos'[h] = "insert" /\ job'[h] = job[h]
        /\ \A g \in Handler \ {h} : pos'[g] = pos[g] /\ job'[g] = job[g]
    <3>1. "insert" \in Positions /\ job[h] \in JobType
      BY <1>1 DEF Positions, JobTypes
    <3>2. QED
      BY <1>1, <2>1, <3>1, GotoOthers
  <2>3. ASSUME NEW o \in Order, o # job[h].ask.order
        PROVE  /\ InFlight(o)' = InFlight(o) /\ Passed(o)' = Passed(o)
               /\ Invoiced(o)' = Invoiced(o)
    <3>1. InFlight(o)' = InFlight(o)
      BY <1>1, <2>2, <2>3 DEF InFlight
    <3>2. \A g \in InFlight(o) : job'[g] = job[g]
      BY <2>2 DEF InFlight
    <3>3. QED
      BY <1>1, <1>2, <3>1, <3>2 DEF Passed, Invoiced, Live
  <2>4. ASSUME NEW o \in Order, o = job[h].ask.order
        PROVE  /\ \A g \in InFlight(o)' : job'[g].ask.amount <= Price[o]
               /\ (prior_sum(o) + Cardinality(Passed(o)))'
                    <= Price[o] * Max({1, Cardinality(Handler)})
    <3> DEFINE n == job[h].ask.amount
               p == Price[o]
               others == Passed(o)
               all == Passed(o)'
    <3>1. /\ prior_sum(o) \in Nat /\ IsFiniteSet(others) /\ Cardinality(others) \in Nat
      BY <1>1, PilesFinite
    <3>2. p \in Nat /\ n \in Nat /\ prior_sum(o) + n <= p /\ n <= p
      <4>1. p \in Nat /\ n \in Nat
        BY <1>1, InvoicingAssumption
      <4>2. prior_sum(o) + n <= p
        BY <2>1, <2>4 DEF Fits
      <4>3. QED
        BY <3>1, <4>1, <4>2
    <3>3. InFlight(o)' = InFlight(o) \cup {h} /\ h \notin InFlight(o)
      BY <1>1, <2>2, <2>4 DEF InFlight
    <3>4. \A g \in InFlight(o) : g \in Handler \ {h} /\ job'[g] = job[g] /\ job[g].ask.amount <= p
                                 /\ job[g].ask.amount \in Nat
      <4>1. \A g \in InFlight(o) : job[g].ask.amount \in 1..Limit
        BY <1>1 DEF InFlight, JobTypes
      <4>2. \A g \in InFlight(o) : job[g].ask.amount \in Nat
        BY <4>1, InvoicingAssumption
      <4>3. QED
        BY <2>2, <3>3, <4>2 DEF InFlight, OverrunInv, PassedFit
    <3>5. \A g \in InFlight(o)' : job'[g].ask.amount <= p
      BY <2>2, <3>2, <3>3, <3>4
    <3>6. all = others \cup ({h} \X (1..n)) /\ \A u \in others : u[1] # h
      BY <2>2, <3>3, <3>4 DEF Passed
    <3>7. IsFiniteSet(all) /\ Cardinality(all) = Cardinality(others) + n
      <4> HIDE DEF n, p, others, all
      <4>1. /\ IsFiniteSet(others \cup ({h} \X (1..n)))
            /\ Cardinality(others \cup ({h} \X (1..n))) = Cardinality(others) + n
        BY <3>1, <3>2, <3>6, BlockAdded, Zenon
      <4>2. QED
        BY <3>6, <4>1
    <3>8. others \subseteq (Handler \ {h}) \X (1..p)
      BY <3>2, <3>4 DEF Passed
    <3>9. /\ Cardinality(Handler) \in Nat \ {0}
          /\ Cardinality(others) <= (Cardinality(Handler) - 1) * p
      <4> DEFINE S == Handler \ {h}
                 T == 1..p
      <4>1. IsFiniteSet(Handler) /\ Cardinality(Handler) \in Nat
        BY InvoicingAssumption, FS_CardinalityType
      <4>2. IsFiniteSet(S) /\ Cardinality(S) = Cardinality(Handler) - 1
        BY <4>1, FS_RemoveElement
      <4>3. IsFiniteSet(T) /\ Cardinality(T) = p
        <5> HIDE DEF p
        <5>1. p \in Nat
          BY <3>2
        <5>2. QED
          BY <5>1, FS_Interval
      <4>4. Cardinality(S) \in Nat
        BY <4>2, FS_CardinalityType
      <4>5. others \subseteq S \X T
        BY <3>8
      <4> HIDE DEF S, T, p, others
      <4>6. IsFiniteSet(S \X T) /\ Cardinality(S \X T) = Cardinality(S) * Cardinality(T)
        BY <4>2, <4>3, FS_Product, Zenon
      <4>7. Cardinality(others) <= Cardinality(S \X T)
        BY <4>5, <4>6, FS_Subset
      <4>8. Cardinality(others) <= Cardinality(S) * p
        BY <4>3, <4>6, <4>7, Zenon
      <4>9. QED
        BY <4>1, <4>2, <4>4, <4>8
    <3>10. Invoiced(o)' = Invoiced(o)
      BY <1>1, <1>2 DEF Invoiced, Live
    <3>11. prior_sum(o)' = prior_sum(o)
      BY <3>10 DEF prior_sum
    <3> DEFINE k == Cardinality(Handler)
               s == prior_sum(o)
               c == Cardinality(others)
    <3>12. Max({1, k}) = k
      BY <3>9, MaxOfTwo
    <3>13. s \in Nat /\ c \in Nat /\ k \in Nat \ {0} /\ c <= (k - 1) * p /\ s + n <= p
      BY <3>1, <3>2, <3>9
    <3>14. (prior_sum(o) + Cardinality(Passed(o)))' = s + (c + n)
      BY <3>7, <3>11
    <3> HIDE DEF n, p, others, all, k, s, c
    <3>15. s + (c + n) <= p * k
      <4>1. (k - 1) * p + p = p * k
        BY <3>2, <3>13
      <4>2. (k - 1) * p \in Int
        BY <3>2, <3>13
      <4> DEFINE q == (k - 1) * p
      <4>3. q \in Int /\ c <= q /\ q + p = p * k
        BY <3>13, <4>1, <4>2
      <4> HIDE DEF q
      <4>4. s + (c + n) <= q + p
        BY <3>2, <3>13, <4>3
      <4>5. QED
        BY <4>3, <4>4
    <3>16. (prior_sum(o) + Cardinality(Passed(o)))' <= Price[o] * Max({1, Cardinality(Handler)})
      BY <3>12, <3>14, <3>15 DEF k, p
    <3>17. QED
      BY <3>5, <3>16 DEF p
  <2>5. PassedFit'
    <3>1. ASSUME NEW o \in Order, NEW g \in InFlight(o)' PROVE job'[g].ask.amount <= Price[o]
      <4>1. CASE o # job[h].ask.order
        <5>1. g \in InFlight(o) /\ job'[g] = job[g]
          BY <1>1, <2>2, <2>3, <3>1, <4>1 DEF InFlight
        <5>2. QED
          BY <5>1 DEF OverrunInv, PassedFit
      <4>2. CASE o = job[h].ask.order
        BY <2>4, <3>1, <4>2
      <4>3. QED
        BY <4>1, <4>2
    <3>2. QED
      BY <3>1 DEF PassedFit
  <2>6. OverrunBounded'
    <3>1. \A o \in Order : (prior_sum(o) + Cardinality(Passed(o)))'
                             <= Price[o] * Max({1, Cardinality(Handler)})
      BY <2>3, <2>4, NoMoreInvoiced
    <3>2. QED
      BY <3>1 DEF OverrunBounded
  <2>7. QED
    BY <2>5, <2>6 DEF OverrunInv
<1>5. QED
  BY <1>3, <1>4

\* The insert moves an amount from what has passed to what is invoiced.
LEMMA InsertOverrun ==
  ASSUME OverrunInv, Types', NEW h \in Handler, Insert(h)
  PROVE  OverrunInv'
<1>1. /\ Types /\ JobTypes /\ pos[h] = "insert"
      /\ job[h] \in [ask : CreateAsk] /\ job[h].ask.amount \in 1..Limit
  BY DEF OverrunInv, Types, JobTypes, Insert
<1>2. PICK k \in Nat : /\ Ids = 1..k /\ Ids' = 1..(k + 1)
                       /\ \A i \in 1..k : invoices'[i] = invoices[i]
                       /\ invoices'[k + 1] = New(job[h].ask)
  BY <1>1, InsertTypes
<1>3. pos'[h] = "idle" /\ \A g \in Handler \ {h} : pos'[g] = pos[g] /\ job'[g] = job[g]
  BY <1>1, IdleNone, GotoOthers DEF Insert, Done
<1>4. /\ New(job[h].ask).order = job[h].ask.order /\ New(job[h].ask).amount = job[h].ask.amount
      /\ New(job[h].ask).status = "Pending"
  BY DEF New
<1>5. \A o \in Order : InFlight(o)' = InFlight(o) \ {h}
  BY <1>3 DEF InFlight
<1>6. PassedFit'
  BY <1>3, <1>5 DEF OverrunInv, PassedFit, InFlight
<1>7. \A o \in Order : \A g \in InFlight(o)' : g \in InFlight(o) /\ job'[g] = job[g]
  BY <1>3, <1>5 DEF InFlight
<1>8. k + 1 \notin 1..k /\ 1..(k + 1) = (1..k) \cup {k + 1}
  OBVIOUS
<1>9. ASSUME NEW o \in Order, o # job[h].ask.order
      PROVE  Invoiced(o)' \subseteq Invoiced(o) /\ Passed(o)' \subseteq Passed(o)
  <2>1. Live(o)' \subseteq Live(o)
    BY <1>2, <1>4, <1>8, <1>9 DEF Live
  <2>2. \A i \in Live(o)' : invoices'[i] = invoices[i]
    BY <1>2, <2>1 DEF Live
  <2>3. Invoiced(o)' \subseteq Invoiced(o)
    BY <2>1, <2>2 DEF Invoiced
  <2>4. Passed(o)' \subseteq Passed(o)
    BY <1>7 DEF Passed
  <2>5. QED
    BY <2>3, <2>4
<1>10. ASSUME NEW o \in Order, o = job[h].ask.order
       PROVE  (prior_sum(o) + Cardinality(Passed(o)))' <= Price[o] * Max({1, Cardinality(Handler)})
  <2> DEFINE n == job[h].ask.amount
             I == Invoiced(o)
             P == Passed(o)
             Q == Passed(o)'
  <2>1. IsFiniteSet(I) /\ Cardinality(I) \in Nat /\ IsFiniteSet(P) /\ Cardinality(P) \in Nat
    BY <1>1, PilesFinite DEF prior_sum
  <2>2. n \in Nat
    BY <1>1, InvoicingAssumption
  <2>3. Invoiced(o)' = I \cup ({k + 1} \X (1..n)) /\ \A u \in I : u[1] # k + 1
    <3>1. Live(o)' = Live(o) \cup {k + 1} /\ Live(o) \subseteq 1..k
      BY <1>2, <1>4, <1>8, <1>10 DEF Live
    <3>2. /\ \A i \in Live(o) : invoices'[i] = invoices[i]
          /\ invoices'[k + 1].amount = n
      BY <1>2, <1>4, <3>1
    <3>3. QED
      BY <1>8, <3>1, <3>2 DEF Invoiced
  <2>4. Cardinality(Invoiced(o)') = Cardinality(I) + n
    <3> DEFINE J == Invoiced(o)'
    <3>1. J = I \cup ({k + 1} \X (1..n))
      BY <2>3
    <3> HIDE DEF I, J, n
    <3>2. Cardinality(I \cup ({k + 1} \X (1..n))) = Cardinality(I) + n
      BY <2>1, <2>2, <2>3, BlockAdded, Zenon
    <3>3. Cardinality(J) = Cardinality(I) + n
      BY <3>1, <3>2, Zenon
    <3>4. QED
      BY <3>3 DEF J
  <2>5. P = Q \cup ({h} \X (1..n)) /\ \A u \in Q : u[1] # h
    <3>1. InFlight(o) = InFlight(o)' \cup {h} /\ h \notin InFlight(o)'
      BY <1>1, <1>5, <1>10 DEF InFlight
    <3>2. QED
      BY <1>7, <3>1 DEF Passed
  <2>6. IsFiniteSet(Q) /\ Cardinality(Q) \in Nat
    <3>1. Q \subseteq P
      BY <2>5
    <3>2. IsFiniteSet(Q)
      BY <2>1, <3>1, FS_Subset
    <3>3. QED
      BY <3>2, FS_CardinalityType
  <2>7. Cardinality(P) = Cardinality(Q) + n
    <3> HIDE DEF P, Q, n
    <3>1. Cardinality(Q \cup ({h} \X (1..n))) = Cardinality(Q) + n
      BY <2>2, <2>5, <2>6, BlockAdded, Zenon
    <3>2. QED
      BY <2>5, <3>1, Zenon
  <2>8. Cardinality(I) + Cardinality(P) <= Price[o] * Max({1, Cardinality(Handler)})
    BY DEF OverrunInv, OverrunBounded, prior_sum
  <2>9. prior_sum(o)' + Cardinality(Passed(o)') = Cardinality(I) + Cardinality(P)
    <3>1. prior_sum(o)' = Cardinality(I) + n
      BY <2>4 DEF prior_sum
    <3> HIDE DEF I, P, Q, n
    <3>2. (Cardinality(I) + n) + Cardinality(Q) = Cardinality(I) + Cardinality(P)
      BY <2>1, <2>2, <2>6, <2>7
    <3>3. QED
      BY <3>1, <3>2 DEF Q, n
  <2>10. QED
    BY <2>8, <2>9
<1>11. OverrunBounded'
  <2>1. \A o \in Order : (prior_sum(o) + Cardinality(Passed(o)))'
                           <= Price[o] * Max({1, Cardinality(Handler)})
    BY <1>9, <1>10, NoMoreInvoiced
  <2>2. QED
    BY <2>1 DEF OverrunBounded
<1>12. QED
  BY <1>6, <1>11 DEF OverrunInv

LEMMA OverrunStep == OverrunInv /\ [Next]_vars => OverrunInv'
<1> SUFFICES ASSUME OverrunInv, [Next]_vars PROVE OverrunInv'
  OBVIOUS
<1>0. Types /\ Types' /\ JobTypes /\ pos \in [Handler -> Positions] /\ job \in [Handler -> JobType]
  BY TypesStep DEF OverrunInv, Types, JobTypes
<1>1. CASE UNCHANGED <<invoices, pos, job>>
  <2>1. OverrunBounded'
    BY <1>1 DEF OverrunInv, OverrunBounded, prior_sum, Invoiced, Live, Passed, InFlight, Ids
  <2>2. PassedFit'
    BY <1>1 DEF OverrunInv, PassedFit, InFlight
  <2>3. QED
    BY <1>0, <2>1, <2>2 DEF OverrunInv
<1>2. ASSUME NEW h \in Handler, CheckSum(h) \/ Insert(h) PROVE OverrunInv'
  BY <1>0, <1>2, CheckOverrun, InsertOverrun
<1>3. ASSUME NEW h \in Handler, Update(h) PROVE OverrunInv'
  <2>1. Ids' = Ids
    BY <1>0, <1>3, UpdateTypes
  <2>2. \A i \in Ids : /\ invoices'[i].order = invoices[i].order
                       /\ invoices'[i].amount = invoices[i].amount
                       /\ invoices[i].status = "Voided" => invoices'[i].status = "Voided"
    <3> TAKE i \in Ids
    <3>1. PICK n \in 0..MaxInvoices : invoices \in [1..n -> InvoiceRow]
      BY <1>0 DEF Types, RowTypes
    <3>2. invoices[i] \in InvoiceRow
      BY <3>1 DEF Ids
    <3>3. invoices'[i] = invoices[i] \/ invoices'[i] = Updated(job[h], invoices[i])
      BY <1>0, <1>3, <3>1, UpdateEffect DEF Ids
    <3>4. /\ Updated(job[h], invoices[i]).order = invoices[i].order
          /\ Updated(job[h], invoices[i]).amount = invoices[i].amount
      BY <3>2 DEF Updated, InvoiceRow
    <3>5. RowOnward(i)
      BY <1>0, <1>3, UpdateOnward
    <3>6. QED
      BY <3>3, <3>4, <3>5 DEF RowOnward
  <2>3. pos[h] = "update" /\ pos'[h] \in {"done", "reread"}
        /\ \A g \in Handler \ {h} : pos'[g] = pos[g] /\ job'[g] = job[g]
    BY <1>0, <1>3 DEF Update, Goto
  <2>4. QED
    BY <1>0, <2>1, <2>2, <2>3, QuietKeeps
<1>4. ASSUME NEW h \in Handler,
             BeginCreate(h) \/ CheckOrder(h) \/ BeginUpdate(h) \/ Reread(h) \/ Answer(h)
      PROVE  OverrunInv'
  <2>1. UNCHANGED invoices /\ Ids' = Ids
    BY <1>4 DEF BeginCreate, CheckOrder, BeginUpdate, Reread, Answer, Ids
  <2>2. pos[h] # "insert" /\ \A g \in Handler \ {h} : pos'[g] = pos[g] /\ job'[g] = job[g]
    BY <1>0, <1>4 DEF BeginCreate, CheckOrder, BeginUpdate, Reread, Answer, Done, Goto
  <2>3. pos'[h] = "insert" => job'[h].ask.order = None
    <3>1. CASE BeginCreate(h)
      <4>1. PICK org \in Org, o \in Order \cup {None}, n \in Amounts :
              Goto(h, IF o = None THEN "insert" ELSE "order",
                   [ask |-> [kind |-> "create", org |-> org, order |-> o, amount |-> n]])
        BY <3>1 DEF BeginCreate
      <4>2. job'[h].ask.order = o /\ pos'[h] = IF o = None THEN "insert" ELSE "order"
        BY <1>0, <4>1 DEF Goto
      <4>3. QED
        BY <4>2
    <3>2. CASE CheckOrder(h) \/ BeginUpdate(h) \/ Reread(h) \/ Answer(h)
      <4>1. pos'[h] # "insert"
        BY <1>0, <3>2 DEF CheckOrder, BeginUpdate, Reread, Answer, Done, Goto
      <4>2. QED
        BY <4>1
    <3>3. QED
      BY <1>4, <3>1, <3>2
  <2>4. QED
    BY <1>0, <2>1, <2>2, <2>3, QuietKeeps
<1>5. CASE Confirm \/ Tick \/ OpenList \/ TurnPage \/ UNCHANGED vars
  <2>1. UNCHANGED <<invoices, pos, job>>
    BY <1>5 DEF Confirm, Tick, OpenList, TurnPage, vars
  <2>2. QED
    BY <1>1, <2>1
<1>6. QED
  BY <1>2, <1>3, <1>4, <1>5 DEF Next

\* Requests that race can overrun an order at most once for each request that
\* is between create's check and its insert (OverrunBounded), for any number of
\* requests, orders, prices and amounts.
THEOREM OverrunAlwaysBounded == Spec => []OverrunBounded
<1>1. Init => OverrunInv
  <2> SUFFICES ASSUME Init PROVE OverrunInv
    OBVIOUS
  <2>1. Types
    BY TypesInit
  <2>2. \A o \in Order : InFlight(o) = {} /\ Live(o) = {}
    BY DEF Init, InFlight, Live, Ids
  <2>3. \A o \in Order : Passed(o) = {} /\ Invoiced(o) = {}
    BY <2>2 DEF Passed, Invoiced
  <2>4. Cardinality(Handler) \in Nat
    BY InvoicingAssumption, FS_CardinalityType
  <2>5. \A o \in Order : prior_sum(o) + Cardinality(Passed(o)) = 0
    BY <2>3, FS_EmptySet DEF prior_sum
  <2>6. Max({1, Cardinality(Handler)}) \in Nat
    BY <2>4, MaxOfTwo
  <2>7. \A o \in Order : Price[o] * Max({1, Cardinality(Handler)}) >= 0
    BY <2>6, InvoicingAssumption
  <2>8. QED
    BY <2>1, <2>2, <2>5, <2>7 DEF OverrunInv, PassedFit, OverrunBounded
<1>2. OverrunInv => OverrunBounded
  BY DEF OverrunInv
<1>3. QED
  BY <1>1, <1>2, OverrunStep, PTL DEF Spec

----------------------------------------------------------------------------
(* A customer's list.  At any page, what was due is what has been seen and    *)
(* what lies before the cursor; ids are given out upwards, so what is created *)
(* meanwhile lies behind it.                                                  *)

Seen == {page.seen[i] : i \in DOMAIN page.seen}

PageInv ==
  page # None =>
    /\ page \in [org : Org, cursor : Nat, seen : Seq(Nat), due : SUBSET Nat]
    /\ page.cursor <= NextId
    /\ page.due = Seen \cup Before(page.org, page.cursor)
    /\ \A i \in DOMAIN page.seen : page.seen[i] >= page.cursor
    /\ \A i, j \in DOMAIN page.seen : i < j => page.seen[i] > page.seen[j]

ListInv == Types /\ PageInv

\* A set of ids that is not empty has a largest one.
LEMMA LargestId ==
  ASSUME NEW n \in Nat, NEW S, S \subseteq 1..n, S # {}
  PROVE  Max(S) \in S /\ \A y \in S : Max(S) >= y
<1> DEFINE T == {n - i : i \in S}
<1>1. T \subseteq Nat /\ T # {}
  <2>1. \A i \in S : n - i \in Nat
    OBVIOUS
  <2>2. PICK i \in S : TRUE
    OBVIOUS
  <2>3. n - i \in T
    OBVIOUS
  <2>4. QED
    BY <2>1, <2>3
<1>2. PICK x \in T : \A y \in T : ~(<<y, x>> \in OpToRel(<, Nat))
  <2> HIDE DEF T
  <2>1. \E x \in T : \A y \in T : ~(<<y, x>> \in OpToRel(<, Nat))
    BY <1>1, NatLessThanWellFounded, WFMin
  <2>2. QED
    BY <2>1
<1>3. PICK i \in S : x = n - i
  BY <1>2
<1>4. \A j \in S : i >= j
  <2> TAKE j \in S
  <2>1. n - j \in T /\ n - j \in Nat /\ x \in Nat
    BY <1>1, <1>2
  <2>2. ~(n - j < x)
    BY <1>2, <2>1 DEF OpToRel
  <2>3. i \in Int /\ j \in Int
    OBVIOUS
  <2>4. QED
    BY <1>3, <2>2, <2>3
<1>5. QED
  BY <1>4 DEF Max

\* The rows a page was opened on keep their organisation, and new ones come
\* after the cursor.
LEMMA RowsBeforeCursor ==
  ASSUME ListInv, [Next]_vars, NEW org, NEW c \in Nat, c <= NextId
  PROVE  /\ {i \in Ids' : invoices'[i].org = org /\ i < c} = Before(org, c)
         /\ NextId \in Nat /\ NextId' \in Nat /\ NextId <= NextId'
<1> DEFINE after == {i \in Ids' : invoices'[i].org = org /\ i < c}
<1>1. Types /\ Types'
  BY TypesStep DEF ListInv
<1>2. PICK n \in 0..MaxInvoices : invoices \in [1..n -> InvoiceRow]
  BY <1>1 DEF Types, RowTypes
<1>3. n \in Nat /\ Ids = 1..n /\ NextId = n + 1
  <2>1. n \in Nat
    BY InvoicingAssumption
  <2>2. QED
    BY <1>2, <2>1, NextIdFresh
<1>4. CASE UNCHANGED invoices
  <2>1. NextId' = NextId /\ after = Before(org, c)
    BY <1>4 DEF NextId, Ids, Before, OfOrg
  <2>2. QED
    BY <1>3, <2>1
<1>5. ASSUME NEW h \in Handler, Insert(h)
      PROVE  after = Before(org, c) /\ NextId \in Nat /\ NextId' \in Nat /\ NextId <= NextId'
  <2>1. PICK k \in Nat : /\ Ids = 1..k /\ Ids' = 1..(k + 1)
                         /\ \A i \in 1..k : invoices'[i] = invoices[i]
    BY <1>1, <1>5, InsertTypes
  <2>2. NextId = k + 1 /\ NextId' = k + 2
    <3>1. Cardinality(1..k) = k /\ Cardinality(1..(k + 1)) = k + 1
      BY FS_Interval
    <3>2. QED
      BY <2>1, <3>1 DEF NextId
  <2>3. \A i \in Ids' : i < c => i \in 1..k
    BY <2>1, <2>2
  <2>4. \A i \in Ids : i \in Ids'
    BY <2>1
  <2>5. after = Before(org, c)
    BY <2>1, <2>3, <2>4 DEF Before, OfOrg
  <2>6. QED
    BY <2>2, <2>5
<1>6. ASSUME NEW h \in Handler, Update(h)
      PROVE  after = Before(org, c) /\ NextId \in Nat /\ NextId' \in Nat /\ NextId <= NextId'
  <2>1. Ids' = Ids
    BY <1>1, <1>6, UpdateTypes
  <2>2. \A i \in Ids : invoices'[i].org = invoices[i].org
    BY <1>1, <1>2, <1>6, UpdateEffect DEF Ids
  <2>3. NextId' = NextId
    BY <2>1 DEF NextId
  <2>4. QED
    BY <1>3, <2>1, <2>2, <2>3 DEF Before, OfOrg
<1>7. QED
  BY <1>4, <1>5, <1>6
  DEF Next, Confirm, Tick, OpenList, TurnPage, vars,
      BeginCreate, CheckOrder, CheckSum, BeginUpdate, Reread, Answer

LEMMA TurnKeeps ==
  ASSUME ListInv, TurnPage
  PROVE  PageInv'
<1>1. PICK n \in Nat : Ids = 1..n /\ NextId = n + 1
  <2>1. PICK n \in 0..MaxInvoices : invoices \in [1..n -> InvoiceRow]
    BY DEF ListInv, Types, RowTypes
  <2>2. n \in Nat
    BY InvoicingAssumption
  <2>3. QED
    BY <2>1, <2>2, NextIdFresh
<1> DEFINE B == Before(page.org, page.cursor)
           i == Max(B)
<1>2. /\ page # None /\ B # {} /\ UNCHANGED invoices
      /\ page' = [page EXCEPT !.cursor = i, !.seen = Append(@, i)]
  BY DEF TurnPage
<1>3. /\ page \in [org : Org, cursor : Nat, seen : Seq(Nat), due : SUBSET Nat]
      /\ page.cursor <= n + 1 /\ page.due = Seen \cup B
      /\ \A k \in DOMAIN page.seen : page.seen[k] >= page.cursor
      /\ \A k, j \in DOMAIN page.seen : k < j => page.seen[k] > page.seen[j]
  BY <1>1, <1>2 DEF ListInv, PageInv
<1>4. B \subseteq 1..n
  BY <1>1 DEF Before, OfOrg
<1>5. i \in B /\ \A y \in B : i >= y
  <2> HIDE DEF B
  <2>1. QED
    BY <1>2, <1>4, LargestId
<1>6. i \in 1..n /\ i < page.cursor
  BY <1>4, <1>5 DEF Before
<1>7. Before(page.org, i) = B \ {i}
  <2>1. \A y \in OfOrg(page.org) : y \in Int
    BY <1>1 DEF OfOrg
  <2>2. \A y \in OfOrg(page.org) : y < i <=> y < page.cursor /\ y # i
    <3> TAKE y \in OfOrg(page.org)
    <3>1. y < page.cursor => i >= y
      BY <1>5 DEF Before
    <3>2. y \in Int /\ i \in Int /\ page.cursor \in Int
      BY <1>3, <1>6, <2>1
    <3> HIDE DEF i
    <3>3. QED
      BY <1>6, <3>1, <3>2
  <2>3. QED
    BY <2>2 DEF Before
<1> HIDE DEF i, B
<1>8. /\ page'.org = page.org /\ page'.cursor = i /\ page'.due = page.due
      /\ page'.seen = Append(page.seen, i)
      /\ page' \in [org : Org, cursor : Nat, seen : Seq(Nat), due : SUBSET Nat]
  <2>1. i \in Nat
    BY <1>6
  <2>2. Append(page.seen, i) \in Seq(Nat)
    BY <1>3, <2>1
  <2>3. QED
    BY <1>2, <1>3, <2>1, <2>2
<1> DEFINE s == page.seen
           m == Len(page.seen)
<1>9. /\ s \in Seq(Nat) /\ m \in Nat /\ DOMAIN s = 1..m
      /\ DOMAIN page'.seen = 1..(m + 1) /\ page'.seen[m + 1] = i
      /\ \A k \in 1..m : page'.seen[k] = s[k] /\ s[k] \in Nat
  BY <1>3, <1>6, <1>8
<1> HIDE DEF s, m
<1>10. 1..(m + 1) = (1..m) \cup {m + 1} /\ m + 1 \notin 1..m
  BY <1>9
<1>11. Seen' = Seen \cup {i}
  <2>1. Seen = {s[k] : k \in 1..m}
    BY <1>9 DEF Seen, s
  <2>2. Seen' = {page'.seen[k] : k \in 1..(m + 1)}
    BY <1>9 DEF Seen
  <2>3. QED
    BY <1>9, <1>10, <2>1, <2>2
<1>12. Before(page.org, page.cursor)' = B \ {i}
  BY <1>2, <1>7, <1>8 DEF Before, OfOrg, Ids
<1>13. page'.due = Seen' \cup (B \ {i})
  BY <1>3, <1>5, <1>8, <1>11
<1>14. \A k \in 1..(m + 1) : page'.seen[k] >= i
  <2> TAKE k \in 1..(m + 1)
  <2>1. CASE k = m + 1
    BY <1>6, <1>9, <2>1
  <2>2. CASE k \in 1..m
    <3>1. s[k] >= page.cursor /\ s[k] \in Nat /\ page.cursor \in Nat
      BY <1>3, <1>9, <2>2 DEF s
    <3>2. QED
      BY <1>6, <1>9, <2>2, <3>1
  <2>3. QED
    BY <1>10, <2>1, <2>2
<1>15. \A k, j \in 1..(m + 1) : k < j => page'.seen[k] > page'.seen[j]
  <2> SUFFICES ASSUME NEW k \in 1..(m + 1), NEW j \in 1..(m + 1), k < j
               PROVE  page'.seen[k] > page'.seen[j]
    OBVIOUS
  <2>0. k \in 1..m
    BY <1>9
  <2>1. CASE j = m + 1
    <3>1. s[k] >= page.cursor /\ s[k] \in Nat /\ page.cursor \in Nat
      BY <1>3, <1>9, <2>0 DEF s
    <3>2. QED
      BY <1>6, <1>9, <2>0, <2>1, <3>1
  <2>2. CASE j \in 1..m
    BY <1>3, <1>9, <2>0, <2>2 DEF s
  <2>3. QED
    BY <1>10, <2>1, <2>2
<1>16. NextId' = n + 1
  BY <1>1, <1>2 DEF NextId, Ids
<1>17. i <= n + 1
  BY <1>6
<1>18. QED
  BY <1>8, <1>9, <1>12, <1>13, <1>14, <1>15, <1>16, <1>17 DEF PageInv

LEMMA ListStep == ListInv /\ [Next]_vars => ListInv'
<1> SUFFICES ASSUME ListInv, [Next]_vars PROVE ListInv'
  OBVIOUS
<1>0. Types'
  BY TypesStep DEF ListInv
<1>1. CASE TurnPage
  BY <1>0, <1>1, TurnKeeps DEF ListInv
<1>2. CASE OpenList
  <2>1. PICK org \in Org :
          /\ page' = [org |-> org, cursor |-> NextId, seen |-> <<>>, due |-> OfOrg(org)]
          /\ UNCHANGED invoices
    BY <1>2 DEF OpenList
  <2>2. PICK n \in Nat : Ids = 1..n /\ NextId = n + 1
    <3>1. PICK n \in 0..MaxInvoices : invoices \in [1..n -> InvoiceRow]
      BY DEF ListInv, Types, RowTypes
    <3>2. n \in Nat
      BY InvoicingAssumption
    <3>3. QED
      BY <3>1, <3>2, NextIdFresh
  <2>3. OfOrg(org) \subseteq Nat /\ Before(org, NextId) = OfOrg(org)
    BY <2>2 DEF OfOrg, Before
  <2>4. NextId' = NextId /\ Before(org, NextId)' = OfOrg(org)
    BY <2>1, <2>3 DEF NextId, Before, OfOrg, Ids
  <2>5. /\ page' \in [org : Org, cursor : Nat, seen : Seq(Nat), due : SUBSET Nat]
        /\ page'.org = org /\ page'.cursor = NextId /\ page'.due = OfOrg(org)
        /\ DOMAIN page'.seen = {}
    <3>1. <<>> \in Seq(Nat) /\ DOMAIN <<>> = {} /\ NextId \in Nat
      BY <2>2
    <3>2. QED
      BY <2>1, <2>3, <3>1
  <2>6. Seen' = {}
    BY <2>5 DEF Seen
  <2>7. Before(page.org, page.cursor)' = OfOrg(org)
    BY <2>1, <2>3, <2>5 DEF Before, OfOrg, Ids
  <2>8. NextId' <= NextId'
    BY <2>2, <2>4
  <2>9. page'.due = Seen' \cup Before(page.org, page.cursor)'
    BY <2>5, <2>6, <2>7
  <2>10. PageInv'
    BY <2>4, <2>5, <2>8, <2>9 DEF PageInv
  <2>11. QED
    BY <1>0, <2>10 DEF ListInv
<1>3. CASE ~TurnPage /\ ~OpenList
  <2>1. UNCHANGED page
    BY <1>3 DEF Next, Confirm, Tick, vars, BeginCreate, CheckOrder, CheckSum, Insert,
                BeginUpdate, Update, Reread, Answer
  <2>2. CASE page = None
    BY <1>0, <2>1, <2>2 DEF ListInv, PageInv
  <2>3. CASE page # None
    <3>1. page.cursor \in Nat /\ page.cursor <= NextId
      BY <2>3 DEF ListInv, PageInv
    <3>2. /\ Before(page.org, page.cursor)' = Before(page.org, page.cursor)
          /\ NextId \in Nat /\ NextId' \in Nat /\ NextId <= NextId'
      <4>1. \A org, c : c \in Nat /\ c <= NextId =>
              /\ {i \in Ids' : invoices'[i].org = org /\ i < c} = Before(org, c)
              /\ NextId \in Nat /\ NextId' \in Nat /\ NextId <= NextId'
        BY RowsBeforeCursor
      <4>2. /\ {i \in Ids' : invoices'[i].org = page.org /\ i < page.cursor}
                 = Before(page.org, page.cursor)
            /\ NextId \in Nat /\ NextId' \in Nat /\ NextId <= NextId'
        BY <3>1, <4>1
      <4>3. QED
        BY <2>1, <4>2 DEF Before, OfOrg
    <3>3. Seen' = Seen
      BY <2>1 DEF Seen
    <3>4. page.cursor <= NextId'
      BY <3>1, <3>2
    <3>5. PageInv'
      BY <2>1, <2>3, <3>2, <3>3, <3>4 DEF ListInv, PageInv
    <3>6. QED
      BY <1>0, <3>5 DEF ListInv
  <2>4. QED
    BY <2>2, <2>3
<1>4. QED
  BY <1>1, <1>2, <1>3

\* InvoicesHold, what the runs check of the whole of invoice.rs: types, the
\* second read of issue and void, the list of a customer, and statuses that only
\* go forward; for any number of customers, orders, requests and invoices.
THEOREM InvoicesAlwaysHold == Spec => InvoicesHold
<1>1. Init => ListInv
  BY TypesInit DEF Init, ListInv, PageInv
<1>2. ListInv => ListExact
  BY DEF ListInv, PageInv, ListExact, Seen
<1>3. Spec => []ListExact
  BY <1>1, <1>2, ListStep, PTL DEF Spec
<1>4. Spec => [](TypeOK /\ RereadsAsExpected /\ ListExact)
  BY <1>3, TypeCorrect, RereadsAlwaysAsExpected, PTL
<1>5. QED
  BY <1>4, VoidAlwaysFinal DEF InvoicesHold
=============================================================================
