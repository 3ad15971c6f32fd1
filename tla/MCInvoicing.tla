----------------------------- MODULE MCInvoicing -----------------------------
(* Invoicing for TLC: two customers, an order of each. *)
EXTENDS Invoicing, TLC

CONSTANTS ours, theirs, big, small

Owners == big :> ours @@ small :> theirs
Prices == big :> 3 @@ small :> 1
Symmetry == Permutations(Handler)

Busy == {h \in Handler : pos[h] # "idle"}
Creating == {job[h].ask : h \in {i \in Busy : job[i].ask.kind = "create"}}
Rows == {invoices[i] : i \in Ids}

\* Two requests at once about one order or the balance, in halves of the limit.
Races ==
  /\ page = None /\ paid \subseteq {big}
  /\ \A x \in Creating \cup Rows : x.org = ours /\ x.order # small /\ x.amount # 1

\* One request at a time, both customers, and one of them reads its list.
Lists ==
  /\ now = 0 /\ Cardinality(Busy) <= 1
  /\ \A x \in Creating \cup Rows : x.amount = 1

InvoicingNext == Next /\ (Races \/ Lists)'
InvoicingSpec == Init /\ [][InvoicingNext]_vars

=============================================================================
