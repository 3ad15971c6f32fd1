----------------------------- MODULE PricingCases -----------------------------
(***************************************************************************)
(* Price resolution over all small tables: Init chooses the rows the       *)
(* administrator's handlers could have stored, in any order, and a call to *)
(* bill; Resolve runs the code on them.                                    *)
(***************************************************************************)
EXTENDS Pricing, FiniteSets

CONSTANTS
  MaxPrices, MaxDiscounts,  \* rows in a table
  Group,                    \* groups that exist
  Asked,                    \* the group_id of the caller: may be None or deleted
  Model,                    \* the model of the call and others
  From, Till, At,           \* bounds of validity, Till with None, and the time of the call
  Version, Priority,        \* numbers that occur
  Amounts,                  \* unit prices: functions from keys of a quantity to numbers
  Tenths, Tokens            \* values of discounts and token counts, Tokens with None

VARIABLES prices, discounts, group, at, usage, out
vars == <<prices, discounts, group, at, usage, out>>

Tables(Row, max) == UNION {[1..n -> Row] : n \in 0..max}

Called == CHOOSE m \in Model : TRUE

\* A price of the model: any group, also one deleted since, any version,
\* validity and amount.
PriceRow ==
  {p \in [group : Group \cup {None}, version : Version, from : From, to : Till, amounts : Amounts] :
     validate_window(p.from, p.to)}

DiscountShape ==
  {d \in [scope : Scopes \ {"org"}, kind : Kinds, value : Tenths, stackable : BOOLEAN,
          priority : Priority, model : Model, group : Group, from : From, to : Till] :
     validate_value(d.kind, d.value) /\ validate_window(d.from, d.to)}

\* The row the handler stores, its id that of its position.
Stored(d, i) ==
  LET target == resolve_targets(d.scope, d.model, d.group)
  IN [id |-> i, scope |-> d.scope, kind |-> d.kind, value |-> d.value, stackable |-> d.stackable,
      priority |-> d.priority, model |-> target.model, group |-> target.group,
      from |-> d.from, to |-> d.to]

DiscountTables ==
  {[i \in DOMAIN shapes |-> Stored(shapes[i], i)] : shapes \in Tables(DiscountShape, MaxDiscounts)}

Usage == [prompt : Tokens, completion : Tokens]
Factor == [num : Int, den : Int]

PricingAssumption ==
  /\ {MaxPrices, MaxDiscounts} \subseteq Nat
  /\ Model # {}
  /\ From \cup At \cup Version \cup Priority \cup Tenths \subseteq Int
  /\ Till \cup Tokens \subseteq Int \cup {None}
  /\ \A a \in Amounts : \A k \in DOMAIN a : a[k] \in Nat
  /\ None \notin PriceRow \cup [input : Int, output : Int]
  /\ None \notin [price : PriceRow, factor : Factor, applied : SUBSET Nat]

Init ==
  /\ prices \in Tables(PriceRow, MaxPrices)
  /\ discounts \in DiscountTables
  /\ group \in Asked
  /\ at \in At
  /\ usage \in Usage
  /\ out = None

Bill ==
  LET resolved == resolve_price_by_group_id(prices, discounts, Called, Group, group, at)
      quantity == extract_token_usage(usage)
  IN IF resolved = None \/ quantity = None THEN [bill |-> FALSE]
     ELSE [bill |-> TRUE, price |-> resolved.price, factor |-> resolved.factor,
           applied |-> resolved.applied,
           base |-> compute_charge(resolved.price.amounts, quantity),
           charged |-> charge_discounted(resolved.price.amounts, resolved.factor, quantity)]

Resolve ==
  /\ out = None
  /\ out' = Bill
  /\ UNCHANGED <<prices, discounts, group, at, usage>>

Next == Resolve
Spec == Init /\ [][Next]_vars

-----------------------------------------------------------------------------
\* The group whose price counts: that of the caller while it exists.
Effective == IF group \in Group THEN group ELSE None
Billed == out # None /\ out.bill

ValidPrices(g) == {p \in Range(prices) : p.group = g /\ p.from <= at /\ (p.to = None \/ at < p.to)}

\* The price billed is one that is valid now, of the caller's group when the
\* group has one and the default otherwise, and the newest of its tier
\* (resolve.rs:47-48, lib.rs:54-62).
BilledAtBestPrice ==
  Billed =>
    LET tier == IF Effective # None /\ ValidPrices(Effective) # {}
                THEN ValidPrices(Effective) ELSE ValidPrices(None)
    IN out.price \in tier /\ \A p \in tier : p.version <= out.price.version

\* A call with usage and a price to resolve is billed: deleting the group of a
\* customer does not make its calls free while a default price stands.
NeverFree ==
  out # None /\ ValidPrices(None) # {} /\ (usage.prompt # None \/ usage.completion # None)
    => out.bill

\* The SQL conditions and the in-memory filters are two copies of one rule:
\* leaving the SQL out would change nothing.
PrefilterAgrees ==
  /\ select_price(prices, Effective, at)
       = select_price(sql_prices(prices, Effective, at), Effective, at)
  /\ apply_discounts(discounts, Called, Effective, at)
       = apply_discounts(sql_discounts(discounts, Called, Effective, at), Called, Effective, at)

\* The discounts logged as applied explain the factor: their product is it, and
\* a discount that does not stack stands alone.
AppliedExplainsFactor ==
  Billed =>
    LET rows == RestrictValues(discounts, LAMBDA d : d.id \in out.applied)
    IN /\ out.factor = Product(rows)
       /\ (\E i \in DOMAIN rows : ~rows[i].stackable) => Cardinality(out.applied) = 1

\* A discount never raises a bill, never makes it negative, and rounding the
\* two amounts separately does not turn them round.
NeverDearer == Billed => 0 <= out.charged /\ out.charged <= out.base

\* Two rows that code which reads them in another order could confuse.
Tied ==
  \/ \E i, j \in DOMAIN prices :
       i # j /\ prices[i].group = prices[j].group /\ prices[i].version = prices[j].version
  \/ \E i, j \in DOMAIN discounts :
       /\ i # j /\ ~discounts[i].stackable /\ ~discounts[j].stackable
       /\ discounts[i].priority = discounts[j].priority

\* The same rows in any order.
Reordered(rows) == {[i \in DOMAIN rows |-> rows[p[i]]] : p \in Bijection(DOMAIN rows, DOMAIN rows)}

\* Without a tie the price does not depend on the order of the rows.
OrderFree ==
  Billed /\ ~Tied =>
    \A ps \in Reordered(prices), ds \in Reordered(discounts) :
      resolve_price_by_group_id(ps, ds, Called, Group, group, at)
        = [price |-> out.price, factor |-> out.factor, applied |-> out.applied]
=============================================================================
