------------------------------ MODULE Pricing ------------------------------
(***************************************************************************)
(* Resolving a unit price and charging for usage: crates/pricing/src/      *)
(* resolve.rs and lib.rs, and crates/billing/src/charge.rs.                *)
(*                                                                         *)
(* Rows are functions on positions, in the order the database happened to  *)
(* return them (none of the queries has an ORDER BY); a filter leaves out  *)
(* positions and keeps the order of the others.  Times, versions,          *)
(* priorities and prices are numbers; a percentage discount is a number of *)
(* tenths and a discount factor a fraction num / den.  A price is in       *)
(* thousandths of a yuan per million tokens, so price * tokens is in       *)
(* 10^-9 yuan, and a charge is in 10^-8 yuan, what numeric(18,8) keeps.    *)
(***************************************************************************)
EXTENDS Integers, Functions

CONSTANT None

Scopes == {"global", "model", "group", "model_group", "org"}
Kinds == {"percentage", "fixed"}

-----------------------------------------------------------------------------
(* What the administrator's handlers let into the tables. *)

validate_window(from, to) == to # None => to > from

validate_value(kind, tenths) ==
  CASE kind = "percentage" -> tenths > 0 /\ tenths <= 10
    [] kind = "fixed" -> tenths > 0

\* The targets a scope stores: those it needs, and no other; scope "org" is
\* not offered.
resolve_targets(scope, model, group) ==
  [model |-> IF scope \in {"model", "model_group"} THEN model ELSE None,
   group |-> IF scope \in {"group", "model_group"} THEN group ELSE None]

-----------------------------------------------------------------------------
(* Selecting a price. *)

is_valid_at(row, at) == row.from <= at /\ (row.to = None \/ row.to > at)

rank(price, group) == IF group # None /\ price.group = group THEN 1 ELSE 0

\* The comparison of max_by; on a tie max_by keeps the later element.
NotAfter(a, b, group) ==
  \/ rank(a, group) < rank(b, group)
  \/ rank(a, group) = rank(b, group) /\ a.version <= b.version

select_price(prices, group, at) ==
  LET candidates == {i \in DOMAIN prices :
        is_valid_at(prices[i], at) /\ prices[i].group \in {None, group}}
      IsLastBest(i) == \A j \in candidates :
        /\ NotAfter(prices[j], prices[i], group)
        /\ NotAfter(prices[i], prices[j], group) => j <= i
  IN IF candidates = {} THEN None ELSE prices[CHOOSE i \in candidates : IsLastBest(i)]

\* What the SQL of resolve_for lets through before select_price sees it.
sql_admits(p, group, at) ==
  /\ p.group \in (IF group = None THEN {None} ELSE {None, group})
  /\ p.from <= at /\ (p.to = None \/ p.to > at)
sql_prices(prices, group, at) == RestrictValues(prices, LAMBDA p : sql_admits(p, group, at))

-----------------------------------------------------------------------------
(* Applying discounts. *)

targets(d, model, group) ==
  CASE d.scope = "global" -> TRUE
    [] d.scope = "model" -> d.model = model
    [] d.scope = "group" -> group # None /\ d.group = group
    [] d.scope = "model_group" -> d.model = model /\ group # None /\ d.group = group
    [] d.scope = "org" -> FALSE

One == [num |-> 1, den |-> 1]
Times(factor, tenths) == [num |-> factor.num * tenths, den |-> factor.den * 10]

\* max_by_key keeps the later of two discounts with the same priority.
Top(rows) ==
  LET IsLastHighest(i) == \A j \in DOMAIN rows :
        \/ rows[j].priority < rows[i].priority
        \/ rows[j].priority = rows[i].priority /\ j <= i
  IN rows[CHOOSE i \in DOMAIN rows : IsLastHighest(i)]

\* All percentages multiplied.
Product(rows) == FoldFunction(LAMBDA d, factor : Times(factor, d.value), One, rows)

\* The factor, and the ids of the percentage discounts it is made of.
apply_discounts(discounts, model, group, at) ==
  LET percentage == RestrictValues(discounts, LAMBDA d :
        is_valid_at(d, at) /\ targets(d, model, group) /\ d.kind = "percentage")
      alone == RestrictValues(percentage, LAMBDA d : ~d.stackable)
  IN IF DOMAIN alone # {}
     THEN [factor |-> Times(One, Top(alone).value), applied |-> {Top(alone).id}]
     ELSE [factor |-> Product(percentage),
           applied |-> {percentage[i].id : i \in DOMAIN percentage}]

\* Slip: the scopes of groups are forgotten in the SQL.
sql_without_group(discounts, model, group, at) ==
  RestrictValues(discounts, LAMBDA d :
    /\ d.from <= at /\ (d.to = None \/ d.to > at)
    /\ \/ d.scope = "global"
       \/ d.scope = "model" /\ d.model = model)

sql_discounts(discounts, model, group, at) ==
  RestrictValues(discounts, LAMBDA d :
    /\ d.from <= at /\ (d.to = None \/ d.to > at)
    /\ \/ d.scope = "global"
       \/ d.scope = "model" /\ d.model = model
       \/ group # None /\ d.scope = "group" /\ d.group = group
       \/ group # None /\ d.scope = "model_group" /\ d.model = model /\ d.group = group)

-----------------------------------------------------------------------------
(* Resolution: None stands for the 404 of a model without a price. *)

resolve_for(prices, discounts, model, group, at) ==
  LET price == select_price(sql_prices(prices, group, at), group, at)
      d == apply_discounts(sql_discounts(discounts, model, group, at), model, group, at)
  IN IF price = None THEN None
     ELSE [price |-> price, factor |-> d.factor, applied |-> d.applied]

\* The console's preview: an unknown group is a 404.
resolve_price(prices, discounts, model, groups, group, at) ==
  IF group # None /\ group \notin groups THEN None
  ELSE resolve_for(prices, discounts, model, group, at)

\* The billing path: a group that is gone falls back to the default price.
resolve_price_by_group_id(prices, discounts, model, groups, group, at) ==
  resolve_for(prices, discounts, model, IF group \in groups THEN group ELSE None, at)

-----------------------------------------------------------------------------
(* Charging.  quantity and unit_prices are functions from keys (input,     *)
(* output, ...) to numbers; a key that one of them lacks is not charged.   *)

\* Half to even, from 10^-9 to 10^-8 (Decimal::round_dp).
round_dp(n, by) ==
  LET q == n \div by
      r == n % by
  IN IF 2 * r > by \/ (2 * r = by /\ q % 2 = 1) THEN q + 1 ELSE q

Charged(unit_prices, quantity) ==
  FoldFunction(+, 0, [k \in DOMAIN quantity \cap DOMAIN unit_prices |-> quantity[k] * unit_prices[k]])

compute_charge(unit_prices, quantity) == round_dp(Charged(unit_prices, quantity), 10)

\* percentage discounts scale every unit price (to 12 decimals, far below
\* what a charge keeps), so the charge is the scaled sum.
charge_discounted(unit_prices, factor, quantity) ==
  round_dp(Charged(unit_prices, quantity) * factor.num, 10 * factor.den)

\* Token counts of an upstream's usage object: missing ones are 0, negative
\* ones too; without any there is nothing to bill.
extract_token_usage(usage) ==
  LET Clamp(n) == IF n = None \/ n < 0 THEN 0 ELSE n
  IN IF usage.prompt = None /\ usage.completion = None THEN None
     ELSE [input |-> Clamp(usage.prompt), output |-> Clamp(usage.completion)]
=============================================================================
