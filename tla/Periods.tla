------------------------------- MODULE Periods -------------------------------
(***************************************************************************)
(* The months that the books are closed and reported by (period_bounds of  *)
(* billing/src/reconcile.rs, parse_period of margin.rs, prev_period of     *)
(* email_cron.rs).  A period is a pair <<year, month>>; an instant is a    *)
(* number of ticks, MonthTicks to a month, in UTC.                         *)
(***************************************************************************)
EXTENDS Integers

CONSTANTS
  MonthTicks,   \* ticks in a month
  CstAhead      \* ticks by which China Standard Time is ahead of UTC

ASSUME PeriodsAssumption == MonthTicks \in Nat \ {0} /\ CstAhead \in 0..MonthTicks

Start(p) == (12 * p[1] + p[2] - 1) * MonthTicks
PeriodAt(t) == LET m == t \div MonthTicks IN <<m \div 12, (m % 12) + 1>>
Following(p) == IF p[2] = 12 THEN <<p[1] + 1, 1>> ELSE <<p[1], p[2] + 1>>
prev_period(p) == IF p[2] = 1 THEN <<p[1] - 1, 12>> ELSE <<p[1], p[2] - 1>>

ValidPeriod(p) == p[1] \in 2000..2100 /\ p[2] \in 1..12
period_bounds(p) == [from |-> Start(p), to |-> Start(Following(p))]

\* [start, end): a month begins at its first instant and ends before the next.
Within(t, b) == b.from <= t /\ t < b.to

cst(t) == t + CstAhead
=============================================================================
