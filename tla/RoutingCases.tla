----------------------------- MODULE RoutingCases -----------------------------
(***************************************************************************)
(* Routing over all small tables: Init chooses the routes and channels,    *)
(* Resolve runs the functions on them.                                     *)
(***************************************************************************)
EXTENDS Routing

CONSTANTS Channel, Priority, RoutePriority, ChannelWeight, RouteWeight

RoutingAssumption ==
  /\ IsFiniteSet(Channel)
  /\ Channel \cup Priority \cup ChannelWeight \subseteq Int
  /\ RoutePriority \cup RouteWeight \subseteq Int \cup {None}

VARIABLES routes, channels, out
vars == <<routes, channels, out>>

Init ==
  /\ routes \in [Channel -> [enabled : {TRUE}, priority : RoutePriority,
                           weight : RouteWeight]]
  /\ channels \in [Channel -> [status : {"Enabled", "CircuitBroken"}, priority : Priority,
                               weight : ChannelWeight]]
  /\ out = None

Resolve ==
  /\ out = None
  /\ LET cands == Candidates(routes, channels)
     IN out' = [ranked |-> rank_routes(cands), orders |-> weighted_failover_order(cands)]
  /\ UNCHANGED <<routes, channels>>

Next == Resolve
Spec == Init /\ [][Next]_vars

-----------------------------------------------------------------------------
Cands == Candidates(routes, channels)
Resolved == out # None

\* No candidate of a lower priority before one of a higher, and within a
\* priority those without weight last, by id.
InOrder(a, b) ==
  \/ a.priority > b.priority
  \/ a.priority = b.priority /\ Weight(a) > 0
  \/ a.priority = b.priority /\ Weight(a) = 0 /\ Weight(b) = 0 /\ a.channel < b.channel

\* The random order of the relay is exactly that: every candidate once, tiers
\* by priority, any order among those with a weight, no other order
\* (route.rs:65-67; data-model.md:163).
OrdersAreTiered ==
  Resolved =>
    out.orders = {o \in SetToSeqs(Cands) :
                    \A i, j \in DOMAIN o : i < j => InOrder(o[i], o[j])}

\* Two copies of one rule: the candidates pick_weighted can return are those
\* the shuffle can put first.
PickAgrees ==
  Resolved /\ Cands # {} =>
    {o[1] : o \in out.orders} = {pick_weighted(out.ranked, n) : n \in 0..Total(TopTier(out.ranked))}

\* A channel is drawn in proportion to its weight: it owns as many of the
\* numbers below the total as its weight (route.rs:35-36, 52-61).
Proportional ==
  Resolved /\ Cands # {} /\ Total(TopTier(out.ranked)) > 0 =>
    LET top == TopTier(out.ranked)
    IN \A c \in Range(top) :
         Cardinality({n \in 0..(Total(top) - 1) : pick_weighted(out.ranked, n) = c}) = Weight(c)
=============================================================================
