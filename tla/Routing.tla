------------------------------ MODULE Routing ------------------------------
(***************************************************************************)
(* The order in which the channels of a model are tried: resolve_route in  *)
(* crates/gateway/src/lib.rs and the pure functions of route.rs.  A        *)
(* candidate is a channel with its effective priority and weight; a model  *)
(* has at most one route to a channel (unique index of model_channels).    *)
(***************************************************************************)
EXTENDS Missing, Integers, Sequences, FiniteSets, SequencesExt

\* The priority and weight of a route override those of its channel.
Effective(own, default) == IF own = None THEN default ELSE own

\* Routes and channels are functions on the ids of the channels that have
\* one; only an enabled route to an Enabled channel is a candidate.
Candidates(routes, channels) ==
  {[channel |-> c,
    priority |-> Effective(routes[c].priority, channels[c].priority),
    weight |-> Effective(routes[c].weight, channels[c].weight)] :
     c \in {d \in DOMAIN routes \cap DOMAIN channels :
              routes[d].enabled /\ channels[d].status = "Enabled"}}

\* The deterministic order of the preview: highest priority first, then the
\* heaviest, then the lowest id.
Before(a, b) ==
  \/ a.priority > b.priority
  \/ a.priority = b.priority /\ a.weight > b.weight
  \/ a.priority = b.priority /\ a.weight = b.weight /\ a.channel < b.channel

rank_routes(candidates) ==
  CHOOSE ranked \in SetToSeqs(candidates) :
    \A i, j \in DOMAIN ranked : i < j => Before(ranked[i], ranked[j])

\* A tier is a function on the places where its candidates stand.
Weight(c) == IF c.weight < 0 THEN 0 ELSE c.weight
Total(tier) == FoldFunction(+, 0, [i \in DOMAIN tier |-> Weight(tier[i])])

TopTier(candidates) ==
  RestrictValues(candidates, LAMBDA c : \A d \in Range(candidates) : d.priority <= c.priority)

\* Slip: >= for > in the walk over the weights.
at_or_below(tier, target) ==
  LET Reached(j) == target <= Total(RestrictDomain(tier, LAMBDA i : i <= j))
  IN CHOOSE j \in DOMAIN tier : Reached(j) /\ \A i \in DOMAIN tier : i < j => ~Reached(i)

\* The first place of the tier at which the cumulated weight exceeds the target.
Drawn(tier, target) ==
  LET Reached(j) == target < Total(RestrictDomain(tier, LAMBDA i : i <= j))
  IN CHOOSE j \in DOMAIN tier : Reached(j) /\ \A i \in DOMAIN tier : i < j => ~Reached(i)

\* Who stands in when nobody has a weight.
Lowest(tier) == CHOOSE c \in tier : \A d \in tier : c.channel <= d.channel

\* pick_weighted takes the candidates in any order and a random number.
pick_weighted(candidates, rand) ==
  LET tier == TopTier(candidates)
  IN IF candidates = <<>> THEN None
     ELSE IF Total(tier) = 0 THEN Lowest(Range(tier))
     ELSE tier[Drawn(tier, rand % Total(tier))]

\* The tier of what is left: its candidates of the highest priority.
Top(rest) == {c \in rest : \A d \in rest : d.priority <= c.priority}

\* The shuffle has a tier in the order of the ids, which are its places.
ById(tier) == [id \in {c.channel : c \in tier} |-> CHOOSE c \in tier : c.channel = id]

\* What one round of the shuffle may take out of it: the lowest id when no
\* candidate has a weight, else the one that some target reaches.
Draws(rest) ==
  LET tier == ById(Top(rest))
  IN {c \in Top(rest) :
        IF Total(tier) = 0 THEN c = Lowest(Top(rest))
        ELSE \E target \in 0..(Total(tier) - 1) : c = tier[Drawn(tier, target)]}

\* weighted_failover_order: tier after tier, each candidate one that a draw
\* from what is left of its tier can select.
weighted_failover_order(candidates) ==
  {order \in SetToSeqs(candidates) :
     \A i \in DOMAIN order : order[i] \in Draws({order[j] : j \in i..Len(order)})}

=============================================================================
