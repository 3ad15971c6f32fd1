--------------------------- MODULE GatewayProofs ---------------------------
(* What a chat request keeps for any number of requests, channels and routes: *)
(* the channels see it in turn, and the answer is billed once, as it was      *)
(* given.  Requests share only the channel rows, so the invariant is one of   *)
(* each request by itself.  What the writers of a channel's status may do,    *)
(* for any channels, requests, edits and upstreams, as MCGateway has them     *)
(* side by side; its bound on the next state plays no part.  And what the     *)
(* adapters make of conversations and answers of any length (MCFunctions).    *)
EXTENDS MCGateway, MCFunctions, FiniteSetTheorems, WellFoundedInduction, TLAPS

Places == {"idle", "routed", "next", "sending", "body", "settling", "streaming", "done"}
Ranked(c) == [channel |-> c, priority |-> EffectivePriority(c),
              weight |-> Effective(Routes[c].weight, Base[c].weight)]
Candidate == {Ranked(c) : c \in DOMAIN Routes}

\* What a request has is a function on the requests.
Shape ==
  /\ stream = [r \in Request |-> stream[r]] /\ pc = [r \in Request |-> pc[r]]
  /\ order = [r \in Request |-> order[r]] /\ rows = [r \in Request |-> rows[r]]
  /\ attempt = [r \in Request |-> attempt[r]] /\ answer = [r \in Request |-> answer[r]]
  /\ usage = [r \in Request |-> usage[r]] /\ received = [r \in Request |-> received[r]]
  /\ worked = [r \in Request |-> worked[r]] /\ tried = [r \in Request |-> tried[r]]
  /\ chunks = [r \in Request |-> chunks[r]] /\ shown = [r \in Request |-> shown[r]]
  /\ reported = [r \in Request |-> reported[r]] /\ scanned = [r \in Request |-> scanned[r]]
  /\ shared = [r \in Request |-> shared[r]] /\ source = [r \in Request |-> source[r]]
  /\ settling = [r \in Request |-> settling[r]] /\ log = [r \in Request |-> log[r]]

Kinds(r) ==
  /\ stream[r] \in BOOLEAN /\ pc[r] \in Places /\ attempt[r] \in 0..2
  /\ rows[r] \subseteq Channel /\ worked[r] \subseteq Channel /\ tried[r] \subseteq Channel
  /\ answer[r] \in Channel \cup {None} /\ usage[r] \in Usage \cup {None}
  /\ reported[r] \in Usage \cup {None} /\ scanned[r] \in Usage \cup {None}
  /\ shared[r] \in Usage \cup {None}
  /\ source[r] \in {"none", "open", "cut", "closed"}
  /\ settling[r] \in {"none", "spawned", "logged", "failed"}

\* The candidates left are different channels, by falling priority.
Ordered(r) ==
  /\ order[r] \in Seq(Candidate)
  /\ \A i, j \in DOMAIN order[r] :
       i < j => /\ order[r][i].channel # order[r][j].channel
                /\ order[r][j].priority <= order[r][i].priority
  /\ pc[r] \in {"sending", "body", "settling", "streaming"} => order[r] # <<>>

\* No candidate left has seen the request but the one that answers, and none
\* that has seen it is behind another in priority.
Untouched(r) ==
  /\ received[r] \in [Channel -> 0..1]
  /\ pc[r] = "idle" => \A c \in Channel : received[r][c] = 0
  /\ \A i \in DOMAIN order[r] : received[r][order[r][i].channel] > 0 =>
       i = 1 /\ pc[r] \in {"body", "settling", "streaming", "done"}
  /\ \A c \in DOMAIN Routes : received[r][c] > 0 =>
       \A i \in DOMAIN order[r] : order[r][i].priority <= EffectivePriority(c)

\* What of the answer is known where the handler is.
Answering(r) ==
  /\ pc[r] \notin {"streaming", "done"} => answer[r] = None
  /\ pc[r] \notin {"settling", "done"} => usage[r] = None
  /\ pc[r] \in {"body", "settling"} => ~stream[r]
  /\ pc[r] = "settling" => usage[r] \in Usage
  /\ pc[r] = "streaming" => stream[r] /\ answer[r] \in Channel

\* The scanner and the guard have seen what the stream has reported, and every
\* frame given is a piece that came, but for the tail.
Metered(r) ==
  /\ chunks[r] \in 0..MaxChunks /\ shown[r] \in Nat
  /\ shown[r] <= IF source[r] = "closed" THEN chunks[r] + 1 ELSE chunks[r]
  /\ pc[r] \notin {"streaming", "done"} =>
       /\ reported[r] = None /\ scanned[r] = None /\ shared[r] = None
       /\ chunks[r] = 0 /\ shown[r] = 0 /\ source[r] = "none"
  /\ pc[r] = "streaming" => scanned[r] = reported[r] /\ shared[r] = reported[r]
  /\ reported[r] # None => stream[r]

\* The row of a request comes after its end, from what its answer reported.
Billed(r) ==
  /\ pc[r] # "done" => settling[r] = "none"
  /\ settling[r] # "logged" => log[r] = <<>>
  /\ settling[r] = "spawned" =>
       stream[r] /\ answer[r] \in Channel /\ usage[r] = reported[r]
  /\ settling[r] = "logged" =>
       /\ Len(log[r]) = 1 /\ log[r][1] = Row(r, answer[r], usage[r])
       /\ stream[r] => usage[r] = reported[r]
  /\ pc[r] = "done" /\ reported[r] # None => settling[r] # "none"
  /\ ~stream[r] /\ usage[r] # None /\ answer[r] \in Channel => settling[r] \in {"logged", "failed"}

RequestInv(r) ==
  Kinds(r) /\ Ordered(r) /\ Untouched(r) /\ Answering(r) /\ Metered(r) /\ Billed(r)

Shared ==
  /\ status \in [Channel -> Statuses]
  /\ edits \in 0..MaxEdits /\ faults \in 0..MaxFaults

RelayInv == Shape /\ Shared /\ \A r \in Request : RequestInv(r)

-----------------------------------------------------------------------------
\* A step that leaves all that q has.
Same(q) ==
  /\ stream'[q] = stream[q] /\ pc'[q] = pc[q] /\ order'[q] = order[q] /\ rows'[q] = rows[q]
  /\ attempt'[q] = attempt[q] /\ answer'[q] = answer[q] /\ usage'[q] = usage[q]
  /\ received'[q] = received[q] /\ worked'[q] = worked[q] /\ tried'[q] = tried[q]
  /\ chunks'[q] = chunks[q] /\ shown'[q] = shown[q] /\ reported'[q] = reported[q]
  /\ scanned'[q] = scanned[q] /\ shared'[q] = shared[q] /\ source'[q] = source[q]
  /\ settling'[q] = settling[q] /\ log'[q] = log[q]

\* A step of r alone.
Acts(r) == Shape' /\ Shared' /\ \A q \in Request \ {r} : Same(q)

LEMMA SameStays ==
  ASSUME NEW q \in Request, RequestInv(q), Same(q)
  PROVE  RequestInv(q)'
<1>1. Kinds(q)'
  BY DEF RequestInv, Kinds, Same
<1>2. Ordered(q)'
  BY DEF RequestInv, Ordered, Same
<1>3. Untouched(q)'
  BY DEF RequestInv, Untouched, Same
<1>4. Answering(q)' /\ Metered(q)'
  BY DEF RequestInv, Answering, Metered, Same
<1>5. Billed(q)'
  BY DEF RequestInv, Billed, Same, Row
<1>6. QED
  BY <1>1, <1>2, <1>3, <1>4, <1>5 DEF RequestInv

LEMMA OneActs ==
  ASSUME RelayInv, NEW r \in Request, Acts(r), RequestInv(r)'
  PROVE  RelayInv'
<1>1. ASSUME NEW q \in Request PROVE RequestInv(q)'
  <2>1. CASE q = r
    BY <2>1
  <2>2. CASE q # r
    <3>1. RequestInv(q) /\ Same(q)
      BY <2>2 DEF RelayInv, Acts
    <3>2. QED
      BY <3>1, SameStays
  <2>3. QED
    BY <2>1, <2>2
<1>2. QED
  BY <1>1 DEF RelayInv, Acts

-----------------------------------------------------------------------------
(* The order of the candidates (route.rs). *)

LEMMA FiniteCandidates == IsFiniteSet(Candidate)
<1> DEFINE f == [c \in DOMAIN Routes |-> Ranked(c)]
<1>1. IsFiniteSet(DOMAIN Routes)
  BY FS_Subset, RelayAssumption DEF RelayAssumption
<1>2. f \in Surjection(DOMAIN Routes, Candidate)
  BY DEF Surjection, Candidate
<1>3. QED
  BY <1>1, <1>2, FS_Surjection

\* The candidates of a request are routes of the model, ranked.
LEMMA CandidatesAreRanked == Candidates(Routes, ChannelRows) \subseteq Candidate
<1>1. \A c \in DOMAIN Routes : c \in Channel
  BY RelayAssumption DEF RelayAssumption
<1>2. QED
  BY <1>1 DEF Candidates, ChannelRows, Candidate, Ranked, EffectivePriority

\* Tier after tier, each candidate once.
LEMMA OrderIsTiered ==
  ASSUME NEW cands, cands \subseteq Candidate, cands # {},
         NEW o \in weighted_failover_order(cands)
  PROVE  /\ o \in Seq(Candidate) /\ o # <<>>
         /\ \A i, j \in DOMAIN o :
              i < j => o[i].channel # o[j].channel /\ o[j].priority <= o[i].priority
<1> DEFINE n == Cardinality(cands)
<1>1. IsFiniteSet(cands) /\ n \in Nat /\ n # 0
  BY FiniteCandidates, FS_Subset, FS_CardinalityType, FS_EmptySet
<1>2. o \in [1..n -> cands] /\ \A i, j \in 1..n : i # j => o[i] # o[j]
  BY DEF weighted_failover_order, SetToSeqs
<1> HIDE DEF n
<1>3. o \in Seq(Candidate) /\ Len(o) = n /\ DOMAIN o = 1..n
  BY <1>1, <1>2
<1>4. ASSUME NEW i \in DOMAIN o, NEW j \in DOMAIN o, i < j
      PROVE  o[i].channel # o[j].channel /\ o[j].priority <= o[i].priority
  <2>1. o[i] # o[j] /\ i \in Int /\ j \in i..Len(o)
    BY <1>1, <1>2, <1>3, <1>4
  <2>2. o[i] \in Candidate /\ o[j] \in Candidate
    BY <1>3
  <2>3. o[i].channel # o[j].channel
    BY <2>1, <2>2 DEF Candidate, Ranked
  <2>4. o[i] \in Top({o[k] : k \in i..Len(o)})
    BY <1>4 DEF weighted_failover_order, Draws
  <2>5. QED
    BY <2>1, <2>3, <2>4 DEF Top
<1>5. QED
  BY <1>1, <1>3, <1>4

\* What the current candidate of a request is.
LEMMA CurrentIsRouted ==
  ASSUME NEW r \in Request, RequestInv(r), order[r] # <<>>
  PROVE  /\ 1 \in DOMAIN order[r] /\ order[r][1] \in Candidate
         /\ Current(r) = order[r][1].channel /\ Current(r) \in DOMAIN Routes /\ Current(r) \in Channel
         /\ order[r][1] = Ranked(Current(r))
         /\ order[r][1].priority = EffectivePriority(Current(r))
<1>1. order[r] \in Seq(Candidate) /\ DOMAIN Routes \subseteq Channel
  BY RelayAssumption DEF RequestInv, Ordered, RelayAssumption
<1>2. 1 \in DOMAIN order[r] /\ order[r][1] \in Candidate /\ Head(order[r]) = order[r][1]
  BY <1>1
<1>3. PICK c \in DOMAIN Routes : order[r][1] = Ranked(c)
  BY <1>2 DEF Candidate
<1>4. Current(r) = c /\ order[r][1].priority = EffectivePriority(c) /\ order[r][1].channel = c
  BY <1>2, <1>3 DEF Current, Ranked
<1>5. QED
  BY <1>1, <1>2, <1>3, <1>4

\* What is left after the current candidate is given up.
LEMMA TailOfOrder ==
  ASSUME NEW r \in Request, RequestInv(r), order[r] # <<>>
  PROVE  /\ Tail(order[r]) \in Seq(Candidate)
         /\ \A i \in DOMAIN Tail(order[r]) : i + 1 \in DOMAIN order[r] /\ i \in Nat /\ i > 0
         /\ \A i \in DOMAIN Tail(order[r]) : Tail(order[r])[i] = order[r][i + 1]
<1>1. order[r] \in Seq(Candidate)
  BY DEF RequestInv, Ordered
<1>2. QED
  BY <1>1

-----------------------------------------------------------------------------
(* The steps of a request. *)

\* A step that leaves the order and the upstreams alone, and goes neither back
\* nor to an upstream without a candidate.
LEMMA OrderStays ==
  ASSUME NEW r \in Request, RequestInv(r), order'[r] = order[r], received'[r] = received[r],
         pc'[r] \in {"sending", "body", "settling", "streaming"} => order[r] # <<>>,
         pc'[r] = "idle" => pc[r] = "idle",
         pc[r] \in {"body", "settling", "streaming", "done"} =>
           pc'[r] \in {"body", "settling", "streaming", "done"}
  PROVE  Ordered(r)' /\ Untouched(r)'
<1>1. Ordered(r)'
  BY DEF RequestInv, Ordered
<1>2. Untouched(r)'
  BY DEF RequestInv, Untouched
<1>3. QED
  BY <1>1, <1>2

\* The current candidate is given up: skipped, in error, or after its answer
\* was lost.
LEMMA FailoverKeeps ==
  ASSUME RelayInv, NEW r \in Request, pc[r] \in {"next", "sending", "body"}, order[r] # <<>>,
         Failover(r), UNCHANGED <<attempt, usage>>,
         received' = received \/ (pc[r] = "sending" /\ Delivered(r)),
         worked' = worked \/ Worked(r)
  PROVE  RelayInv'
<1>1. Shape /\ Shared /\ RequestInv(r)
  BY DEF RelayInv
<1> DEFINE o == order[r]  cur == Current(r)
<1>2. /\ cur \in Channel /\ cur \in DOMAIN Routes /\ 1 \in DOMAIN o /\ cur = o[1].channel
      /\ o[1].priority = EffectivePriority(cur)
  BY <1>1, CurrentIsRouted
<1>3. /\ pc'[r] = "next" /\ order'[r] = Tail(o)
      /\ UNCHANGED <<stream, rows, answer, streamVars, billVars, status, edits, faults>>
  BY <1>1 DEF Failover, Shape
<1>4. Acts(r)
  <2>1. Shape'
    BY <1>1 DEF Failover, Delivered, Worked, Shape, streamVars, billVars
  <2>2. Shared'
    BY <1>1 DEF Failover, Shared
  <2>3. \A q \in Request \ {r} : Same(q)
    BY <1>1 DEF Failover, Delivered, Worked, Shape, Same, streamVars, billVars
  <2>4. QED
    BY <2>1, <2>2, <2>3 DEF Acts
<1>5. Kinds(r)'
  <2>1. tried'[r] = tried[r] \cup {cur}
    BY <1>1 DEF Failover, Shape
  <2>2. worked'[r] = worked[r] \/ worked'[r] = worked[r] \cup {cur}
    BY <1>1 DEF Worked, Shape
  <2>3. QED
    BY <1>1, <1>2, <1>3, <2>1, <2>2 DEF RequestInv, Kinds, Places, streamVars, billVars
<1>6. /\ Tail(o) \in Seq(Candidate)
      /\ \A i \in DOMAIN Tail(o) : i + 1 \in DOMAIN o /\ i \in Nat /\ i > 0
      /\ \A i \in DOMAIN Tail(o) : Tail(o)[i] = o[i + 1]
  BY <1>1, TailOfOrder
<1> HIDE DEF o, cur
<1>7. \A i, j \in DOMAIN o :
        i < j => o[i].channel # o[j].channel /\ o[j].priority <= o[i].priority
  BY <1>1 DEF RequestInv, Ordered, o
<1>8. Ordered(r)'
  <2>1. ASSUME NEW i \in DOMAIN Tail(o), NEW j \in DOMAIN Tail(o), i < j
        PROVE  /\ Tail(o)[i].channel # Tail(o)[j].channel
               /\ Tail(o)[j].priority <= Tail(o)[i].priority
    <3>1. i + 1 < j + 1 /\ i + 1 \in DOMAIN o /\ j + 1 \in DOMAIN o
      BY <1>6, <2>1
    <3>2. QED
      BY <1>6, <1>7, <3>1
  <2>2. QED
    BY <1>3, <1>6, <2>1 DEF Ordered
<1>9. /\ received'[r] \in [Channel -> 0..1]
      /\ \A c \in Channel \ {cur} : received'[r][c] = received[r][c]
  <2>1. CASE received' = received
    BY <1>1, <2>1 DEF RequestInv, Untouched
  <2>2. CASE pc[r] = "sending" /\ Delivered(r)
    <3>1. received[r] \in [Channel -> 0..1] /\ received[r][cur] = 0
      BY <1>1, <1>2, <2>2 DEF RequestInv, Untouched, o
    <3>2. received'[r] = [received[r] EXCEPT ![cur] = @ + 1]
      BY <1>1, <2>2 DEF Delivered, Shape, cur
    <3>3. received'[r] = [received[r] EXCEPT ![cur] = 1]
      BY <3>1, <3>2
    <3>4. QED
      BY <1>2, <3>1, <3>3
  <2>3. QED
    BY <2>1, <2>2
<1>10. ASSUME NEW i \in DOMAIN Tail(o)
       PROVE  received'[r][Tail(o)[i].channel] = 0
  <2>1. i + 1 \in DOMAIN o /\ 1 < i + 1 /\ Tail(o)[i] = o[i + 1]
    BY <1>6
  <2>2. o[i + 1].channel # cur /\ o[i + 1].channel \in Channel
    <3>1. o[i + 1] \in Candidate
      BY <1>1, <2>1 DEF RequestInv, Ordered, o
    <3>2. PICK c \in DOMAIN Routes : o[i + 1] = Ranked(c)
      BY <3>1 DEF Candidate
    <3>3. o[i + 1].channel = c /\ c \in Channel
      BY <3>2, RelayAssumption DEF Ranked, RelayAssumption
    <3>4. QED
      BY <1>2, <1>7, <2>1, <3>3
  <2>3. received[r][o[i + 1].channel] = 0
    <3>1. received[r] \in [Channel -> 0..1]
      BY <1>1 DEF RequestInv, Untouched
    <3>2. ~(received[r][o[i + 1].channel] > 0)
      BY <1>1, <2>1 DEF RequestInv, Untouched, o
    <3>3. QED
      BY <2>2, <3>1, <3>2
  <2>4. QED
    BY <1>9, <2>1, <2>2, <2>3
<1>11. ASSUME NEW c \in DOMAIN Routes, received'[r][c] > 0, NEW i \in DOMAIN Tail(o)
       PROVE  Tail(o)[i].priority <= EffectivePriority(c)
  <2>1. i + 1 \in DOMAIN o /\ 1 < i + 1 /\ Tail(o)[i] = o[i + 1]
    BY <1>6
  <2>2. CASE c = cur
    BY <1>2, <1>7, <2>1, <2>2
  <2>3. CASE c # cur
    <3>1. received[r][c] > 0
      BY <1>9, <1>11, <2>3, RelayAssumption DEF RelayAssumption
    <3>2. QED
      BY <1>1, <2>1, <3>1 DEF RequestInv, Untouched, o
  <2>4. QED
    BY <2>2, <2>3
<1>12. Untouched(r)'
  <2>1. \A i \in DOMAIN order'[r] : ~(received'[r][order'[r][i].channel] > 0)
    BY <1>3, <1>10
  <2>2. \A c \in DOMAIN Routes : received'[r][c] > 0 =>
          \A i \in DOMAIN order'[r] : order'[r][i].priority <= EffectivePriority(c)
    BY <1>3, <1>11
  <2>3. QED
    BY <1>3, <1>9, <2>1, <2>2 DEF Untouched
<1>13. Answering(r)' /\ Metered(r)'
  BY <1>1, <1>3 DEF RequestInv, Answering, Metered, streamVars
<1>14. Billed(r)'
  BY <1>1, <1>3 DEF RequestInv, Billed, Answering, Metered, streamVars, billVars
<1>15. RequestInv(r)'
  BY <1>5, <1>8, <1>12, <1>13, <1>14 DEF RequestInv
<1>16. QED
  BY <1>4, <1>15, OneActs

\* A step that leaves the order and the upstreams alone is checked by what it
\* does to the answer.
LEMMA QuietKeeps ==
  ASSUME RelayInv, NEW r \in Request, Acts(r), order'[r] = order[r], received'[r] = received[r],
         pc'[r] \in {"sending", "body", "settling", "streaming"} => order[r] # <<>>,
         pc'[r] = "idle" => pc[r] = "idle",
         pc[r] \in {"body", "settling", "streaming", "done"} =>
           pc'[r] \in {"body", "settling", "streaming", "done"},
         Kinds(r)', Answering(r)', Metered(r)', Billed(r)'
  PROVE  RelayInv'
<1>1. Ordered(r)' /\ Untouched(r)'
  BY OrderStays DEF RelayInv
<1>2. QED
  BY <1>1, OneActs DEF RequestInv

\* The current candidate answers: it has seen the request, once.
LEMMA DeliveredKeeps ==
  ASSUME RelayInv, NEW r \in Request, pc[r] = "sending", Delivered(r), order'[r] = order[r],
         pc'[r] \in {"body", "streaming", "done"}
  PROVE  Ordered(r)' /\ Untouched(r)'
<1>1. Shape /\ RequestInv(r)
  BY DEF RelayInv
<1> DEFINE o == order[r]  cur == Current(r)
<1>2. order[r] # <<>>
  BY <1>1 DEF RequestInv, Ordered
<1>3. /\ cur \in Channel /\ cur \in DOMAIN Routes /\ 1 \in DOMAIN o /\ cur = o[1].channel
      /\ o[1].priority = EffectivePriority(cur)
  BY <1>1, <1>2, CurrentIsRouted
<1>4. received'[r] = [received[r] EXCEPT ![cur] = @ + 1]
  BY <1>1 DEF Delivered, Shape
<1> HIDE DEF o, cur
<1>5. received[r] \in [Channel -> 0..1] /\ received[r][cur] = 0
  BY <1>1, <1>3 DEF RequestInv, Untouched, o
<1>6. /\ received'[r] \in [Channel -> 0..1]
      /\ \A c \in Channel \ {cur} : received'[r][c] = received[r][c]
  <2>1. received'[r] = [received[r] EXCEPT ![cur] = 1]
    BY <1>4, <1>5
  <2>2. QED
    BY <1>3, <1>5, <2>1
<1>7. /\ o \in Seq(Candidate)
      /\ \A i, j \in DOMAIN o :
           i < j => o[i].channel # o[j].channel /\ o[j].priority <= o[i].priority
      /\ order'[r] = o
  BY <1>1 DEF RequestInv, Ordered, o
<1>8. Ordered(r)'
  BY <1>2, <1>7 DEF Ordered, o
<1>9. ASSUME NEW i \in DOMAIN o, received'[r][o[i].channel] > 0
      PROVE  i = 1
  <2>1. CASE o[i].channel = cur
    <3>1. i \in Nat /\ i >= 1
      BY <1>7
    <3>2. QED
      BY <1>3, <1>7, <2>1, <3>1
  <2>2. CASE o[i].channel # cur
    <3>1. o[i] \in Candidate
      BY <1>7
    <3>2. PICK c \in DOMAIN Routes : o[i] = Ranked(c)
      BY <3>1 DEF Candidate
    <3>3. o[i].channel \in Channel
      BY <3>2, RelayAssumption DEF Ranked, RelayAssumption
    <3>4. received[r][o[i].channel] > 0
      BY <1>6, <1>9, <2>2, <3>3
    <3>5. QED
      BY <1>1, <3>4 DEF RequestInv, Untouched, o
  <2>3. QED
    BY <2>1, <2>2
<1>10. ASSUME NEW c \in DOMAIN Routes, received'[r][c] > 0, NEW i \in DOMAIN o
       PROVE  o[i].priority <= EffectivePriority(c)
  <2>1. CASE c = cur
    <3>1. CASE i = 1
      <4>1. o[1].priority \in Int
        <5>1. o[1] = Ranked(cur)
          BY <1>1, <1>2, CurrentIsRouted DEF o, cur
        <5>2. EffectivePriority(cur) \in Int
          BY <1>3, RelayAssumption DEF RelayAssumption, EffectivePriority, Effective
        <5>3. QED
          BY <1>3, <5>2
      <4>2. QED
        BY <1>3, <2>1, <3>1, <4>1
    <3>2. CASE i # 1
      <4>1. 1 < i
        BY <1>7, <3>2
      <4>2. QED
        BY <1>3, <1>7, <2>1, <4>1
    <3>3. QED
      BY <3>1, <3>2
  <2>2. CASE c # cur
    <3>1. received[r][c] > 0
      BY <1>6, <1>10, <2>2, RelayAssumption DEF RelayAssumption
    <3>2. QED
      BY <1>1, <3>1 DEF RequestInv, Untouched, o
  <2>3. QED
    BY <2>1, <2>2
<1>11. Untouched(r)'
  <2>1. \A i \in DOMAIN order'[r] : received'[r][order'[r][i].channel] > 0 => i = 1
    BY <1>7, <1>9
  <2>2. \A c \in DOMAIN Routes : received'[r][c] > 0 =>
          \A i \in DOMAIN order'[r] : order'[r][i].priority <= EffectivePriority(c)
    BY <1>7, <1>10
  <2>3. QED
    BY <1>6, <2>1, <2>2 DEF Untouched
<1>12. QED
  BY <1>8, <1>11

\* Before an upstream is called.
LEMMA EntryKeeps ==
  ASSUME RelayInv, NEW r \in Request,
         \/ Refuse(r) \/ resolve_route(r) \/ ReadChannels(r) \/ Skip(r) \/ AllFailed(r) \/ Send(r)
  PROVE  RelayInv'
<1>1. Shape /\ Shared /\ RequestInv(r)
  BY DEF RelayInv
<1>2. CASE Refuse(r) \/ AllFailed(r) \/ Send(r)
  <2>1. /\ order'[r] = order[r] /\ received'[r] = received[r]
        /\ pc[r] \in {"idle", "next"} /\ pc'[r] \in {"sending", "done"}
        /\ pc'[r] = "sending" => order[r] # <<>>
    BY <1>1, <1>2 DEF Refuse, AllFailed, Send, Shape, handVars, wireVars
  <2>2. Acts(r)
    <3>1. Shape' /\ Shared'
      BY <1>1, <1>2 DEF Refuse, AllFailed, Send, Shape, Shared, handVars, wireVars, streamVars,
                        billVars
    <3>2. \A q \in Request \ {r} : Same(q)
      BY <1>1, <1>2 DEF Refuse, AllFailed, Send, Shape, Same, handVars, wireVars, streamVars,
                        billVars
    <3>3. QED
      BY <3>1, <3>2 DEF Acts
  <2>3. Kinds(r)'
    BY <1>1, <1>2 DEF Refuse, AllFailed, Send, Shape, RequestInv, Kinds, Places, handVars,
                      wireVars, streamVars, billVars
  <2>4. Answering(r)' /\ Metered(r)' /\ Billed(r)'
    BY <1>1, <1>2, <2>1 DEF Refuse, AllFailed, Send, RequestInv, Answering, Metered, Billed,
                            handVars, streamVars, billVars
  <2>5. QED
    BY <2>1, <2>2, <2>3, <2>4, QuietKeeps
<1>3. CASE ReadChannels(r)
  <2>1. /\ order'[r] = order[r] /\ received'[r] = received[r]
        /\ pc[r] = "routed" /\ pc'[r] = "next"
    BY <1>1, <1>3 DEF ReadChannels, Shape, wireVars
  <2>2. Acts(r)
    <3>1. Shape' /\ Shared'
      BY <1>1, <1>3 DEF ReadChannels, Shape, Shared, wireVars, streamVars, billVars
    <3>2. \A q \in Request \ {r} : Same(q)
      BY <1>1, <1>3 DEF ReadChannels, Shape, Same, wireVars, streamVars, billVars
    <3>3. QED
      BY <3>1, <3>2 DEF Acts
  <2>3. Kinds(r)'
    <3>1. rows'[r] \subseteq Channel
      BY <1>1, <1>3 DEF ReadChannels, Shape
    <3>2. QED
      BY <1>1, <1>3, <2>1, <3>1 DEF ReadChannels, RequestInv, Kinds, Places, wireVars, streamVars,
                                    billVars
  <2>4. Answering(r)' /\ Metered(r)' /\ Billed(r)'
    BY <1>1, <1>3, <2>1 DEF ReadChannels, RequestInv, Answering, Metered, Billed, streamVars,
                            billVars
  <2>5. QED
    BY <2>1, <2>2, <2>3, <2>4, QuietKeeps
<1>4. CASE Skip(r)
  BY <1>4, FailoverKeeps DEF Skip
<1>5. CASE resolve_route(r)
  <2> DEFINE cands == Candidates(Routes, ChannelRows)
  <2>1. /\ pc[r] = "idle" /\ cands # {} /\ pc' = [pc EXCEPT ![r] = "routed"]
        /\ UNCHANGED <<status, stream, rows, attempt, answer, usage, wireVars, streamVars, billVars,
                       edits, faults>>
    BY <1>5 DEF resolve_route
  <2>2. PICK o \in weighted_failover_order(cands) : order' = [order EXCEPT ![r] = o]
    BY <1>5 DEF resolve_route
  <2>3. /\ o \in Seq(Candidate) /\ o # <<>>
        /\ \A i, j \in DOMAIN o :
             i < j => o[i].channel # o[j].channel /\ o[j].priority <= o[i].priority
    BY <2>1, <2>2, CandidatesAreRanked, OrderIsTiered
  <2> HIDE DEF cands
  <2>4. pc'[r] = "routed" /\ order'[r] = o /\ received'[r] = received[r]
    BY <1>1, <2>1, <2>2 DEF Shape, wireVars
  <2>5. Acts(r)
    <3>1. Shape' /\ Shared'
      BY <1>1, <2>1, <2>2 DEF Shape, Shared, wireVars, streamVars, billVars
    <3>2. \A q \in Request \ {r} : Same(q)
      BY <1>1, <2>1, <2>2 DEF Shape, Same, wireVars, streamVars, billVars
    <3>3. QED
      BY <3>1, <3>2 DEF Acts
  <2>6. Kinds(r)'
    BY <1>1, <2>1, <2>4 DEF RequestInv, Kinds, Places, wireVars, streamVars, billVars
  <2>7. Ordered(r)'
    BY <2>3, <2>4 DEF Ordered
  <2>8. Untouched(r)'
    <3>1. \A c \in Channel : received'[r][c] = 0
      BY <1>1, <2>1, <2>4 DEF RequestInv, Untouched
    <3>2. \A i \in DOMAIN o : o[i].channel \in Channel
      <4>1. \A i \in DOMAIN o : o[i] \in Candidate
        BY <2>3
      <4>2. QED
        BY <4>1, RelayAssumption DEF Candidate, Ranked, RelayAssumption
    <3>3. \A c \in DOMAIN Routes : received'[r][c] = 0
      BY <3>1, RelayAssumption DEF RelayAssumption
    <3>4. QED
      BY <1>1, <2>1, <2>4, <3>1, <3>2, <3>3 DEF RequestInv, Untouched
  <2>9. Answering(r)' /\ Metered(r)' /\ Billed(r)'
    BY <1>1, <2>1, <2>4 DEF RequestInv, Answering, Metered, Billed, streamVars, billVars
  <2>10. QED
    BY <2>5, <2>6, <2>7, <2>8, <2>9, OneActs DEF RequestInv
<1>6. QED
  BY <1>2, <1>3, <1>4, <1>5

\* At an upstream.
LEMMA UpstreamKeeps ==
  ASSUME RelayInv, NEW r \in Request,
         \/ ConnectError(r) \/ LostAnswer(r) \/ ServerError(r) \/ ClientError(r)
         \/ Success(r) \/ BodyLost(r) \/ StreamStarts(r)
  PROVE  RelayInv'
<1>1. Shape /\ Shared /\ RequestInv(r)
  BY DEF RelayInv
<1>2. CASE ConnectError(r)
  <2>1. pc[r] = "sending" /\ order[r] # <<>>
    BY <1>1, <1>2 DEF ConnectError, RequestInv, Ordered
  <2>2. CASE attempt[r] < 2
    <3>1. /\ order'[r] = order[r] /\ received'[r] = received[r] /\ pc'[r] = "sending"
          /\ attempt'[r] = attempt[r] + 1
      BY <1>1, <1>2, <2>1, <2>2 DEF ConnectError, Shape
    <3>2. Acts(r)
      <4>1. Shape' /\ Shared'
        BY <1>1, <1>2, <2>2 DEF ConnectError, Shape, Shared, streamVars, billVars
      <4>2. \A q \in Request \ {r} : Same(q)
        BY <1>1, <1>2, <2>2 DEF ConnectError, Shape, Same, streamVars, billVars
      <4>3. QED
        BY <4>1, <4>2 DEF Acts
    <3>3. Kinds(r)'
      BY <1>1, <1>2, <2>2, <3>1 DEF ConnectError, RequestInv, Kinds, streamVars, billVars
    <3>4. Answering(r)' /\ Metered(r)' /\ Billed(r)'
      BY <1>1, <1>2, <2>2 DEF ConnectError, RequestInv, Answering, Metered, Billed, streamVars,
                              billVars
    <3>5. QED
      BY <2>1, <3>1, <3>2, <3>3, <3>4, QuietKeeps
  <2>3. CASE ~(attempt[r] < 2)
    BY <1>2, <2>1, <2>3, FailoverKeeps DEF ConnectError
  <2>4. QED
    BY <2>2, <2>3
<1>3. CASE LostAnswer(r) \/ ServerError(r)
  <2>1. pc[r] = "sending" /\ order[r] # <<>>
    BY <1>1, <1>3 DEF LostAnswer, ServerError, RequestInv, Ordered
  <2>2. QED
    BY <1>3, <2>1, FailoverKeeps DEF LostAnswer, ServerError
<1>4. CASE BodyLost(r)
  <2>1. pc[r] = "body" /\ order[r] # <<>>
    BY <1>1, <1>4 DEF BodyLost, RequestInv, Ordered
  <2>2. QED
    BY <1>4, <2>1, FailoverKeeps DEF BodyLost
<1>5. CASE ClientError(r) \/ Success(r) \/ StreamStarts(r)
  <2>1. /\ pc[r] = "sending" /\ Delivered(r) /\ order[r] # <<>>
        /\ Current(r) \in Channel /\ Current(r) # None
    <3>1. pc[r] = "sending" /\ Delivered(r) /\ order[r] # <<>>
      BY <1>1, <1>5 DEF ClientError, Success, StreamStarts, RequestInv, Ordered
    <3>2. QED
      BY <1>1, <3>1, CurrentIsRouted, RelayAssumption DEF RelayAssumption
  <2>2. CASE ClientError(r) /\ Failover(r)
    BY <2>1, <2>2, FailoverKeeps DEF ClientError
  <2>3. CASE ClientError(r) /\ pc' = [pc EXCEPT ![r] = "done"]
    <3>1. /\ pc'[r] = "done" /\ answer'[r] = Current(r)
          /\ answer' = [answer EXCEPT ![r] = Current(r)]
          /\ UNCHANGED <<stream, order, rows, tried, streamVars, billVars, status, edits, faults,
                         attempt, usage, worked>>
      <4>1. pc'[r] = "done"
        BY <1>1, <2>3 DEF Shape
      <4>2. ~Failover(r)
        BY <1>1, <4>1 DEF Failover, Shape
      <4>3. QED
        BY <1>1, <2>3, <4>1, <4>2 DEF ClientError, Shape
    <3>2. Acts(r)
      <4>1. Shape' /\ Shared'
        BY <1>1, <2>1, <2>3, <3>1 DEF Shape, Shared, Delivered, streamVars, billVars
      <4>2. \A q \in Request \ {r} : Same(q)
        BY <1>1, <2>1, <2>3, <3>1 DEF Shape, Same, Delivered, streamVars, billVars
      <4>3. QED
        BY <4>1, <4>2 DEF Acts
    <3>3. Kinds(r)'
      BY <1>1, <2>1, <3>1 DEF RequestInv, Kinds, Places, streamVars, billVars
    <3>4. Answering(r)' /\ Metered(r)' /\ Billed(r)'
      BY <1>1, <2>1, <3>1 DEF RequestInv, Answering, Metered, Billed, streamVars, billVars
    <3>5. Ordered(r)' /\ Untouched(r)'
      BY <2>1, <3>1, DeliveredKeeps
    <3>6. QED
      BY <3>2, <3>3, <3>4, <3>5, OneActs DEF RequestInv
  <2>4. CASE Success(r)
    <3>1. pc'[r] = "body" /\ order'[r] = order[r] /\ worked'[r] = worked[r] \cup {Current(r)}
      BY <1>1, <2>4 DEF Success, Worked, Shape, handVars
    <3>2. Acts(r)
      <4>1. Shape' /\ Shared'
        BY <1>1, <2>4 DEF Success, Shape, Shared, Delivered, Worked, handVars, streamVars, billVars
      <4>2. \A q \in Request \ {r} : Same(q)
        BY <1>1, <2>4 DEF Success, Shape, Same, Delivered, Worked, handVars, streamVars, billVars
      <4>3. QED
        BY <4>1, <4>2 DEF Acts
    <3>3. Kinds(r)'
      BY <1>1, <2>1, <2>4, <3>1 DEF Success, RequestInv, Kinds, Places, handVars, streamVars, billVars
    <3>4. Answering(r)' /\ Metered(r)' /\ Billed(r)'
      BY <1>1, <2>1, <2>4, <3>1 DEF Success, RequestInv, Answering, Metered, Billed, handVars,
                                    streamVars, billVars
    <3>5. Ordered(r)' /\ Untouched(r)'
      BY <2>1, <3>1, DeliveredKeeps
    <3>6. QED
      BY <3>2, <3>3, <3>4, <3>5, OneActs DEF RequestInv
  <2>5. CASE StreamStarts(r)
    <3>1. /\ pc'[r] = "streaming" /\ order'[r] = order[r] /\ worked'[r] = worked[r] \cup {Current(r)}
          /\ answer'[r] = Current(r) /\ source'[r] = "open"
      BY <1>1, <2>5 DEF StreamStarts, Worked, Shape
    <3>2. Acts(r)
      <4>1. Shape' /\ Shared'
        BY <1>1, <2>5 DEF StreamStarts, Shape, Shared, Delivered, Worked, billVars
      <4>2. \A q \in Request \ {r} : Same(q)
        BY <1>1, <2>5 DEF StreamStarts, Shape, Same, Delivered, Worked, billVars
      <4>3. QED
        BY <4>1, <4>2 DEF Acts
    <3>3. Kinds(r)'
      BY <1>1, <2>1, <2>5, <3>1 DEF StreamStarts, RequestInv, Kinds, Places, billVars
    <3>4. Answering(r)' /\ Metered(r)' /\ Billed(r)'
      BY <1>1, <2>1, <2>5, <3>1 DEF StreamStarts, RequestInv, Answering, Metered, Billed, billVars
    <3>5. Ordered(r)' /\ Untouched(r)'
      BY <2>1, <3>1, DeliveredKeeps
    <3>6. QED
      BY <3>2, <3>3, <3>4, <3>5, OneActs DEF RequestInv
  <2>6. QED
    BY <1>5, <2>2, <2>3, <2>4, <2>5 DEF ClientError
<1>6. QED
  BY <1>2, <1>3, <1>4, <1>5

\* The answer is read and billed.
LEMMA AnswerKeeps ==
  ASSUME RelayInv, NEW r \in Request, BodyRead(r) \/ settle(r) \/ Drop(r) \/ do_settle(r) \/ HangUp(r)
  PROVE  RelayInv'
<1>1. Shape /\ Shared /\ RequestInv(r)
  BY DEF RelayInv
<1>2. ASSUME pc[r] \in {"body", "settling"}
      PROVE  order[r] # <<>> /\ Current(r) \in Channel /\ Current(r) # None
  <2>1. order[r] # <<>>
    BY <1>1, <1>2 DEF RequestInv, Ordered
  <2>2. QED
    BY <1>1, <2>1, CurrentIsRouted, RelayAssumption DEF RelayAssumption
<1>3. CASE BodyRead(r)
  <2>1. PICK u \in Usage \cup {None} :
          /\ usage' = [usage EXCEPT ![r] = u]
          /\ pc' = [pc EXCEPT ![r] = IF u = None THEN "done" ELSE "settling"]
          /\ answer' = [answer EXCEPT ![r] = IF u = None THEN Current(r) ELSE None]
    BY <1>3 DEF BodyRead
  <2>2. /\ pc[r] = "body" /\ order'[r] = order[r] /\ received'[r] = received[r]
        /\ usage'[r] = u /\ pc'[r] = (IF u = None THEN "done" ELSE "settling")
        /\ answer'[r] = IF u = None THEN Current(r) ELSE None
    BY <1>1, <1>3, <2>1 DEF BodyRead, Shape, wireVars
  <2>3. Acts(r)
    <3>1. Shape' /\ Shared'
      BY <1>1, <1>3, <2>1 DEF BodyRead, Shape, Shared, wireVars, streamVars, billVars
    <3>2. \A q \in Request \ {r} : Same(q)
      BY <1>1, <1>3, <2>1 DEF BodyRead, Shape, Same, wireVars, streamVars, billVars
    <3>3. QED
      BY <3>1, <3>2 DEF Acts
  <2>4. Kinds(r)'
    BY <1>1, <1>2, <1>3, <2>2 DEF BodyRead, RequestInv, Kinds, Places, wireVars, streamVars, billVars
  <2>5. UNCHANGED <<stream, streamVars, billVars>>
    BY <1>3 DEF BodyRead
  <2>6. /\ ~stream[r] /\ settling[r] = "none" /\ log[r] = <<>>
        /\ reported[r] = None /\ scanned[r] = None /\ shared[r] = None
        /\ chunks[r] = 0 /\ shown[r] = 0 /\ source[r] = "none"
    BY <1>1, <2>2 DEF RequestInv, Answering, Metered, Billed
  <2>7. Answering(r)'
    BY <2>2, <2>5, <2>6 DEF Answering
  <2>8. Metered(r)'
    BY <1>1, <2>5, <2>6 DEF RequestInv, Metered, streamVars
  <2>9. Billed(r)'
    BY <2>2, <2>5, <2>6, RelayAssumption DEF Billed, streamVars, billVars, RelayAssumption
  <2>10. QED
    BY <1>2, <2>2, <2>3, <2>4, <2>7, <2>8, <2>9, QuietKeeps
<1>4. CASE settle(r)
  <2>1. /\ pc[r] = "settling" /\ pc'[r] = "done" /\ order'[r] = order[r]
        /\ received'[r] = received[r] /\ answer'[r] = Current(r)
    BY <1>1, <1>4 DEF settle, Shape, wireVars
  <2>2. log[r] = <<>> /\ ~stream[r] /\ usage[r] \in Usage
    BY <1>1, <2>1 DEF RequestInv, Billed, Answering
  <2>3. \/ settling'[r] = "logged" /\ log'[r] = <<Row(r, Current(r), usage[r])>>
        \/ settling'[r] = "failed" /\ log'[r] = log[r]
    BY <1>1, <1>4, <2>2 DEF settle, Shape
  <2>4. Acts(r)
    <3>1. Shape'
      BY <1>1, <1>4 DEF settle, Shape, wireVars, streamVars
    <3>2. Shared'
      BY <1>1, <1>4, RelayAssumption DEF settle, Shared, Fault, RelayAssumption
    <3>3. \A q \in Request \ {r} : Same(q)
      BY <1>1, <1>4 DEF settle, Shape, Same, wireVars, streamVars
    <3>4. QED
      BY <3>1, <3>2, <3>3 DEF Acts
  <2>5. Kinds(r)'
    BY <1>1, <1>2, <1>4, <2>1, <2>3 DEF settle, RequestInv, Kinds, Places, wireVars, streamVars
  <2>6. Answering(r)' /\ Metered(r)'
    BY <1>1, <1>2, <1>4, <2>1 DEF settle, RequestInv, Answering, Metered, streamVars
  <2>7. Billed(r)'
    <3>1. UNCHANGED <<stream, usage, reported>>
      BY <1>4 DEF settle, streamVars
    <3>2. reported[r] = None
      BY <1>1, <2>1 DEF RequestInv, Metered
    <3>3. CASE log'[r] = <<Row(r, Current(r), usage[r])>> /\ settling'[r] = "logged"
      <4>1. Len(log'[r]) = 1 /\ log'[r][1] = Row(r, answer'[r], usage'[r])
        BY <2>1, <3>1, <3>3 DEF Row
      <4>2. Row(r, answer'[r], usage'[r]) = Row(r, answer[r], usage[r])'
        BY DEF Row
      <4>3. QED
        BY <2>1, <2>2, <3>1, <3>2, <3>3, <4>1, <4>2 DEF Billed
    <3>4. CASE settling'[r] = "failed" /\ log'[r] = log[r]
      BY <2>1, <2>2, <3>1, <3>2, <3>4 DEF Billed
    <3>5. QED
      BY <2>3, <3>3, <3>4
  <2>8. QED
    BY <1>2, <2>1, <2>4, <2>5, <2>6, <2>7, QuietKeeps
<1>5. CASE Drop(r)
  <2>1. /\ pc[r] = "streaming" /\ pc'[r] = "done" /\ order'[r] = order[r]
        /\ received'[r] = received[r] /\ usage'[r] = shared[r] /\ shared'[r] = None
        /\ settling'[r] = IF shared[r] # None THEN "spawned" ELSE "none"
    BY <1>1, <1>5 DEF Drop, Shape, wireVars
  <2>2. Acts(r)
    <3>1. Shape' /\ Shared'
      BY <1>1, <1>5 DEF Drop, Shape, Shared, wireVars
    <3>2. \A q \in Request \ {r} : Same(q)
      BY <1>1, <1>5 DEF Drop, Shape, Same, wireVars
    <3>3. QED
      BY <3>1, <3>2 DEF Acts
  <2>3. Kinds(r)'
    BY <1>1, <1>5, <2>1 DEF Drop, RequestInv, Kinds, Places, wireVars
  <2>4. Answering(r)' /\ Metered(r)' /\ Billed(r)'
    BY <1>1, <1>5, <2>1 DEF Drop, RequestInv, Answering, Metered, Billed
  <2>5. QED
    BY <2>1, <2>2, <2>3, <2>4, QuietKeeps
<1>6. CASE do_settle(r)
  <2>1. /\ settling[r] = "spawned" /\ pc[r] = "done" /\ pc'[r] = "done" /\ order'[r] = order[r]
        /\ received'[r] = received[r] /\ log[r] = <<>>
    BY <1>1, <1>6 DEF do_settle, RequestInv, Billed, handVars, wireVars
  <2>2. \/ settling'[r] = "logged" /\ log'[r] = <<Row(r, answer[r], usage[r])>>
        \/ settling'[r] = "failed" /\ log'[r] = log[r]
    BY <1>1, <1>6, <2>1 DEF do_settle, Shape
  <2>3. Acts(r)
    <3>1. Shape'
      BY <1>1, <1>6 DEF do_settle, Shape, handVars, wireVars, streamVars
    <3>2. Shared'
      BY <1>1, <1>6, RelayAssumption DEF do_settle, Shared, Fault, RelayAssumption
    <3>3. \A q \in Request \ {r} : Same(q)
      BY <1>1, <1>6 DEF do_settle, Shape, Same, handVars, wireVars, streamVars
    <3>4. QED
      BY <3>1, <3>2, <3>3 DEF Acts
  <2>4. UNCHANGED <<stream, pc, answer, usage, streamVars>>
    BY <1>6 DEF do_settle, handVars
  <2>5. Kinds(r)'
    BY <1>1, <1>6, <2>2 DEF do_settle, RequestInv, Kinds, handVars, wireVars, streamVars
  <2>6. Answering(r)' /\ Metered(r)'
    BY <1>1, <2>4 DEF RequestInv, Answering, Metered, streamVars
  <2>7. Billed(r)'
    <3>1. /\ stream[r] /\ answer[r] \in Channel /\ usage[r] = reported[r]
          /\ UNCHANGED <<stream, answer, usage, reported>>
      BY <1>1, <2>1, <2>4 DEF RequestInv, Billed, streamVars
    <3>2. CASE log'[r] = <<Row(r, answer[r], usage[r])>> /\ settling'[r] = "logged"
      <4>1. Len(log'[r]) = 1 /\ log'[r][1] = Row(r, answer'[r], usage'[r])
        BY <3>1, <3>2 DEF Row
      <4>2. Row(r, answer'[r], usage'[r]) = Row(r, answer[r], usage[r])'
        BY DEF Row
      <4>3. QED
        BY <2>1, <3>1, <3>2, <4>1, <4>2 DEF Billed
    <3>3. CASE settling'[r] = "failed" /\ log'[r] = log[r]
      BY <2>1, <3>1, <3>3 DEF Billed
    <3>4. QED
      BY <2>2, <3>2, <3>3
  <2>8. QED
    BY <2>1, <2>3, <2>5, <2>6, <2>7, QuietKeeps
<1>7. CASE HangUp(r)
  <2>1. /\ pc[r] \notin {"idle", "streaming", "done"} /\ pc'[r] = "done" /\ order'[r] = order[r]
        /\ received'[r] = received[r]
    BY <1>1, <1>7 DEF HangUp, Shape, handVars, wireVars
  <2>2. Acts(r)
    <3>1. Shape' /\ Shared'
      BY <1>1, <1>7 DEF HangUp, Shape, Shared, handVars, wireVars, streamVars, billVars
    <3>2. \A q \in Request \ {r} : Same(q)
      BY <1>1, <1>7 DEF HangUp, Shape, Same, handVars, wireVars, streamVars, billVars
    <3>3. QED
      BY <3>1, <3>2 DEF Acts
  <2>3. Kinds(r)'
    BY <1>1, <1>7, <2>1 DEF HangUp, RequestInv, Kinds, Places, handVars, wireVars, streamVars, billVars
  <2>4. Answering(r)' /\ Metered(r)' /\ Billed(r)'
    BY <1>1, <1>7, <2>1, RelayAssumption DEF HangUp, RequestInv, Answering, Metered, Billed,
                                    handVars, streamVars, billVars, RelayAssumption
  <2>5. QED
    BY <2>1, <2>2, <2>3, <2>4, QuietKeeps
<1>8. QED
  BY <1>3, <1>4, <1>5, <1>6, <1>7

\* A frame goes by the scanner, the shared state and out at once.
LEMMA EmitReports ==
  ASSUME Shape, NEW r \in Request, pc[r] = "streaming", RequestInv(r),
         NEW u \in Usage \cup {None}, Emits(r, u)
  PROVE  /\ reported'[r] = (IF u = None THEN reported[r] ELSE u)
         /\ scanned'[r] = reported'[r] /\ shared'[r] = reported'[r] /\ shown'[r] = shown[r] + 1
         /\ \A q \in Request \ {r} :
              /\ reported'[q] = reported[q] /\ scanned'[q] = scanned[q]
              /\ shared'[q] = shared[q] /\ shown'[q] = shown[q]
         /\ reported' = [q \in Request |-> reported'[q]] /\ scanned' = [q \in Request |-> scanned'[q]]
         /\ shared' = [q \in Request |-> shared'[q]] /\ shown' = [q \in Request |-> shown'[q]]
<1>1. scanned[r] = reported[r]
  BY DEF RequestInv, Metered
<1>2. QED
  BY <1>1 DEF Emits, Shape

\* The stream goes on.
LEMMA StreamKeeps ==
  ASSUME RelayInv, NEW r \in Request, Chunk(r) \/ StreamError(r) \/ Finish(r)
  PROVE  RelayInv'
<1>1. Shape /\ Shared /\ RequestInv(r)
  BY DEF RelayInv
<1>2. /\ pc[r] = "streaming" /\ source[r] \in {"open", "cut"} /\ streamRest' = streamRest
      /\ (Chunk(r) \/ StreamError(r)) => source[r] = "open"
  BY DEF Chunk, StreamError, Finish, streamRest
<1>3. UNCHANGED <<status, stream, pc, order, rows, attempt, answer, usage, received, worked, tried,
                  settling, log, edits, faults>>
  BY <1>2 DEF streamRest, handVars, wireVars, billVars
<1>4. /\ stream[r] /\ scanned[r] = reported[r] /\ shared[r] = reported[r]
      /\ chunks[r] \in 0..MaxChunks /\ shown[r] \in Nat /\ shown[r] <= chunks[r]
      /\ reported[r] \in Usage \cup {None} /\ settling[r] = "none"
  BY <1>1, <1>2 DEF RequestInv, Answering, Metered, Kinds, Billed
<1> DEFINE Told == /\ reported'[r] \in Usage \cup {None}
                   /\ scanned'[r] = reported'[r] /\ shared'[r] = reported'[r]
           Kept == /\ \A q \in Request \ {r} :
                        /\ reported'[q] = reported[q] /\ scanned'[q] = scanned[q]
                        /\ shared'[q] = shared[q] /\ shown'[q] = shown[q]
                        /\ chunks'[q] = chunks[q] /\ source'[q] = source[q]
                   /\ reported' = [q \in Request |-> reported'[q]]
                   /\ scanned' = [q \in Request |-> scanned'[q]]
                   /\ shared' = [q \in Request |-> shared'[q]]
                   /\ shown' = [q \in Request |-> shown'[q]]
                   /\ chunks' = [q \in Request |-> chunks'[q]]
                   /\ source' = [q \in Request |-> source'[q]]
           Counted == /\ source'[r] \in {"open", "cut", "closed"}
                      /\ chunks'[r] \in 0..MaxChunks /\ shown'[r] \in Nat
                      /\ shown'[r] <= IF source'[r] = "closed" THEN chunks'[r] + 1 ELSE chunks'[r]
<1>5. Told /\ Kept /\ Counted
  <2>1. CASE Chunk(r)
    <3>1. /\ chunks' = [chunks EXCEPT ![r] = @ + 1] /\ chunks[r] < MaxChunks /\ source' = source
          /\ chunks'[r] = chunks[r] + 1 /\ chunks'[r] \in 0..MaxChunks
      BY <1>1, <1>4, <2>1, RelayAssumption DEF Chunk, Shape, RelayAssumption
    <3>2. CASE UNCHANGED <<reported, scanned, shared, shown>>
      <4>1. Kept
        BY <1>1, <3>1, <3>2 DEF Shape
      <4>2. Told
        BY <1>4, <3>2
      <4>3. Counted
        BY <1>2, <1>4, <2>1, <3>1, <3>2
      <4>4. QED
        BY <4>1, <4>2, <4>3
    <3>3. CASE \E u \in Usage \cup {None} : Emits(r, u)
      <4>1. PICK u \in Usage \cup {None} : Emits(r, u)
        BY <3>3
      <4>2. /\ reported'[r] = (IF u = None THEN reported[r] ELSE u)
            /\ scanned'[r] = reported'[r] /\ shared'[r] = reported'[r] /\ shown'[r] = shown[r] + 1
            /\ \A q \in Request \ {r} :
                 /\ reported'[q] = reported[q] /\ scanned'[q] = scanned[q]
                 /\ shared'[q] = shared[q] /\ shown'[q] = shown[q]
            /\ reported' = [q \in Request |-> reported'[q]]
            /\ scanned' = [q \in Request |-> scanned'[q]]
            /\ shared' = [q \in Request |-> shared'[q]] /\ shown' = [q \in Request |-> shown'[q]]
        BY <1>1, <1>2, <4>1, EmitReports
      <4>3. Kept
        BY <1>1, <3>1, <4>2 DEF Shape
      <4>4. Told /\ Counted
        BY <1>2, <1>4, <2>1, <3>1, <4>2
      <4>5. QED
        BY <4>3, <4>4
    <3>4. QED
      BY <2>1, <3>2, <3>3 DEF Chunk
  <2>2. CASE StreamError(r)
    BY <1>1, <1>4, <2>2 DEF StreamError, Shape
  <2>3. CASE Finish(r)
    <3>1. /\ source' = [source EXCEPT ![r] = "closed"] /\ chunks' = chunks /\ source'[r] = "closed"
      BY <1>1, <2>3 DEF Finish, Shape
    <3>2. CASE UNCHANGED <<reported, scanned, shared, shown>>
      <4>1. Kept
        BY <1>1, <3>1, <3>2 DEF Shape
      <4>2. Told
        BY <1>4, <3>2
      <4>3. Counted
        BY <1>4, <3>1, <3>2
      <4>4. QED
        BY <4>1, <4>2, <4>3
    <3>3. CASE \E u \in Usage : Emits(r, u)
      <4>1. PICK u \in Usage : Emits(r, u)
        BY <3>3
      <4>2. /\ reported'[r] = (IF u = None THEN reported[r] ELSE u)
            /\ scanned'[r] = reported'[r] /\ shared'[r] = reported'[r] /\ shown'[r] = shown[r] + 1
            /\ \A q \in Request \ {r} :
                 /\ reported'[q] = reported[q] /\ scanned'[q] = scanned[q]
                 /\ shared'[q] = shared[q] /\ shown'[q] = shown[q]
            /\ reported' = [q \in Request |-> reported'[q]]
            /\ scanned' = [q \in Request |-> scanned'[q]]
            /\ shared' = [q \in Request |-> shared'[q]] /\ shown' = [q \in Request |-> shown'[q]]
        BY <1>1, <1>2, <4>1, EmitReports
      <4>3. Kept
        BY <1>1, <3>1, <4>2 DEF Shape
      <4>4. Told /\ Counted
        BY <1>4, <3>1, <4>2
      <4>5. QED
        BY <4>3, <4>4
    <3>4. QED
      BY <2>3, <3>2, <3>3 DEF Finish
  <2>4. QED
    BY <2>1, <2>2, <2>3
<1>6. Acts(r)
  <2>1. Shape'
    BY <1>1, <1>3, <1>5 DEF Shape
  <2>2. Shared'
    BY <1>1, <1>3 DEF Shared
  <2>3. \A q \in Request \ {r} : Same(q)
    BY <1>3, <1>5 DEF Same
  <2>4. QED
    BY <2>1, <2>2, <2>3 DEF Acts
<1>7. Kinds(r)'
  BY <1>1, <1>3, <1>5 DEF RequestInv, Kinds
<1>8. Answering(r)'
  BY <1>1, <1>3 DEF RequestInv, Answering
<1>9. Metered(r)'
  BY <1>2, <1>3, <1>4, <1>5 DEF Metered
<1>10. Billed(r)'
  BY <1>1, <1>2, <1>3, <1>4 DEF RequestInv, Billed
<1>11. order'[r] = order[r] /\ received'[r] = received[r] /\ pc'[r] = "streaming" /\ order[r] # <<>>
  BY <1>1, <1>2, <1>3 DEF RequestInv, Ordered
<1>12. QED
  BY <1>2, <1>6, <1>7, <1>8, <1>9, <1>10, <1>11, QuietKeeps

LEMMA SetStatusKeeps ==
  ASSUME RelayInv, NEW c \in Channel, SetStatus(c)
  PROVE  RelayInv'
<1>1. UNCHANGED <<stream, pc, handVars, wireVars, streamVars, billVars>>
  BY DEF SetStatus
<1>2. Shape'
  BY <1>1 DEF RelayInv, Shape, handVars, wireVars, streamVars, billVars
<1>3. Shared'
  BY RelayAssumption DEF RelayInv, Shared, SetStatus, Statuses, RelayAssumption
<1>4. ASSUME NEW q \in Request PROVE RequestInv(q)'
  <2>1. Same(q)
    BY <1>1 DEF Same, handVars, wireVars, streamVars, billVars
  <2>2. QED
    BY <2>1, SameStays DEF RelayInv
<1>5. QED
  BY <1>2, <1>3, <1>4 DEF RelayInv

\* A restart ends every request, and loses what was being settled.
LEMMA RestartKeeps ==
  ASSUME RelayInv, Restart
  PROVE  RelayInv'
<1>1. Shape /\ Shared
  BY DEF RelayInv
<1>2. UNCHANGED <<status, stream, order, rows, attempt, answer, usage, received, worked, tried,
                  chunks, shown, reported, scanned, shared, source, log, edits>>
  BY DEF Restart, handVars, wireVars, streamVars
<1>3. Shape'
  BY <1>1, <1>2 DEF Restart, Shape
<1>4. Shared'
  BY <1>1, <1>2, RelayAssumption DEF Restart, Fault, Shared, RelayAssumption
<1>5. ASSUME NEW r \in Request PROVE RequestInv(r)'
  <2>1. RequestInv(r)
    BY DEF RelayInv
  <2>2. /\ pc'[r] = (IF pc[r] = "idle" THEN "idle" ELSE "done")
        /\ settling'[r] = IF settling[r] = "spawned" \/ pc[r] = "streaming" THEN "failed"
                          ELSE settling[r]
    BY DEF Restart
  <2>3. Kinds(r)'
    BY <1>2, <2>1, <2>2 DEF RequestInv, Kinds, Places
  <2>4. Ordered(r)' /\ Untouched(r)'
    BY <1>2, <2>1, <2>2, OrderStays
  <2>5. Answering(r)' /\ Metered(r)'
    BY <1>2, <2>1, <2>2 DEF RequestInv, Answering, Metered
  <2>6. Billed(r)'
    <3>1. pc[r] \notin {"streaming", "done"} => reported[r] = None /\ answer[r] = None
      BY <2>1 DEF RequestInv, Answering, Metered
    <3>2. pc[r] = "streaming" => stream[r]
      BY <2>1 DEF RequestInv, Answering
    <3>3. QED
      BY <1>2, <2>1, <2>2, <3>1, <3>2, RelayAssumption DEF RequestInv, Billed, Row, RelayAssumption
  <2>7. QED
    BY <2>3, <2>4, <2>5, <2>6 DEF RequestInv
<1>6. QED
  BY <1>3, <1>4, <1>5 DEF RelayInv

LEMMA RelayInit == Init => RelayInv
<1> SUFFICES ASSUME Init PROVE RelayInv
  OBVIOUS
<1>1. Shape
  BY DEF Init, Shape
<1>2. Shared
  BY RelayAssumption DEF Init, Shared, Statuses, RelayAssumption
<1>3. ASSUME NEW r \in Request PROVE RequestInv(r)
  <2>1. Kinds(r) /\ Ordered(r)
    BY DEF Init, Kinds, Places, Ordered
  <2>2. Untouched(r)
    BY RelayAssumption DEF Init, Untouched, RelayAssumption
  <2>3. Answering(r) /\ Metered(r) /\ Billed(r)
    BY RelayAssumption DEF Init, Answering, Metered, Billed, RelayAssumption
  <2>4. QED
    BY <2>1, <2>2, <2>3 DEF RequestInv
<1>4. QED
  BY <1>1, <1>2, <1>3 DEF RelayInv

LEMMA RelayStep == RelayInv /\ [Next]_vars => RelayInv'
<1> SUFFICES ASSUME RelayInv, [Next]_vars PROVE RelayInv'
  OBVIOUS
<1>1. CASE \E r \in Request : Progress(r) \/ Drop(r) \/ do_settle(r) \/ HangUp(r)
  BY <1>1, EntryKeeps, UpstreamKeeps, AnswerKeeps, StreamKeeps DEF Progress
<1>2. CASE \E c \in Channel : SetStatus(c)
  BY <1>2, SetStatusKeeps
<1>3. CASE Restart
  BY <1>3, RestartKeeps
<1>4. CASE UNCHANGED vars
  <2>1. Shape' /\ Shared'
    BY <1>4 DEF RelayInv, Shape, Shared, vars, handVars, wireVars, streamVars, billVars
  <2>2. ASSUME NEW q \in Request PROVE RequestInv(q)'
    <3>1. Same(q)
      BY <1>4 DEF Same, vars, handVars, wireVars, streamVars, billVars
    <3>2. QED
      BY <3>1, SameStays DEF RelayInv
  <2>3. QED
    BY <2>1, <2>2 DEF RelayInv
<1>5. QED
  BY <1>1, <1>2, <1>3, <1>4 DEF Next

LEMMA RelayAlways == Spec => []RelayInv
  BY RelayInit, RelayStep, PTL DEF Spec

-----------------------------------------------------------------------------
(* What the invariant says of an answer. *)

LEMMA SeqOfMore ==
  ASSUME NEW A, NEW B, A \subseteq B, NEW s \in Seq(A)
  PROVE  s \in Seq(B)
  OBVIOUS

\* A request is billed once, for the channel whose answer the client got and
\* with the latest usage that answer carried: settle and the guard of relay.rs.
THEOREM BilledOnceAsAnswered == Spec => []BilledAsAnswered
<1>1. RelayInv => BilledAsAnswered
  <2> SUFFICES ASSUME RelayInv, NEW r \in Request, log[r] # <<>>
               PROVE  /\ Len(log[r]) = 1 /\ log[r][1].channel = answer[r]
                      /\ log[r][1].usage = IF stream[r] THEN reported[r] ELSE usage[r]
    BY DEF BilledAsAnswered
  <2>1. Kinds(r) /\ Billed(r)
    BY DEF RelayInv, RequestInv
  <2>2. QED
    BY <2>1 DEF Kinds, Billed, Row
<1>2. QED
  BY <1>1, RelayAlways, PTL

\* What was used is charged, by settle before an answer goes out, or by the
\* guard however the stream ends, and every variable keeps its type (relay.rs).
THEOREM AnsweredIsAlwaysSettled == Spec => []AnsweredIsSettled
<1>1. RelayInv => TypeOK
  <2> SUFFICES ASSUME RelayInv PROVE TypeOK
    OBVIOUS
  <2>1. Shape /\ Shared
    BY DEF RelayInv
  <2>2. \A r \in Request : Kinds(r)
    BY DEF RelayInv, RequestInv
  <2>3. /\ stream \in [Request -> BOOLEAN] /\ pc \in [Request -> Places]
        /\ rows \in [Request -> SUBSET Channel] /\ attempt \in [Request -> 0..2]
        /\ worked \in [Request -> SUBSET Channel] /\ tried \in [Request -> SUBSET Channel]
    BY <2>1, <2>2 DEF Shape, Kinds
  <2>4. /\ answer \in [Request -> Channel \cup {None}] /\ usage \in [Request -> Usage \cup {None}]
        /\ reported \in [Request -> Usage \cup {None}]
        /\ scanned \in [Request -> Usage \cup {None}] /\ shared \in [Request -> Usage \cup {None}]
        /\ source \in [Request -> {"none", "open", "cut", "closed"}]
        /\ settling \in [Request -> {"none", "spawned", "logged", "failed"}]
    BY <2>1, <2>2 DEF Shape, Kinds
  <2>5. chunks \in [Request -> 0..MaxChunks] /\ shown \in [Request -> 0..(MaxChunks + 1)]
    <3>1. \A r \in Request : chunks[r] \in 0..MaxChunks /\ shown[r] \in 0..(MaxChunks + 1)
      BY RelayAssumption DEF RelayInv, RequestInv, Metered, RelayAssumption
    <3>2. QED
      BY <2>1, <3>1 DEF Shape
  <2>6. ASSUME NEW r \in Request
        PROVE  /\ order[r] \in Seq([channel : Channel, priority : Int, weight : Int])
               /\ Len(log[r]) <= 1 /\ received[r] \in [Channel -> 0..2]
    <3>1. Candidate \subseteq [channel : Channel, priority : Int, weight : Int]
      BY RelayAssumption DEF Candidate, Ranked, EffectivePriority, Effective, RelayAssumption
    <3>2. order[r] \in Seq([channel : Channel, priority : Int, weight : Int])
      <4>1. order[r] \in Seq(Candidate)
        BY DEF RelayInv, RequestInv, Ordered
      <4>2. QED
        BY <3>1, <4>1, SeqOfMore
    <3>3. Len(log[r]) <= 1
      <4>1. log[r] = <<>> \/ Len(log[r]) = 1
        BY DEF RelayInv, RequestInv, Billed
      <4>2. CASE log[r] = <<>>
        BY <4>2
      <4>3. CASE Len(log[r]) = 1
        BY <4>3
      <4>4. QED
        BY <4>1, <4>2, <4>3
    <3>4. received[r] \in [Channel -> 0..2]
      BY DEF RelayInv, RequestInv, Untouched
    <3>5. QED
      BY <3>2, <3>3, <3>4
  <2>7. QED
    BY <2>1, <2>3, <2>4, <2>5, <2>6 DEF TypeOK, Shared, Places
<1>2. RelayInv => ReportedIsSettled
  <2> SUFFICES ASSUME RelayInv, NEW r \in Request, pc[r] = "done", reported[r] # None
               PROVE  /\ settling[r] # "none"
                      /\ settling[r] \in {"spawned", "logged"} => usage[r] = reported[r]
    BY DEF ReportedIsSettled
  <2>1. Metered(r) /\ Billed(r)
    BY DEF RelayInv, RequestInv
  <2>2. QED
    BY <2>1 DEF Metered, Billed
<1>3. RelayInv => SettledBeforeAnswered
  BY DEF RelayInv, RequestInv, Billed, SettledBeforeAnswered
<1>4. RelayInv => AnsweredIsSettled
  BY <1>1, <1>2, <1>3 DEF AnsweredIsSettled
<1>5. QED
  BY <1>4, RelayAlways, PTL

-----------------------------------------------------------------------------
(* One channel after the other. *)

\* Only a request without an answer gets one, or goes to an upstream.
LEMMA AnswerIsFinal ==
  RelayInv /\ [Next]_vars =>
    [\A r \in Request : answer[r] # None =>
       answer'[r] = answer[r] /\ received'[r] = received[r]]_vars
<1> SUFFICES ASSUME RelayInv, [Next]_vars, NEW q \in Request, answer[q] # None
             PROVE  answer'[q] = answer[q] /\ received'[q] = received[q]
  OBVIOUS
<1>1. Shape /\ pc[q] \in {"streaming", "done"}
  BY DEF RelayInv, RequestInv, Answering
<1>2. CASE \E r \in Request : Progress(r) \/ Drop(r) \/ do_settle(r) \/ HangUp(r)
  <2>1. PICK r \in Request : Progress(r) \/ Drop(r) \/ do_settle(r) \/ HangUp(r)
    BY <1>2
  <2>2. CASE Refuse(r) \/ resolve_route(r) \/ ReadChannels(r) \/ Skip(r) \/ AllFailed(r) \/ Send(r)
    BY <2>2 DEF Refuse, resolve_route, ReadChannels, Skip, Failover, AllFailed, Send, handVars, wireVars
  <2>3. CASE ConnectError(r) \/ LostAnswer(r) \/ ServerError(r) \/ ClientError(r) \/ Success(r)
             \/ BodyLost(r) \/ StreamStarts(r)
    <3>1. q # r
      BY <1>1, <2>3, CurrentIsRouted
      DEF ConnectError, LostAnswer, ServerError, ClientError, Success, BodyLost, StreamStarts
    <3>2. answer'[q] = answer[q]
      BY <1>1, <2>3, <3>1 DEF ConnectError, LostAnswer, ServerError, ClientError, Success, BodyLost,
                              StreamStarts, Failover, Shape, handVars
    <3>3. received'[q] = received[q]
      BY <1>1, <2>3, <3>1 DEF ConnectError, LostAnswer, ServerError, ClientError, Success, BodyLost,
                              StreamStarts, Delivered, Shape
    <3>4. QED
      BY <3>2, <3>3
  <2>4. CASE BodyRead(r) \/ settle(r)
    BY <1>1, <2>4 DEF BodyRead, settle, Shape, wireVars
  <2>5. CASE Chunk(r) \/ StreamError(r) \/ Finish(r) \/ Drop(r) \/ do_settle(r) \/ HangUp(r)
    BY <2>5 DEF Chunk, StreamError, Finish, Drop, do_settle, HangUp, streamRest, handVars, wireVars
  <2>6. QED
    BY <2>1, <2>2, <2>3, <2>4, <2>5 DEF Progress
<1>3. CASE \E c \in Channel : SetStatus(c)
  BY <1>3 DEF SetStatus, handVars, wireVars
<1>4. CASE Restart
  BY <1>4 DEF Restart, handVars, wireVars
<1>5. CASE UNCHANGED vars
  BY <1>5 DEF vars, handVars, wireVars
<1>6. QED
  BY <1>2, <1>3, <1>4, <1>5 DEF Next

\* A request goes from channel to channel by priority, to each at most once,
\* and to no other once the client has an answer: the loop of relay.rs over
\* the order of route.rs.
THEOREM AlwaysInTurn == Spec => InTurn
<1>1. RelayInv => SentOnce
  BY DEF RelayInv, RequestInv, Untouched, SentOnce
<1>2. RelayInv => PriorityRespected
  <2> SUFFICES ASSUME RelayInv, NEW r \in Request, NEW c \in DOMAIN Routes, received[r][c] > 0,
                      NEW i \in DOMAIN order[r]
               PROVE  EffectivePriority(order[r][i].channel) <= EffectivePriority(c)
    BY DEF PriorityRespected
  <2>1. order[r][i].priority <= EffectivePriority(c) /\ order[r] \in Seq(Candidate)
    BY DEF RelayInv, RequestInv, Untouched, Ordered
  <2>2. PICK d \in DOMAIN Routes : order[r][i] = Ranked(d)
    <3>1. order[r][i] \in Candidate
      BY <2>1
    <3>2. QED
      BY <3>1 DEF Candidate
  <2>3. QED
    BY <2>1, <2>2 DEF Ranked
<1>3. Spec => [](SentOnce /\ PriorityRespected)
  BY <1>1, <1>2, RelayAlways, PTL
<1>4. Spec => NoFailoverAfterAnswer
  BY AnswerIsFinal, RelayAlways, PTL DEF NoFailoverAfterAnswer, Spec
<1>5. QED
  BY <1>3, <1>4 DEF InTurn

----------------------------------------------------------------------------
(* The channels' health: what the loop and the relay know when they write. *)

\* A row was not off when the loop listed it, and a copy that may be banned was
\* of a row that may; or the row was edited since.
Fresh(copy) ==
  \/ copy.id \in loopEdits
  \/ healthStatus[copy.id] # "Disabled" /\ (copy.ban => autoBan[copy.id])
LoopKnows ==
  /\ phase = "sleep" => probed = None
  /\ \A copy \in todo : Fresh(copy)
  /\ probed # None => Fresh(probed)

\* The same of a request past its first read, and of the flag of its second.
RequestKnows(q) ==
  /\ rpc[q] \in {"routed", "sent", "disabling"} =>
       rchan[q] \in HealthChannel
       /\ (rchan[q] \in requestEdits[q] \/ healthStatus[rchan[q]] # "Disabled")
  /\ rpc[q] \in {"sent", "disabling"} =>
       (rban[q] => rchan[q] \in requestEdits[q] \/ autoBan[rchan[q]])
  /\ rpc[q] = "disabling" => rban[q]

HealthInv ==
  Health!TypeOK /\ LoopKnows /\ \A q \in HealthRequest : RequestKnows(q)

LEMMA HealthConstants ==
  /\ None \notin HealthChannel /\ None \notin Health!Conditions /\ None \notin Health!Copy
  /\ HealthRouted \subseteq HealthChannel /\ Condition \subseteq Health!Conditions
  /\ MaxHealthEdits \in Nat /\ MaxTurns \in Nat /\ MaxFaults \in Nat
BY HealthAssumption DEF Health!ChannelAssumption

LEMMA HealthInit == Health!Init => HealthInv
<1> SUFFICES ASSUME Health!Init PROVE HealthInv
  OBVIOUS
<1>1. Health!TypeOK
  BY HealthConstants DEF Health!Init, Health!TypeOK, Health!Status, Health!Live, Health!Reason
<1>2. LoopKnows /\ \A q \in HealthRequest : RequestKnows(q)
  BY DEF Health!Init, LoopKnows, RequestKnows
<1>3. QED
  BY <1>1, <1>2 DEF HealthInv

LEMMA AdminKeeps ==
  ASSUME HealthInv, NEW c \in HealthChannel,
         Health!Create(c) \/ Health!Update(c) \/ Health!Delete(c)
  PROVE  HealthInv'
<1>1. /\ Health!Edited(c)
      /\ healthStatus' \in [HealthChannel -> Health!Status]
      /\ autoBan' \in [HealthChannel -> BOOLEAN] /\ testModel' \in [HealthChannel -> BOOLEAN]
      /\ reason' = reason
      /\ \A d \in HealthChannel \ {c} : healthStatus'[d] = healthStatus[d] /\ autoBan'[d] = autoBan[d]
  <2> USE DEF HealthInv, Health!TypeOK, Health!Status, Health!Live
  <2>1. CASE Health!Create(c)
    BY <2>1 DEF Health!Create
  <2>2. CASE Health!Update(c)
    BY <2>2 DEF Health!Update
  <2>3. CASE Health!Delete(c)
    BY <2>3 DEF Health!Delete
  <2>4. QED
    BY <2>1, <2>2, <2>3
<1>2. healthEdits' \in 0..MaxHealthEdits
  BY <1>1, HealthConstants DEF Health!Edited, HealthInv, Health!TypeOK
<1>3. /\ loopEdits' = loopEdits \cup {c}
      /\ requestEdits' = [q \in HealthRequest |-> requestEdits[q] \cup {c}]
      /\ UNCHANGED <<condition, phase, todo, probed, healthAnswer, rpc, rchan, rstatus, rban, turns, healthFaults>>
  BY <1>1 DEF Health!Edited, Health!loopVars, Health!relayVars
<1>4. Health!TypeOK'
  BY <1>1, <1>2, <1>3 DEF HealthInv, Health!TypeOK
<1>5. ASSUME NEW copy \in Health!Copy, Fresh(copy) PROVE Fresh(copy)'
  BY <1>1, <1>3, <1>5 DEF Fresh, Health!Copy
<1>6. LoopKnows'
  BY <1>3, <1>5 DEF HealthInv, LoopKnows, Health!TypeOK
<1>7. \A q \in HealthRequest : RequestKnows(q)'
  BY <1>1, <1>3 DEF HealthInv, RequestKnows
<1>8. QED
  BY <1>4, <1>6, <1>7 DEF HealthInv

\* A list taken now is fresh.
LEMMA ListsAreFresh ==
  ASSUME HealthInv, NEW s \in {"Enabled", "CircuitBroken"}, NEW copy \in Health!Listed(s)
  PROVE  copy \in Health!Copy /\ healthStatus[copy.id] # "Disabled" /\ (copy.ban => autoBan[copy.id])
BY DEF HealthInv, Health!TypeOK, Health!Listed, Health!Copy

LEMMA AbandonKeeps ==
  ASSUME HealthInv, Health!Abandon,
         UNCHANGED <<healthStatus, autoBan, testModel, reason, condition, rchan, rstatus, rban, requestEdits,
                     healthEdits, turns>>,
         healthFaults' \in 0..MaxFaults,
         rpc' \in [HealthRequest -> {"idle", "routed", "sent", "disabling", "done"}],
         \A q \in HealthRequest : rpc'[q] = rpc[q] \/ rpc'[q] \in {"idle", "done"}
  PROVE  HealthInv'
<1>1. Health!TypeOK'
  BY DEF HealthInv, Health!TypeOK, Health!Abandon
<1>2. LoopKnows'
  BY DEF LoopKnows, Health!Abandon
<1>3. \A q \in HealthRequest : RequestKnows(q)'
  BY DEF HealthInv, RequestKnows
<1>4. QED
  BY <1>1, <1>2, <1>3 DEF HealthInv

LEMMA ReadsKeep ==
  ASSUME HealthInv, Health!ReadEnabled \/ Health!ReadBroken
  PROVE  HealthInv'
<1>1. PICK s \in {"Enabled", "CircuitBroken"} :
        /\ todo' = Health!Listed(s) /\ phase' \in {"enabled", "broken"} /\ loopEdits' = {}
        /\ UNCHANGED <<probed, healthAnswer, healthStatus, autoBan, testModel, reason, condition,
                       rpc, rchan, rstatus, rban, requestEdits, healthEdits, turns, healthFaults>>
  BY DEF Health!ReadEnabled, Health!ReadBroken, Health!loopRest, Health!rowVars, Health!relayVars
<1>2. probed = None
  BY DEF Health!ReadEnabled, Health!ReadBroken, HealthInv, LoopKnows
<1>3. Health!TypeOK'
  <2>1. todo' \subseteq Health!Copy
    BY <1>1, ListsAreFresh
  <2>2. QED
    BY <1>1, <2>1 DEF HealthInv, Health!TypeOK
<1>4. ASSUME NEW copy \in todo' PROVE Fresh(copy)'
  <2>1. healthStatus[copy.id] # "Disabled" /\ (copy.ban => autoBan[copy.id])
    BY <1>1, <1>4, ListsAreFresh
  <2>2. QED
    BY <1>1, <2>1 DEF Fresh
<1>5. LoopKnows'
  BY <1>1, <1>2, <1>4 DEF LoopKnows
<1>6. \A q \in HealthRequest : RequestKnows(q)'
  BY <1>1 DEF HealthInv, RequestKnows
<1>7. QED
  BY <1>3, <1>5, <1>6 DEF HealthInv

LEMMA ProbeKeeps ==
  ASSUME HealthInv, Health!Probe
  PROVE  HealthInv'
<1>1. PICK copy \in todo :
        /\ todo' = todo \ {copy} /\ phase' = phase /\ phase # "sleep" /\ probed = None
        /\ \/ probed' = copy /\ healthAnswer' = condition[copy.id]
           \/ probed' = probed /\ healthAnswer' = healthAnswer
        /\ UNCHANGED <<loopEdits, healthStatus, autoBan, testModel, reason, condition,
                       rpc, rchan, rstatus, rban, requestEdits, healthEdits, turns>>
        /\ healthFaults' \in 0..MaxFaults
  BY HealthConstants DEF Health!Probe, Health!Fault, HealthInv, Health!TypeOK, Health!loopRest, Health!rowVars, Health!relayVars
<1>2. copy \in Health!Copy /\ copy.id \in HealthChannel /\ condition[copy.id] \in Condition
  BY DEF HealthInv, Health!TypeOK, Health!Copy
<1>3. copy # None /\ condition[copy.id] # None
  BY <1>2, HealthConstants
<1>4. Health!TypeOK'
  BY <1>1, <1>2, <1>3 DEF HealthInv, Health!TypeOK
<1>5. LoopKnows'
  BY <1>1 DEF HealthInv, LoopKnows, Fresh
<1>6. \A q \in HealthRequest : RequestKnows(q)'
  BY <1>1 DEF HealthInv, RequestKnows
<1>7. QED
  BY <1>4, <1>5, <1>6 DEF HealthInv

\* What an automatic step writes: nobody is switched off by one.
Automatically(c) ==
  /\ \/ UNCHANGED <<healthStatus, reason>>
     \/ /\ \E s \in {"Enabled", "CircuitBroken"} : healthStatus' = [healthStatus EXCEPT ![c] = s]
        /\ \E w \in Health!Reason : reason' = [reason EXCEPT ![c] = w]
  /\ UNCHANGED <<autoBan, testModel, condition, loopEdits, requestEdits, healthEdits, turns>>

LEMMA AutomaticKeeps ==
  ASSUME HealthInv, NEW c \in HealthChannel, Automatically(c)
  PROVE  /\ healthStatus' \in [HealthChannel -> Health!Status] /\ reason' \in [HealthChannel -> Health!Reason]
         /\ \A d \in HealthChannel : healthStatus[d] # "Disabled" => healthStatus'[d] # "Disabled"
BY DEF HealthInv, Health!TypeOK, Automatically, Health!Status, Health!Live

LEMMA WritesBackKeeps ==
  ASSUME HealthInv, NEW c \in HealthChannel, Health!BreakAfterProbe(c) \/ Health!RecoverAfterProbe(c)
  PROVE  HealthInv'
<1>1. Health!WritesBack(c) /\ Automatically(c)
  <2>1. Health!WritesBack(c)
    BY DEF Health!BreakAfterProbe, Health!RecoverAfterProbe
  <2>2. \A a : Health!ProbeReason(a) \in Health!Reason
    BY DEF Health!ProbeReason, Health!Reason
  <2>3. None \in Health!Reason
    BY DEF Health!Reason
  <2>4. QED
    BY <2>1, <2>2, <2>3 DEF Health!BreakAfterProbe, Health!RecoverAfterProbe, Health!WritesBack, Automatically
<1>2. /\ healthStatus' \in [HealthChannel -> Health!Status] /\ reason' \in [HealthChannel -> Health!Reason]
      /\ \A d \in HealthChannel : healthStatus[d] # "Disabled" => healthStatus'[d] # "Disabled"
  BY <1>1, AutomaticKeeps
<1>3. probed' = None /\ healthAnswer' = None
      /\ UNCHANGED <<phase, todo, rpc, rchan, rstatus, rban, healthFaults>>
  BY <1>1 DEF Health!WritesBack, Health!relayVars
<1>4. Health!TypeOK'
  BY <1>1, <1>2, <1>3 DEF HealthInv, Health!TypeOK, Automatically
<1>5. ASSUME NEW copy \in todo' PROVE Fresh(copy)'
  <2>1. copy \in Health!Copy /\ Fresh(copy)
    BY <1>3, <1>5 DEF HealthInv, Health!TypeOK, LoopKnows
  <2>2. QED
    BY <1>1, <1>2, <2>1 DEF Fresh, Automatically, Health!Copy
<1>6. LoopKnows'
  BY <1>3, <1>5 DEF LoopKnows
<1>7. \A q \in HealthRequest : RequestKnows(q)'
  BY <1>1, <1>2, <1>3 DEF HealthInv, RequestKnows, Automatically
<1>8. QED
  BY <1>4, <1>6, <1>7 DEF HealthInv

LEMMA RoundKeeps ==
  ASSUME HealthInv, Health!RoundEnds \/ Health!RoundFails \/ Health!Restart
  PROVE  HealthInv'
<1>1. healthFaults' \in 0..MaxFaults
  BY HealthConstants
  DEF Health!RoundEnds, Health!RoundFails, Health!Restart, Health!Fault, HealthInv, Health!TypeOK
<1>2. /\ Health!Abandon
      /\ UNCHANGED <<healthStatus, autoBan, testModel, reason, condition, rchan, rstatus, rban, requestEdits,
                     healthEdits, turns>>
  BY DEF Health!RoundEnds, Health!RoundFails, Health!Restart, Health!loopRest, Health!rowVars, Health!relayVars
<1>3. /\ rpc' \in [HealthRequest -> {"idle", "routed", "sent", "disabling", "done"}]
      /\ \A q \in HealthRequest : rpc'[q] = rpc[q] \/ rpc'[q] \in {"idle", "done"}
  BY DEF Health!RoundEnds, Health!RoundFails, Health!Restart, Health!loopRest, Health!relayVars,
     HealthInv, Health!TypeOK
<1>4. QED
  BY <1>1, <1>2, <1>3, AbandonKeeps

LEMMA TurnKeeps ==
  ASSUME HealthInv, NEW c \in HealthChannel, Health!Turn(c)
  PROVE  HealthInv'
<1>1. turns' \in 0..MaxTurns /\ condition' \in [HealthChannel -> Condition]
      /\ UNCHANGED <<healthStatus, autoBan, testModel, reason, phase, todo, probed, healthAnswer, loopEdits,
                     rpc, rchan, rstatus, rban, requestEdits, healthEdits, healthFaults>>
  BY HealthConstants
  DEF Health!Turn, HealthInv, Health!TypeOK, Health!rowVars, Health!loopVars, Health!relayVars
<1>2. Health!TypeOK'
  BY <1>1 DEF HealthInv, Health!TypeOK
<1>3. LoopKnows' /\ \A q \in HealthRequest : RequestKnows(q)'
  BY <1>1 DEF HealthInv, LoopKnows, Fresh, RequestKnows
<1>4. QED
  BY <1>2, <1>3 DEF HealthInv

\* A request reads, decides and ends; the rows and the loop stand still.
LEMMA ReadingKeeps ==
  ASSUME HealthInv, NEW q \in HealthRequest,
         Health!RouteRead(q) \/ Health!ChannelRead(q) \/ Health!Answered(q)
  PROVE  HealthInv'
<1>1. UNCHANGED <<healthStatus, autoBan, testModel, reason, condition, phase, todo, probed, healthAnswer,
                  loopEdits, healthEdits, turns, healthFaults>>
  BY DEF Health!RouteRead, Health!ChannelRead, Health!Answered, Health!rowVars, Health!relayRest, Health!loopVars
<1>2. /\ rpc' \in [HealthRequest -> {"idle", "routed", "sent", "disabling", "done"}]
      /\ rchan' \in [HealthRequest -> HealthChannel \cup {None}]
      /\ rstatus' \in [HealthRequest -> Health!Live \cup {None}] /\ rban' \in [HealthRequest -> BOOLEAN]
      /\ requestEdits' \in [HealthRequest -> SUBSET HealthChannel]
  <2>1. CASE Health!RouteRead(q)
    BY <2>1 DEF HealthInv, Health!TypeOK, Health!RouteRead
  <2>2. CASE Health!ChannelRead(q)
    BY <2>2 DEF HealthInv, Health!TypeOK, Health!ChannelRead, RequestKnows
  <2>3. CASE Health!Answered(q)
    BY <2>3 DEF HealthInv, Health!TypeOK, Health!Answered
  <2>4. QED
    BY <2>1, <2>2, <2>3
<1>3. Health!TypeOK'
  BY <1>1, <1>2 DEF HealthInv, Health!TypeOK
<1>4. LoopKnows'
  BY <1>1 DEF HealthInv, LoopKnows, Fresh
<1>5. ASSUME NEW x \in HealthRequest, x # q PROVE RequestKnows(x)'
  BY <1>1, <1>5
  DEF Health!RouteRead, Health!ChannelRead, Health!Answered, HealthInv, Health!TypeOK, RequestKnows
<1>6. RequestKnows(q)'
  <2>1. CASE Health!RouteRead(q)
    BY <1>1, <2>1 DEF HealthInv, Health!TypeOK, Health!RouteRead, RequestKnows
  <2>2. CASE Health!ChannelRead(q)
    BY <1>1, <2>2 DEF HealthInv, Health!TypeOK, Health!ChannelRead, RequestKnows
  <2>3. CASE Health!Answered(q)
    BY <1>1, <2>3 DEF HealthInv, Health!TypeOK, Health!Answered, RequestKnows, Health!should_disable
  <2>4. QED
    BY <2>1, <2>2, <2>3
<1>7. QED
  BY <1>3, <1>4, <1>5, <1>6 DEF HealthInv

LEMMA DisableKeeps ==
  ASSUME HealthInv, NEW q \in HealthRequest, Health!Disable(q)
  PROVE  HealthInv' /\ Automatically(rchan[q])
<1>1. /\ rpc[q] = "disabling" /\ rpc' = [rpc EXCEPT ![q] = "done"]
      /\ UNCHANGED <<autoBan, testModel, rchan, rstatus, rban, requestEdits, condition, phase, todo, probed,
                     healthAnswer, loopEdits, healthEdits, turns>>
      /\ healthFaults' \in 0..MaxFaults
  BY HealthConstants DEF Health!Disable, Health!Fault, Health!relayRest, Health!loopVars, HealthInv, Health!TypeOK
<1>2. rchan[q] \in HealthChannel /\ Automatically(rchan[q])
  BY <1>1 DEF HealthInv, RequestKnows, Health!Disable, Automatically, Health!Reason
<1>3. /\ healthStatus' \in [HealthChannel -> Health!Status] /\ reason' \in [HealthChannel -> Health!Reason]
      /\ \A d \in HealthChannel : healthStatus[d] # "Disabled" => healthStatus'[d] # "Disabled"
  BY <1>2, AutomaticKeeps
<1>4. Health!TypeOK'
  BY <1>1, <1>3 DEF HealthInv, Health!TypeOK
<1>5. ASSUME NEW copy \in Health!Copy, Fresh(copy) PROVE Fresh(copy)'
  BY <1>1, <1>3, <1>5 DEF Fresh, Health!Copy
<1>6. LoopKnows'
  BY <1>1, <1>5 DEF HealthInv, LoopKnows, Health!TypeOK
<1>7. \A x \in HealthRequest : RequestKnows(x)'
  BY <1>1, <1>3 DEF HealthInv, RequestKnows, Health!TypeOK
<1>8. QED
  BY <1>2, <1>4, <1>6, <1>7 DEF HealthInv

LEMMA HealthStep == HealthInv /\ [Health!Next]_healthVars => HealthInv'
<1> SUFFICES ASSUME HealthInv, [Health!Next]_healthVars PROVE HealthInv'
  OBVIOUS
<1>1. CASE UNCHANGED healthVars
  <2>1. Health!TypeOK' /\ LoopKnows'
    BY <1>1 DEF HealthInv, Health!TypeOK, LoopKnows, Fresh, healthVars
  <2>2. \A q \in HealthRequest : RequestKnows(q)'
    BY <1>1 DEF HealthInv, RequestKnows, healthVars
  <2>3. QED
    BY <2>1, <2>2 DEF HealthInv
<1>2. CASE Health!Next
  BY <1>2, AdminKeeps, ReadsKeep, ProbeKeeps, WritesBackKeeps, RoundKeeps, TurnKeeps, ReadingKeeps, DisableKeeps
  DEF Health!Next, Health!AdminStep, Health!LoopStep, Health!RelayStep
<1>3. QED
  BY <1>1, <1>2

LEMMA GatewayHealth == GatewaySpec => []HealthInv
<1>1. GatewayInit => HealthInv
  BY HealthInit DEF GatewayInit
<1>2. HealthInv /\ [GatewayNext]_allVars => HealthInv'
  BY HealthStep DEF GatewayNext, allVars
<1>3. QED
  BY <1>1, <1>2, PTL DEF GatewaySpec

\* The channels' columns, the loop's copies and the requests keep their types.
THEOREM HealthTyped == GatewaySpec => []Health!TypeOK
BY GatewayHealth, PTL DEF HealthInv

\* An automatic step that writes a status: the row in hand or a spawned update.
LEMMA StatusWrites ==
  ASSUME HealthInv, [Health!Next]_healthVars, Health!Automatic, NEW c \in HealthChannel,
         healthStatus'[c] # healthStatus[c]
  PROVE  \/ /\ probed # None /\ probed.id = c
            /\ healthStatus'[c] = "CircuitBroken" => probed.ban
         \/ \E q \in HealthRequest : rpc[q] = "disabling" /\ rchan[q] = c
<1>1. healthStatus \in [HealthChannel -> Health!Status] /\ healthEdits \in Nat
  BY HealthConstants DEF HealthInv, Health!TypeOK
<1>2. ASSUME NEW d \in HealthChannel, Health!Create(d) \/ Health!Update(d) \/ Health!Delete(d) PROVE FALSE
  <2>1. healthEdits' = healthEdits + 1
    BY <1>2 DEF Health!Create, Health!Update, Health!Delete, Health!Edited
  <2>2. QED
    BY <1>1, <2>1 DEF Health!Automatic
<1>3. ASSUME NEW d \in HealthChannel, Health!BreakAfterProbe(d) \/ Health!RecoverAfterProbe(d)
      PROVE  probed # None /\ probed.id = c /\ (healthStatus'[c] = "CircuitBroken" => probed.ban)
  BY <1>1, <1>3 DEF Health!BreakAfterProbe, Health!RecoverAfterProbe, Health!WritesBack
<1>4. ASSUME NEW q \in HealthRequest, Health!Disable(q) PROVE rpc[q] = "disabling" /\ rchan[q] = c
  BY <1>1, <1>4 DEF Health!Disable
<1>5. ASSUME UNCHANGED healthStatus PROVE FALSE
  BY <1>5
<1>6. QED
  BY <1>2, <1>3, <1>4, <1>5
  DEF Health!Next, Health!AdminStep, Health!LoopStep, Health!RelayStep, Health!ReadEnabled, Health!ReadBroken,
      Health!RoundEnds, Health!RoundFails, Health!Probe, Health!Turn, Health!Restart, Health!RouteRead,
      Health!ChannelRead, Health!Answered, Health!loopRest, Health!rowVars, healthVars

\* Whoever overrules an administrator decided on an older row: a channel
\* switched off is left off by the probe loop (health.rs) and by the relay's
\* automatic disabling, and auto_ban = false is a veto on both, but for writers
\* that read the row before the edit.
THEOREM OperatorsAlwaysWin == GatewaySpec => OperatorsWin
<1>1. ASSUME HealthInv, [Health!Next]_healthVars, Health!Automatic, NEW c \in HealthChannel,
             healthStatus[c] = "Disabled", healthStatus'[c] # "Disabled"
      PROVE  Health!Outdated(c)
  <2>1. CASE probed # None /\ probed.id = c
    BY <1>1, <2>1 DEF HealthInv, LoopKnows, Fresh, Health!Outdated
  <2>2. ASSUME NEW q \in HealthRequest, rpc[q] = "disabling", rchan[q] = c PROVE Health!Outdated(c)
    BY <1>1, <2>2 DEF HealthInv, RequestKnows, Health!Outdated
  <2>3. QED
    BY <1>1, <2>1, <2>2, StatusWrites
<1>2. ASSUME HealthInv, [Health!Next]_healthVars, Health!Automatic, NEW c \in HealthChannel,
             ~autoBan[c], healthStatus[c] # "CircuitBroken"
      PROVE  healthStatus'[c] # "CircuitBroken" \/ Health!Outdated(c)
  <2>1. CASE probed # None /\ probed.id = c /\ probed.ban
    BY <1>2, <2>1 DEF HealthInv, LoopKnows, Fresh, Health!Outdated
  <2>2. ASSUME NEW q \in HealthRequest, rpc[q] = "disabling", rchan[q] = c PROVE Health!Outdated(c)
    BY <1>2, <2>2 DEF HealthInv, RequestKnows, Health!Outdated
  <2>3. QED
    BY <1>2, <2>1, <2>2, StatusWrites
<1>3. HealthInv /\ [GatewayNext]_allVars => [Health!Next]_healthVars
  BY DEF GatewayNext, allVars
<1>4. HealthInv /\ [GatewayNext]_allVars =>
        [\A c \in HealthChannel :
           Health!Automatic /\ healthStatus[c] = "Disabled" /\ healthStatus'[c] # "Disabled"
             => Health!Outdated(c)]_(Health!vars)
  BY <1>1, <1>3
<1>5. HealthInv /\ [GatewayNext]_allVars =>
        [\A c \in HealthChannel :
           Health!Automatic /\ ~autoBan[c] /\ healthStatus[c] # "CircuitBroken"
             => healthStatus'[c] # "CircuitBroken" \/ Health!Outdated(c)]_(Health!vars)
  BY <1>2, <1>3
<1>6. QED
  BY <1>4, <1>5, GatewayHealth, PTL DEF GatewaySpec, OperatorsWin, Health!OffStaysOff, Health!AutoBanVeto

-----------------------------------------------------------------------------
(* Folds over a sequence: what a function makes of a value and the elements.  *)

LEMMA UpTo ==
  ASSUME NEW n \in Nat, NEW K, 0 \in K, \A k \in 0..(n - 1) : k \in K => k + 1 \in K
  PROVE  \A k \in 0..n : k \in K
<1> DEFINE Bad == {k \in 0..n : k \notin K}
<1>1. Bad = {}
  <2> SUFFICES ASSUME Bad # {} PROVE FALSE
    OBVIOUS
  <2>1. PICK m \in Bad : \A k \in Bad : ~(<<k, m>> \in OpToRel(<, Nat))
    <3>1. Bad \subseteq Nat
      OBVIOUS
    <3> HIDE DEF Bad
    <3>2. QED
      BY <3>1, NatLessThanWellFounded, WFMin
  <2>2. m \in 0..n /\ m \notin K
    BY <2>1
  <2>3. m \in Nat /\ m # 0 /\ m - 1 \in 0..n /\ m - 1 \in 0..(n - 1) /\ m - 1 < m
    BY <2>2
  <2>4. m - 1 \notin Bad
    <3>1. <<m - 1, m>> \in OpToRel(<, Nat)
      BY <2>3 DEF OpToRel
    <3> HIDE DEF Bad
    <3>2. QED
      BY <2>1, <3>1
  <2>5. QED
    BY <2>3, <2>4
<1>2. QED
  BY <1>1

Highest(s) == CHOOSE x \in s : \A y \in s : x >= y

LEMMA HighestIs ==
  ASSUME NEW n \in Nat, NEW s \in SUBSET (1..n), s # {}
  PROVE  Highest(s) \in s /\ \A y \in s : y <= Highest(s)
<1> DEFINE K == {k \in 0..n : \A u \in SUBSET (1..k) : u # {} => \E x \in u : \A y \in u : x >= y}
<1>1. 0 \in K
  <2>1. 1..0 = {} /\ 0 \in 0..n
    OBVIOUS
  <2>2. QED
    BY <2>1
<1>2. \A k \in 0..(n - 1) : k \in K => k + 1 \in K
  <2> SUFFICES ASSUME NEW k \in 0..(n - 1), k \in K, NEW u \in SUBSET (1..(k + 1)), u # {}
               PROVE  \E x \in u : \A y \in u : x >= y
    OBVIOUS
  <2>1. CASE k + 1 \in u
    BY <2>1
  <2>2. CASE k + 1 \notin u
    <3>1. u \in SUBSET (1..k)
      BY <2>2
    <3>2. QED
      BY <3>1
  <2>3. QED
    BY <2>1, <2>2
<1> HIDE DEF K
<1>3. n \in K
  BY <1>1, <1>2, UpTo
<1>4. \E x \in s : \A y \in s : x >= y
  BY <1>3 DEF K
<1>5. QED
  BY <1>4 DEF Highest

LEMMA HighestOfAll ==
  ASSUME NEW n \in Nat, NEW m, m = n + 1
  PROVE  Highest(1..m) = m /\ 1..m \ {m} = 1..n /\ 1..m # {}
BY DEF Highest

\* A function that takes a value and an element to a value.
Folds(g, T, X, base) == base \in T /\ g \in [T -> [X -> T]]

\* What a function makes of the elements at each set of positions, the last one last.
IsRun(f, g, base, seq) ==
  f = [s \in SUBSET DOMAIN seq |-> IF s = {} THEN base ELSE g[f[s \ {Highest(s)}]][seq[Highest(s)]]]

LEMMA RunExists ==
  ASSUME NEW T, NEW X, NEW base, NEW g, Folds(g, T, X, base), NEW seq \in Seq(X)
  PROVE  \E f \in [SUBSET DOMAIN seq -> T] : IsRun(f, g, base, seq)
<1> USE DEF Folds
<1> DEFINE Body(f, s) == IF s = {} THEN base ELSE g[f[s \ {Highest(s)}]][seq[Highest(s)]]
           Good(n) == \E f \in [SUBSET (1..n) -> T] : f = [s \in SUBSET (1..n) |-> Body(f, s)]
           K == {n \in 0..Len(seq) : Good(n)}
<1>1. Len(seq) \in Nat /\ DOMAIN seq = 1..Len(seq) /\ \A i \in DOMAIN seq : seq[i] \in X
  OBVIOUS
<1>2. 0 \in K
  <2> DEFINE f == [s \in SUBSET (1..0) |-> base]
  <2>1. 1..0 = {}
    OBVIOUS
  <2>2. f \in [SUBSET (1..0) -> T]
    OBVIOUS
  <2>3. f = [s \in SUBSET (1..0) |-> Body(f, s)]
    BY <2>1
  <2>4. Good(0)
    BY <2>2, <2>3
  <2> HIDE DEF f, Good
  <2>5. QED
    BY <1>1, <2>4
<1>3. \A n \in 0..(Len(seq) - 1) : n \in K => n + 1 \in K
  <2> SUFFICES ASSUME NEW n \in 0..(Len(seq) - 1), Good(n) PROVE n + 1 \in K
    OBVIOUS
  <2>1. PICK f \in [SUBSET (1..n) -> T] : f = [s \in SUBSET (1..n) |-> Body(f, s)]
    OBVIOUS
  <2> DEFINE h == [s \in SUBSET (1..(n + 1)) |-> Body(f, s)]
  <2> HIDE DEF Good
  <2>2. n \in Nat /\ n + 1 \in Nat /\ n + 1 \in 0..Len(seq)
    BY <1>1
  <2>3. \A s \in SUBSET (1..(n + 1)) :
          s # {} => /\ Highest(s) \in DOMAIN seq /\ s \ {Highest(s)} \in SUBSET (1..n)
                    /\ s \ {Highest(s)} \in SUBSET (1..(n + 1))
    <3> SUFFICES ASSUME NEW s \in SUBSET (1..(n + 1)), s # {}
                 PROVE  Highest(s) \in DOMAIN seq /\ s \ {Highest(s)} \in SUBSET (1..n)
      BY <2>2
    <3>1. Highest(s) \in s /\ \A y \in s : y <= Highest(s)
      BY <2>2, HighestIs
    <3>2. \A y \in s : y \in Nat /\ 1 <= y /\ y <= n + 1
      BY <2>2
    <3> DEFINE m == Highest(s)
    <3>6. m \in Nat /\ 1 <= m /\ m <= n + 1
      BY <3>1, <3>2
    <3> HIDE DEF m
    <3>3. \A y \in s : y # m => y \in 1..n
      <4> SUFFICES ASSUME NEW y \in s, y # m PROVE y \in 1..n
        OBVIOUS
      <4>1. y <= m
        BY <3>1 DEF m
      <4>2. QED
        BY <2>2, <3>2, <3>6, <4>1
    <3>4. m \in 1..Len(seq)
      BY <1>1, <2>2, <3>6
    <3> USE DEF m
    <3>5. QED
      BY <1>1, <3>3, <3>4
  <2>4. ASSUME NEW s \in SUBSET (1..(n + 1)) PROVE Body(f, s) \in T
    <3>1. CASE s = {}
      BY <3>1
    <3>2. CASE s # {}
      <4>1. f[s \ {Highest(s)}] \in T /\ seq[Highest(s)] \in X
        BY <1>1, <2>1, <2>3, <3>2
      <4>2. \A x \in T, y \in X : g[x][y] \in T
        OBVIOUS
      <4>3. QED
        BY <3>2, <4>1, <4>2
    <3>3. QED
      BY <3>1, <3>2
  <2>5. \A s \in SUBSET (1..n) : s \in SUBSET (1..(n + 1)) /\ h[s] = f[s]
    <3>1. \A s \in SUBSET (1..n) : s \in SUBSET (1..(n + 1))
      BY <2>2
    <3> HIDE DEF Body
    <3>2. QED
      BY <2>1, <3>1
  <2> HIDE DEF h
  <2>6. \A s \in SUBSET (1..(n + 1)) : Body(h, s) = Body(f, s)
    BY <2>3, <2>5
  <2> HIDE DEF Body
  <2>7. h = [s \in SUBSET (1..(n + 1)) |-> Body(h, s)]
    BY <2>6 DEF h
  <2>8. h \in [SUBSET (1..(n + 1)) -> T]
    BY <2>4 DEF h
  <2>9. Good(n + 1)
    BY <2>7, <2>8 DEF Good
  <2>10. QED
    BY <2>2, <2>9
<1> HIDE DEF K, Good
<1>4. Len(seq) \in K
  <2>1. \A n \in 0..Len(seq) : n \in K
    BY <1>1, <1>2, <1>3, UpTo
  <2>2. QED
    BY <1>1, <2>1
<1>5. QED
  BY <1>1, <1>4 DEF K, Good, IsRun

\* Any way to go through the elements of a sequence in turn.
Goes(f, g, base, seq) ==
  /\ f[{}] = base
  /\ \A k \in 0..(Len(seq) - 1) : f[1..(k + 1)] = g[f[1..k]][seq[k + 1]]

LEMMA RunGoes ==
  ASSUME NEW T, NEW X, NEW base, NEW g, Folds(g, T, X, base), NEW seq \in Seq(X),
         NEW f, IsRun(f, g, base, seq)
  PROVE  Goes(f, g, base, seq)
<1>1. Len(seq) \in Nat /\ DOMAIN seq = 1..Len(seq)
  OBVIOUS
<1>2. f[{}] = base
  BY DEF IsRun
<1>3. ASSUME NEW k \in 0..(Len(seq) - 1) PROVE f[1..(k + 1)] = g[f[1..k]][seq[k + 1]]
  <2>1. 1..(k + 1) \in SUBSET DOMAIN seq /\ k \in Nat
    BY <1>1
  <2>2. Highest(1..(k + 1)) = k + 1 /\ 1..(k + 1) \ {k + 1} = 1..k /\ 1..(k + 1) # {}
    BY <2>1, HighestOfAll
  <2>3. QED
    BY <2>1, <2>2 DEF IsRun
<1>4. QED
  BY <1>2, <1>3 DEF Goes

Starts(s, t) == Len(s) <= Len(t) /\ \A i \in DOMAIN s : s[i] = t[i]

Alike(f, h, s, T) == \A k \in 0..Len(s) : f[1..k] \in T /\ f[1..k] = h[1..k]

\* Two ways through the beginning of two sequences come to the same.
LEMMA GoesAlike ==
  ASSUME NEW T, NEW X, NEW base, NEW g, Folds(g, T, X, base), NEW s \in Seq(X), NEW t \in Seq(X),
         Starts(s, t),
         NEW f, Goes(f, g, base, s), NEW h, Goes(h, g, base, t)
  PROVE  Alike(f, h, s, T)
<1> USE DEF Folds
<1> DEFINE K == {k \in 0..Len(s) : f[1..k] \in T /\ f[1..k] = h[1..k]}
<1>1. Len(s) \in Nat /\ Len(t) \in Nat /\ \A i \in 1..Len(s) : s[i] \in X /\ s[i] = t[i]
  <2>1. Len(s) \in Nat /\ Len(t) \in Nat /\ DOMAIN s = 1..Len(s)
    OBVIOUS
  <2>2. \A i \in 1..Len(s) : s[i] \in X
    OBVIOUS
  <2>3. QED
    BY <2>1, <2>2 DEF Starts
<1>2. 0 \in K
  <2>1. 1..0 = {}
    OBVIOUS
  <2>2. QED
    BY <1>1, <2>1 DEF Goes
<1>3. \A k \in 0..(Len(s) - 1) : k \in K => k + 1 \in K
  <2> SUFFICES ASSUME NEW k \in 0..(Len(s) - 1), f[1..k] \in T, f[1..k] = h[1..k]
               PROVE  k + 1 \in 0..Len(s) /\ f[1..(k + 1)] \in T /\ f[1..(k + 1)] = h[1..(k + 1)]
    OBVIOUS
  <2>1. k + 1 \in 1..Len(s) /\ k + 1 \in 0..Len(s) /\ k \in 0..(Len(t) - 1)
    BY <1>1 DEF Starts
  <2>2. f[1..(k + 1)] = g[f[1..k]][s[k + 1]] /\ h[1..(k + 1)] = g[h[1..k]][t[k + 1]]
    BY <2>1 DEF Goes
  <2>3. s[k + 1] \in X /\ t[k + 1] = s[k + 1]
    BY <1>1, <2>1
  <2>4. QED
    BY <2>1, <2>2, <2>3
<1> HIDE DEF K
<1>4. \A k \in 0..Len(s) : k \in K
  BY <1>1, <1>2, <1>3, UpTo
<1>5. QED
  BY <1>4 DEF K, Alike

Run(g, base, seq) == (CHOOSE f : IsRun(f, g, base, seq))[DOMAIN seq]

LEMMA RunIs ==
  ASSUME NEW T, NEW X, NEW base, NEW g, Folds(g, T, X, base), NEW s \in Seq(X),
         NEW f, Goes(f, g, base, s)
  PROVE  f[DOMAIN s] = Run(g, base, s) /\ Run(g, base, s) \in T
<1> DEFINE h == CHOOSE f1 : IsRun(f1, g, base, s)
<1>1. IsRun(h, g, base, s)
  BY RunExists
<1>2. Run(g, base, s) = h[DOMAIN s]
  BY DEF Run
<1> HIDE DEF h
<1>3. Goes(h, g, base, s)
  BY <1>1, RunGoes
<1>4. Len(s) \in Nat /\ DOMAIN s = 1..Len(s)
  OBVIOUS
<1>5. \A k \in 0..Len(s) : f[1..k] \in T /\ f[1..k] = h[1..k]
  <2>1. Starts(s, s)
    BY <1>4 DEF Starts
  <2>2. Alike(f, h, s, T)
    BY <1>3, <2>1, GoesAlike
  <2>3. QED
    BY <2>2 DEF Alike
<1>6. QED
  BY <1>2, <1>4, <1>5

LEMMA RunStep ==
  ASSUME NEW T, NEW X, NEW base, NEW g, Folds(g, T, X, base)
  PROVE  /\ Run(g, base, <<>>) = base
         /\ \A s \in Seq(X) : Run(g, base, s) \in T
         /\ \A s \in Seq(X), x \in X : Run(g, base, Append(s, x)) = g[Run(g, base, s)][x]
<1>1. \A s \in Seq(X) : \E f : Goes(f, g, base, s) /\ f[DOMAIN s] = Run(g, base, s) /\ Run(g, base, s) \in T
  <2> SUFFICES ASSUME NEW s \in Seq(X)
               PROVE  \E f : Goes(f, g, base, s) /\ f[DOMAIN s] = Run(g, base, s) /\ Run(g, base, s) \in T
    OBVIOUS
  <2>1. PICK f : Goes(f, g, base, s)
    BY RunExists, RunGoes
  <2>2. f[DOMAIN s] = Run(g, base, s) /\ Run(g, base, s) \in T
    BY <2>1, RunIs
  <2>3. QED
    BY <2>1, <2>2
<1>2. Run(g, base, <<>>) = base
  <2>1. <<>> \in Seq(X) /\ DOMAIN <<>> = {}
    OBVIOUS
  <2>2. QED
    BY <1>1, <2>1 DEF Goes
<1>3. ASSUME NEW s \in Seq(X), NEW x \in X PROVE Run(g, base, Append(s, x)) = g[Run(g, base, s)][x]
  <2> DEFINE t == Append(s, x)
  <2>1. /\ t \in Seq(X) /\ Len(t) = Len(s) + 1 /\ Len(s) \in Nat /\ DOMAIN s = 1..Len(s)
        /\ DOMAIN t = 1..(Len(s) + 1) /\ t[Len(s) + 1] = x /\ \A i \in DOMAIN s : s[i] = t[i]
    OBVIOUS
  <2> HIDE DEF t
  <2>2. PICK f : Goes(f, g, base, s) /\ f[DOMAIN s] = Run(g, base, s)
    BY <1>1
  <2>3. PICK h : Goes(h, g, base, t) /\ h[DOMAIN t] = Run(g, base, t)
    BY <1>1, <2>1
  <2>4. f[1..Len(s)] = h[1..Len(s)]
    <3>1. Starts(s, t) /\ Len(s) \in 0..Len(s)
      BY <2>1 DEF Starts
    <3>2. \A k \in 0..Len(s) : f[1..k] \in T /\ f[1..k] = h[1..k]
      <4>1. Goes(f, g, base, s) /\ Goes(h, g, base, t) /\ t \in Seq(X)
        BY <2>1, <2>2, <2>3
      <4>2. Alike(f, h, s, T)
        BY <3>1, <4>1, GoesAlike
      <4>3. QED
        BY <4>2 DEF Alike
    <3>3. QED
      BY <3>1, <3>2
  <2>5. h[1..(Len(s) + 1)] = g[h[1..Len(s)]][t[Len(s) + 1]]
    <3>1. Len(s) \in 0..(Len(t) - 1)
      BY <2>1
    <3>2. QED
      BY <2>3, <3>1 DEF Goes
  <2>6. QED
    BY <2>1, <2>2, <2>3, <2>4, <2>5 DEF t
<1>4. QED
  BY <1>1, <1>2, <1>3


\* What holds of the empty sequence, and of a longer one when it holds of the
\* shorter, holds of all.
LEMMA SequencesAll ==
  ASSUME NEW X, NEW K, <<>> \in K, \A s \in Seq(X), x \in X : s \in K => Append(s, x) \in K
  PROVE  \A s \in Seq(X) : s \in K
<1> SUFFICES ASSUME NEW s \in Seq(X) PROVE s \in K
  OBVIOUS
<1> DEFINE N == {k \in 0..Len(s) : SubSeq(s, 1, k) \in K}
<1>1. Len(s) \in Nat /\ SubSeq(s, 1, 0) = <<>> /\ SubSeq(s, 1, Len(s)) = s
  OBVIOUS
<1>2. 0 \in N
  <2>1. 0 \in 0..Len(s)
    BY <1>1
  <2>2. QED
    BY <1>1, <2>1
<1>3. \A k \in 0..(Len(s) - 1) : k \in N => k + 1 \in N
  <2> SUFFICES ASSUME NEW k \in 0..(Len(s) - 1), SubSeq(s, 1, k) \in K
               PROVE  k + 1 \in 0..Len(s) /\ SubSeq(s, 1, k + 1) \in K
    OBVIOUS
  <2>1. k + 1 \in 1..Len(s) /\ k + 1 \in 0..Len(s) /\ k \in Nat
    BY <1>1
  <2>2. s[k + 1] \in X /\ SubSeq(s, 1, k) \in Seq(X)
    BY <2>1
  <2>3. SubSeq(s, 1, k + 1) = Append(SubSeq(s, 1, k), s[k + 1])
    BY <2>1
  <2>4. QED
    BY <2>1, <2>2, <2>3
<1> HIDE DEF N
<1>4. Len(s) \in N
  <2>1. \A k \in 0..Len(s) : k \in N
    BY <1>1, <1>2, <1>3, UpTo
  <2>2. QED
    BY <1>1, <2>1
<1>5. QED
  BY <1>1, <1>4 DEF N

\* What RunExists promises, at each set of positions.
Valued(h, g, T, X, base, s) ==
  /\ h = [u \in SUBSET DOMAIN s |-> h[u]] /\ h[{}] = base
  /\ \A u \in SUBSET DOMAIN s :
       u # {} => /\ h[u \ {Highest(u)}] \in T /\ s[Highest(u)] \in X
                 /\ h[u] = g[h[u \ {Highest(u)}]][s[Highest(u)]]

LEMMA RunValues ==
  ASSUME NEW T, NEW X, NEW base, NEW g, Folds(g, T, X, base), NEW s \in Seq(X)
  PROVE  \E h : Valued(h, g, T, X, base, s)
<1>1. PICK h \in [SUBSET DOMAIN s -> T] : IsRun(h, g, base, s)
  BY RunExists
<1>2. Len(s) \in Nat /\ DOMAIN s = 1..Len(s) /\ \A i \in DOMAIN s : s[i] \in X
  OBVIOUS
<1>3. ASSUME NEW u \in SUBSET DOMAIN s, u # {}
      PROVE  h[u \ {Highest(u)}] \in T /\ s[Highest(u)] \in X /\ h[u] = g[h[u \ {Highest(u)}]][s[Highest(u)]]
  <2>1. Highest(u) \in DOMAIN s
    BY <1>2, <1>3, HighestIs
  <2>2. h[u] = g[h[u \ {Highest(u)}]][s[Highest(u)]]
    BY <1>1, <1>3 DEF IsRun
  <2>3. QED
    BY <1>1, <1>2, <2>1, <2>2
<1>4. h[{}] = base
  BY <1>1 DEF IsRun
<1>5. QED
  BY <1>1, <1>3, <1>4 DEF Valued

LEMMA RunFrom ==
  ASSUME NEW T, NEW X, NEW base, NEW g, Folds(g, T, X, base), NEW s \in Seq(X),
         NEW f, f[{}] = base,
         \A k \in 0..(Len(s) - 1) : f[1..k] \in T => f[1..(k + 1)] = g[f[1..k]][s[k + 1]]
  PROVE  f[DOMAIN s] = Run(g, base, s)
<1> DEFINE N == {k \in 0..Len(s) : f[1..k] \in T}
<1>1. Len(s) \in Nat /\ DOMAIN s = 1..Len(s) /\ \A i \in DOMAIN s : s[i] \in X
  OBVIOUS
<1>2. 0 \in N
  <2>1. 1..0 = {} /\ 0 \in 0..Len(s)
    BY <1>1
  <2>2. QED
    BY <2>1 DEF Folds
<1>3. \A k \in 0..(Len(s) - 1) : k \in N => k + 1 \in N
  <2> SUFFICES ASSUME NEW k \in 0..(Len(s) - 1), f[1..k] \in T
               PROVE  k + 1 \in 0..Len(s) /\ f[1..(k + 1)] \in T
    OBVIOUS
  <2>1. k + 1 \in 1..Len(s) /\ k + 1 \in 0..Len(s)
    BY <1>1
  <2>2. s[k + 1] \in X
    BY <1>1, <2>1
  <2>3. \A x \in T, y \in X : g[x][y] \in T
    BY DEF Folds
  <2>4. QED
    BY <2>1, <2>2, <2>3
<1> HIDE DEF N
<1>4. \A k \in 0..Len(s) : k \in N
  BY <1>1, <1>2, <1>3, UpTo
<1>5. \A k \in 0..(Len(s) - 1) : k \in 0..Len(s)
  BY <1>1
<1>6. Goes(f, g, base, s)
  BY <1>4, <1>5 DEF Goes, N
<1>7. QED
  BY <1>6, RunIs

LEMMA AppendIs ==
  ASSUME NEW X, NEW s \in Seq(X), NEW x \in X
  PROVE  /\ Append(s, x) \in Seq(X) /\ Len(Append(s, x)) = Len(s) + 1
         /\ Append(s, x) = [i \in 1..(Len(s) + 1) |-> Append(s, x)[i]]
         /\ Append(s, x)[Len(s) + 1] = x
         /\ \A i \in 1..Len(s) : Append(s, x)[i] = s[i]
<1>1. Append(s, x) \in Seq(X) /\ Len(Append(s, x)) = Len(s) + 1 /\ Append(s, x)[Len(s) + 1] = x
  OBVIOUS
<1>2. \A i \in 1..Len(s) : Append(s, x)[i] = s[i]
  OBVIOUS
<1>3. Append(s, x) = [i \in 1..(Len(s) + 1) |-> Append(s, x)[i]]
  <2> DEFINE t == Append(s, x)
  <2>1. t \in Seq(X) /\ Len(t) = Len(s) + 1
    BY <1>1
  <2> HIDE DEF t
  <2>2. t = [i \in 1..Len(t) |-> t[i]]
    BY <2>1
  <2>3. QED
    BY <2>1, <2>2 DEF t
<1>4. QED
  BY <1>1, <1>2, <1>3

\* The elements of a sequence that are in a set.
KeptIn(set, T, X) == [kept \in T |-> [e \in X |-> IF e \in set THEN Append(kept, e) ELSE kept]]

LEMMA AmongIs ==
  ASSUME NEW X, NEW set, NEW s \in Seq(X)
  PROVE  /\ Folds(KeptIn(set, Seq(X), X), Seq(X), X, <<>>)
         /\ Conversions!Among(s, set) = Run(KeptIn(set, Seq(X), X), <<>>, s)
<1> DEFINE g == KeptIn(set, Seq(X), X)
           Eq(f) == f = [u \in SUBSET DOMAIN s |->
                           IF u = {} THEN <<>>
                           ELSE IF s[Highest(u)] \in set THEN Append(f[u \ {Highest(u)}], s[Highest(u)])
                                ELSE f[u \ {Highest(u)}]]
           f == CHOOSE f1 : Eq(f1)
<1>1. Folds(g, Seq(X), X, <<>>) /\ \A x \in Seq(X), y \in X : g[x][y] = IF y \in set THEN Append(x, y) ELSE x
  BY DEF Folds, KeptIn
<1>2. Conversions!Among(s, set) = f[DOMAIN s]
  BY DEF Conversions!Among, Conversions!FoldLeft, Conversions!MapThenFoldSet, Conversions!Max, Highest
<1> HIDE DEF g
<1>3. Eq(f)
  <2>1. PICK h : Valued(h, g, Seq(X), X, <<>>, s)
    BY <1>1, RunValues
  <2>2. Eq(h)
    BY <1>1, <2>1 DEF Valued
  <2>3. QED
    BY <2>2
<1> HIDE DEF f
<1>4. f[{}] = <<>>
  BY <1>3
<1>5. ASSUME NEW k \in 0..(Len(s) - 1), f[1..k] \in Seq(X) PROVE f[1..(k + 1)] = g[f[1..k]][s[k + 1]]
  <2>1. 1..(k + 1) \in SUBSET DOMAIN s /\ k \in Nat /\ s[k + 1] \in X
    OBVIOUS
  <2>2. Highest(1..(k + 1)) = k + 1 /\ 1..(k + 1) \ {k + 1} = 1..k /\ 1..(k + 1) # {}
    BY <2>1, HighestOfAll
  <2>3. f[1..(k + 1)] = IF s[k + 1] \in set THEN Append(f[1..k], s[k + 1]) ELSE f[1..k]
    BY <1>3, <2>1, <2>2
  <2>4. QED
    BY <1>1, <1>5, <2>1, <2>3
<1>6. QED
  BY <1>1, <1>2, <1>4, <1>5, RunFrom DEF g

LEMMA AmongStep ==
  ASSUME NEW X, NEW set
  PROVE  /\ Conversions!Among(<<>>, set) = <<>>
         /\ \A s \in Seq(X) : Conversions!Among(s, set) \in Seq(X)
         /\ \A s \in Seq(X), x \in X :
              Conversions!Among(Append(s, x), set) =
                IF x \in set THEN Append(Conversions!Among(s, set), x) ELSE Conversions!Among(s, set)
<1> DEFINE g == KeptIn(set, Seq(X), X)
<1>1. <<>> \in Seq(X)
  OBVIOUS
<1>2. Folds(g, Seq(X), X, <<>>) /\ \A s \in Seq(X) : Conversions!Among(s, set) = Run(g, <<>>, s)
  BY <1>1, AmongIs
<1>3. \A x \in Seq(X), y \in X : g[x][y] = IF y \in set THEN Append(x, y) ELSE x
  BY DEF KeptIn
<1> HIDE DEF g
<1>4. /\ Run(g, <<>>, <<>>) = <<>>
      /\ \A s \in Seq(X) : Run(g, <<>>, s) \in Seq(X)
      /\ \A s \in Seq(X), x \in X : Run(g, <<>>, Append(s, x)) = g[Run(g, <<>>, s)][x]
  BY <1>2, RunStep
<1>5. ASSUME NEW s \in Seq(X), NEW x \in X
      PROVE  Conversions!Among(Append(s, x), set) =
               IF x \in set THEN Append(Conversions!Among(s, set), x) ELSE Conversions!Among(s, set)
  <2>1. Append(s, x) \in Seq(X)
    OBVIOUS
  <2>2. Conversions!Among(Append(s, x), set) = g[Conversions!Among(s, set)][x]
    BY <1>2, <1>4, <2>1
  <2>3. Conversions!Among(s, set) \in Seq(X)
    BY <1>2, <1>4
  <2>4. QED
    BY <1>3, <2>2, <2>3
<1>6. QED
  BY <1>1, <1>2, <1>4, <1>5

LEMMA AmongMore ==
  ASSUME NEW X, NEW set, NEW s \in Seq(X), NEW x \in X
  PROVE  /\ Conversions!Among(s, set) \in Seq(X)
         /\ x \in set => Conversions!Among(Append(s, x), set) = Append(Conversions!Among(s, set), x)
         /\ x \notin set => Conversions!Among(Append(s, x), set) = Conversions!Among(s, set)
<1>1. /\ \A t \in Seq(X) : Conversions!Among(t, set) \in Seq(X)
      /\ \A t \in Seq(X), y \in X :
           Conversions!Among(Append(t, y), set) =
             IF y \in set THEN Append(Conversions!Among(t, set), y) ELSE Conversions!Among(t, set)
  BY AmongStep
<1>2. QED
  BY <1>1

\* They are of the set, and the set matters for the elements alone.
LEMMA AmongOf ==
  ASSUME NEW X, NEW set, NEW s \in Seq(X)
  PROVE  /\ Conversions!Among(s, set) \in Seq(X)
         /\ \A i \in DOMAIN Conversions!Among(s, set) : Conversions!Among(s, set)[i] \in set
<1> DEFINE K == {t \in Seq(X) : \A i \in DOMAIN Conversions!Among(t, set) : Conversions!Among(t, set)[i] \in set}
<1>1. <<>> \in K
  BY AmongStep
<1>2. \A t \in Seq(X), x \in X : t \in K => Append(t, x) \in K
  <2> SUFFICES ASSUME NEW t \in Seq(X), NEW x \in X,
                      \A i \in DOMAIN Conversions!Among(t, set) : Conversions!Among(t, set)[i] \in set
               PROVE  /\ Append(t, x) \in Seq(X)
                      /\ \A i \in DOMAIN Conversions!Among(Append(t, x), set) :
                           Conversions!Among(Append(t, x), set)[i] \in set
    OBVIOUS
  <2>1. /\ Conversions!Among(t, set) \in Seq(X)
        /\ Conversions!Among(Append(t, x), set) =
             IF x \in set THEN Append(Conversions!Among(t, set), x) ELSE Conversions!Among(t, set)
    BY AmongMore
  <2> DEFINE a == Conversions!Among(t, set)
             b == Conversions!Among(Append(t, x), set)
  <2>2. a \in Seq(X) /\ b = IF x \in set THEN Append(a, x) ELSE a
    BY <2>1
  <2>3. \A i \in DOMAIN a : a[i] \in set
    OBVIOUS
  <2> HIDE DEF a, b
  <2>4. \A i \in DOMAIN b : b[i] \in set
    BY <2>2, <2>3
  <2>5. QED
    BY <2>4 DEF b
<1> HIDE DEF K
<1>3. s \in K
  BY <1>1, <1>2, SequencesAll
<1>4. QED
  BY <1>3, AmongStep DEF K

LEMMA AmongLocal ==
  ASSUME NEW X, NEW one, NEW other, NEW s \in Seq(X), \A i \in DOMAIN s : s[i] \in one <=> s[i] \in other
  PROVE  Conversions!Among(s, one) = Conversions!Among(s, other)
<1> DEFINE Y == {x \in X : x \in one <=> x \in other}
           K == {t \in Seq(Y) : Conversions!Among(t, one) = Conversions!Among(t, other)}
<1>1. s \in Seq(Y)
  <2>1. Len(s) \in Nat /\ s \in [1..Len(s) -> X] /\ DOMAIN s = 1..Len(s)
    OBVIOUS
  <2>2. s \in [1..Len(s) -> Y]
    BY <2>1
  <2> HIDE DEF Y
  <2>3. QED
    BY <2>1, <2>2
<1>2. <<>> \in K
  BY AmongStep
<1>3. \A t \in Seq(Y), x \in Y : t \in K => Append(t, x) \in K
  <2> SUFFICES ASSUME NEW t \in Seq(Y), NEW x \in Y, Conversions!Among(t, one) = Conversions!Among(t, other)
               PROVE  Append(t, x) \in Seq(Y) /\
                      Conversions!Among(Append(t, x), one) = Conversions!Among(Append(t, x), other)
    OBVIOUS
  <2>1. x \in one <=> x \in other
    OBVIOUS
  <2>2. Append(t, x) \in Seq(Y)
    OBVIOUS
  <2> HIDE DEF Y
  <2>3. /\ x \in one => Conversions!Among(Append(t, x), one) = Append(Conversions!Among(t, one), x)
        /\ x \notin one => Conversions!Among(Append(t, x), one) = Conversions!Among(t, one)
    BY AmongMore
  <2>4. /\ x \in other => Conversions!Among(Append(t, x), other) = Append(Conversions!Among(t, other), x)
        /\ x \notin other => Conversions!Among(Append(t, x), other) = Conversions!Among(t, other)
    BY AmongMore
  <2>5. QED
    BY <2>1, <2>2, <2>3, <2>4
<1> HIDE DEF K
<1>4. s \in K
  BY <1>1, <1>2, <1>3, SequencesAll
<1>5. QED
  BY <1>4 DEF K

\* Elements that are not of the set do not show.
LEMMA AmongNone ==
  ASSUME NEW X, NEW set, NEW s \in Seq(X), NEW t \in Seq(X), \A i \in DOMAIN t : t[i] \notin set
  PROVE  Conversions!Among(s \o t, set) = Conversions!Among(s, set)
<1> DEFINE Y == {x \in X : x \notin set}
           K == {u \in Seq(Y) : Conversions!Among(s \o u, set) = Conversions!Among(s, set)}
<1>1. t \in Seq(Y)
  <2>1. Len(t) \in Nat /\ t \in [1..Len(t) -> X] /\ DOMAIN t = 1..Len(t)
    OBVIOUS
  <2>2. t \in [1..Len(t) -> Y]
    BY <2>1
  <2> HIDE DEF Y
  <2>3. QED
    BY <2>1, <2>2
<1>2. <<>> \in K
  <2>1. s \o <<>> = s
    OBVIOUS
  <2>2. QED
    BY <2>1
<1>3. \A u \in Seq(Y), x \in Y : u \in K => Append(u, x) \in K
  <2> SUFFICES ASSUME NEW u \in Seq(Y), NEW x \in Y, Conversions!Among(s \o u, set) = Conversions!Among(s, set)
               PROVE  Append(u, x) \in Seq(Y) /\ Conversions!Among(s \o Append(u, x), set) = Conversions!Among(s, set)
    OBVIOUS
  <2>1. x \in X /\ x \notin set /\ u \in Seq(X)
    OBVIOUS
  <2>2. Append(u, x) \in Seq(Y)
    OBVIOUS
  <2> HIDE DEF Y
  <2>3. s \o Append(u, x) = Append(s \o u, x) /\ s \o u \in Seq(X)
    BY <2>1
  <2>4. Conversions!Among(Append(s \o u, x), set) = Conversions!Among(s \o u, set)
    <3> DEFINE v == s \o u
    <3>1. v \in Seq(X)
      BY <2>3
    <3> HIDE DEF v
    <3>2. Conversions!Among(Append(v, x), set) = Conversions!Among(v, set)
      BY <2>1, <3>1, AmongMore
    <3>3. QED
      BY <3>2 DEF v
  <2>5. QED
    BY <2>2, <2>3, <2>4
<1> HIDE DEF K
<1>4. t \in K
  BY <1>1, <1>2, <1>3, SequencesAll
<1>5. QED
  BY <1>4 DEF K

\* All sequences of a sequence, in turn.
Joined(B) == [all \in Seq(B) |-> [t \in Seq(B) |-> all \o t]]

LEMMA JoinedFolds ==
  ASSUME NEW B
  PROVE  /\ Folds(Joined(B), Seq(B), Seq(B), <<>>)
         /\ \A x, y \in Seq(B) : Joined(B)[x][y] = x \o y
BY DEF Folds, Joined

LEMMA FlattenIs ==
  ASSUME NEW B, NEW s \in Seq(Seq(B))
  PROVE  Conversions!FlattenSeq(s) = Run(Joined(B), <<>>, s)
<1> DEFINE g == Joined(B)
           n == Len(s)
           Eq(f) == f = [i \in 1..n |-> IF i = 1 THEN s[i] ELSE f[i - 1] \o s[i]]
           f == CHOOSE f1 : Eq(f1)
<1>1. Folds(g, Seq(B), Seq(B), <<>>) /\ \A x, y \in Seq(B) : g[x][y] = x \o y
  BY JoinedFolds
<1>2. n \in Nat /\ DOMAIN s = 1..n /\ \A i \in 1..n : s[i] \in Seq(B)
  OBVIOUS
<1> HIDE DEF g
<1>3. CASE n = 0
  <2>1. s = <<>>
    BY <1>2, <1>3
  <2>2. Conversions!FlattenSeq(s) = <<>>
    BY <2>1 DEF Conversions!FlattenSeq
  <2>3. Run(g, <<>>, <<>>) = <<>>
    BY <1>1, RunStep
  <2>4. QED
    BY <2>1, <2>2, <2>3 DEF g
<1>4. CASE n # 0
  <2>1. Conversions!FlattenSeq(s) = f[n]
    BY <1>4 DEF Conversions!FlattenSeq
  <2>2. PICK h : h = Run(g, <<>>, s) /\ \E r : Goes(r, g, <<>>, s) /\ Alike(r, r, s, Seq(B))
    <3>1. PICK r : Goes(r, g, <<>>, s)
      BY <1>1, RunExists, RunGoes
    <3>2. Starts(s, s)
      BY <1>2 DEF Starts
    <3>3. Alike(r, r, s, Seq(B))
      BY <1>1, <3>1, <3>2, GoesAlike
    <3>4. QED
      BY <3>1, <3>3
  <2>3. PICK r : Goes(r, g, <<>>, s) /\ Alike(r, r, s, Seq(B))
    BY <2>2
  <2>4. \A k \in 0..n : r[1..k] \in Seq(B)
    BY <2>3 DEF Alike
  <2>5. \A k \in 0..(n - 1) : r[1..(k + 1)] = r[1..k] \o s[k + 1]
    <3> SUFFICES ASSUME NEW k \in 0..(n - 1) PROVE r[1..(k + 1)] = r[1..k] \o s[k + 1]
      OBVIOUS
    <3>1. k \in 0..n /\ k + 1 \in 1..n
      BY <1>2
    <3>2. r[1..k] \in Seq(B) /\ s[k + 1] \in Seq(B)
      BY <1>2, <2>4, <3>1
    <3>3. r[1..(k + 1)] = g[r[1..k]][s[k + 1]]
      BY <2>3 DEF Goes
    <3>4. QED
      BY <1>1, <3>2, <3>3
  <2>6. r[1..0] = <<>> /\ r[{}] = <<>>
    <3>1. 1..0 = {}
      OBVIOUS
    <3>2. QED
      BY <2>3, <3>1 DEF Goes
  <2> DEFINE q == [i \in 1..n |-> r[1..i]]
  <2>7. \A i \in 1..n : q[i] = IF i = 1 THEN s[i] ELSE q[i - 1] \o s[i]
    <3> SUFFICES ASSUME NEW i \in 1..n PROVE q[i] = IF i = 1 THEN s[i] ELSE q[i - 1] \o s[i]
      OBVIOUS
    <3>1. i - 1 \in 0..(n - 1) /\ (i - 1) + 1 = i /\ i \in Nat
      BY <1>2
    <3>2. r[1..i] = r[1..(i - 1)] \o s[i]
      BY <2>5, <3>1
    <3>3. CASE i = 1
      <4>1. r[1..(i - 1)] = <<>>
        BY <2>6, <3>3
      <4>2. QED
        BY <1>2, <3>2, <3>3, <4>1
    <3>4. CASE i # 1
      <4>1. i - 1 \in 1..n
        BY <1>2, <3>1, <3>4
      <4>2. q[i - 1] = r[1..(i - 1)] /\ q[i] = r[1..i]
        BY <4>1
      <4> HIDE DEF q
      <4>3. QED
        BY <3>2, <3>4, <4>2
    <3>5. QED
      BY <3>3, <3>4
  <2>8. Eq(q)
    BY <2>7
  <2> HIDE DEF q
  <2>9. Eq(f)
    BY <2>8
  <2> HIDE DEF f
  <2> DEFINE N == {k \in 0..n : k = 0 \/ f[k] = r[1..k]}
  <2>10. 0 \in N
    BY <1>2
  <2>11. \A k \in 0..(n - 1) : k \in N => k + 1 \in N
    <3> SUFFICES ASSUME NEW k \in 0..(n - 1), k = 0 \/ f[k] = r[1..k]
                 PROVE  k + 1 \in 0..n /\ f[k + 1] = r[1..(k + 1)]
      OBVIOUS
    <3>1. k + 1 \in 1..n /\ k + 1 \in 0..n /\ (k + 1) - 1 = k
      BY <1>2
    <3>2. f[k + 1] = IF k + 1 = 1 THEN s[k + 1] ELSE f[k] \o s[k + 1]
      BY <2>9, <3>1
    <3>3. r[1..(k + 1)] = r[1..k] \o s[k + 1]
      BY <2>5
    <3>4. CASE k = 0
      BY <1>2, <2>6, <3>1, <3>2, <3>3, <3>4
    <3>5. CASE k # 0
      <4>1. k + 1 # 1 /\ f[k] = r[1..k]
        BY <1>2, <3>5
      <4>2. QED
        BY <3>1, <3>2, <3>3, <4>1
    <3>6. QED
      BY <3>4, <3>5
  <2> HIDE DEF N
  <2>12. \A k \in 0..n : k \in N
    BY <1>2, <2>10, <2>11, UpTo
  <2>13. f[n] = r[1..n]
    BY <1>2, <1>4, <2>12 DEF N
  <2>14. r[DOMAIN s] = Run(g, <<>>, s)
    BY <1>1, <2>3, RunIs
  <2>15. QED
    BY <1>2, <2>1, <2>13, <2>14 DEF g
<1>5. QED
  BY <1>3, <1>4

LEMMA FlattenStep ==
  ASSUME NEW B
  PROVE  /\ Conversions!FlattenSeq(<<>>) = <<>>
         /\ \A s \in Seq(Seq(B)) : Conversions!FlattenSeq(s) \in Seq(B)
         /\ \A s \in Seq(Seq(B)), t \in Seq(B) :
              Conversions!FlattenSeq(Append(s, t)) = Conversions!FlattenSeq(s) \o t
<1> DEFINE g == Joined(B)
<1>1. <<>> \in Seq(Seq(B))
  OBVIOUS
<1>2. Folds(g, Seq(B), Seq(B), <<>>) /\ \A x, y \in Seq(B) : g[x][y] = x \o y
  BY JoinedFolds
<1>3. \A s \in Seq(Seq(B)) : Conversions!FlattenSeq(s) = Run(g, <<>>, s)
  BY FlattenIs
<1> HIDE DEF g
<1>4. /\ Run(g, <<>>, <<>>) = <<>>
      /\ \A s \in Seq(Seq(B)) : Run(g, <<>>, s) \in Seq(B)
      /\ \A s \in Seq(Seq(B)), x \in Seq(B) : Run(g, <<>>, Append(s, x)) = g[Run(g, <<>>, s)][x]
  BY <1>2, RunStep
<1>5. ASSUME NEW s \in Seq(Seq(B)), NEW t \in Seq(B)
      PROVE  Conversions!FlattenSeq(Append(s, t)) = Conversions!FlattenSeq(s) \o t
  <2>1. Append(s, t) \in Seq(Seq(B))
    OBVIOUS
  <2>2. QED
    BY <1>2, <1>3, <1>4, <2>1
<1>6. QED
  BY <1>1, <1>3, <1>4, <1>5

-----------------------------------------------------------------------------
(* Conversations: what becomes of the messages one by one.                    *)

Refs == UNION {{c[i].ref : i \in DOMAIN c} : c \in AskedContents \cup SaidContents}
Ref == Refs \cup CalledNames \cup Nat \cup {"", "s"}
Said == [type : {"text", "image", "other"}, ref : Ref]
Part == [type : {"text", "image", "other", "tool_use", "tool_result", "functionCall", "functionResponse"},
         ref : Ref]
Made == [role : {"user", "assistant", "model"}, blocks : Seq(Part)]
Call == [id : Nat, name : CalledNames]
Names == UNION {[D -> CalledNames] : D \in SUBSET Nat}

LEMMA MessageIs ==
  ASSUME NEW m \in Conversions!Messages
  PROVE  /\ m.role \in {"user", "system", "assistant", "tool"} /\ m.name = None
         /\ m.role = "system" => m.parts = <<Conversions!Block("text", "s")>>
         /\ m.role \in {"user", "assistant"} => m.parts \in Seq(Said)
         /\ m.role = "assistant" => m.calls \in Seq(Call)
         /\ m.role = "user" => m.calls = <<>>
         /\ m.role = "tool" => m.id \in Nat
<1>1. ASSUME NEW c \in AskedContents \cup SaidContents PROVE c \in Seq(Said)
  <2>1. c \in Seq([type : {"text", "image", "other"}, ref : {c[i].ref : i \in DOMAIN c}])
    BY ConversionsAssumption DEF Conversions!ConversionAssumption
  <2>2. {c[i].ref : i \in DOMAIN c} \subseteq Ref
    BY DEF Ref, Refs
  <2> DEFINE R == {c[i].ref : i \in DOMAIN c}
  <2> HIDE DEF R
  <2>3. c \in Seq([type : {"text", "image", "other"}, ref : R]) /\ R \subseteq Ref
    BY <2>1, <2>2 DEF R
  <2>4. [type : {"text", "image", "other"}, ref : R] \subseteq Said
    BY <2>3 DEF Said
  <2> DEFINE Q == [type : {"text", "image", "other"}, ref : R]
  <2> HIDE DEF Q
  <2>5. c \in Seq(Q) /\ Q \subseteq Said
    BY <2>3, <2>4 DEF Q
  <2>6. QED
    BY <2>5
<1>2. ASSUME NEW n \in CallCounts, NEW name \in CalledNames PROVE Conversions!CallsOf(n, name) \in Seq(Call)
  <2>1. n \in Nat
    BY ConversionsAssumption DEF Conversions!ConversionAssumption
  <2>2. \A i \in 1..n : [id |-> i - 1, name |-> name] \in Call
    BY <2>1 DEF Call
  <2>3. QED
    BY <2>1, <2>2 DEF Conversions!CallsOf
<1>3. CASE \E p \in AskedContents : m = Conversions!M("user", p, Conversions!NoCalls, None)
  BY <1>1, <1>3 DEF Conversions!M, Conversions!NoCalls
<1>4. CASE m = Conversions!M("system", <<Conversions!Block("text", "s")>>, Conversions!NoCalls, None)
  BY <1>4 DEF Conversions!M
<1>5. CASE \E p \in SaidContents, n \in CallCounts, name \in CalledNames :
             m = Conversions!M("assistant", p, Conversions!CallsOf(n, name), None)
  BY <1>1, <1>2, <1>5 DEF Conversions!M
<1>6. CASE \E n \in CallCounts \ {0} : m = Conversions!M("tool", <<>>, Conversions!NoCalls, n - 1)
  <2>1. \A n \in CallCounts \ {0} : n - 1 \in Nat
    BY ConversionsAssumption DEF Conversions!ConversionAssumption
  <2>2. QED
    BY <1>6, <2>1 DEF Conversions!M
<1>7. QED
  BY <1>3, <1>4, <1>5, <1>6 DEF Conversions!Messages

LEMMA TypesOf ==
  ASSUME NEW X, NEW s \in Seq(X), NEW types
  PROVE  /\ Conversions!OfType(s, types) \in Seq(X)
         /\ \A i \in DOMAIN Conversions!OfType(s, types) : Conversions!OfType(s, types)[i].type \in types
<1> DEFINE S == {p \in Conversions!ToSet(s) : p.type \in types}
           a == Conversions!Among(s, S)
<1>1. Conversions!OfType(s, types) = a
  BY DEF Conversions!OfType
<1>2. \A x \in S : x.type \in types
  OBVIOUS
<1> HIDE DEF S
<1>3. a \in Seq(X) /\ \A i \in DOMAIN a : a[i] \in S
  BY AmongOf
<1> HIDE DEF a
<1>4. QED
  BY <1>1, <1>2, <1>3

Typed(bs, types) == bs \in Seq(Part) /\ \A i \in DOMAIN bs : bs[i].type \in types

LEMMA SaidIsPart == Said \subseteq Part
BY DEF Said, Part

LEMMA ContentIs ==
  /\ \A c \in Seq(Said) : Typed(Conversions!convert_content(c), {"text", "image"})
  /\ Conversions!content_to_text(<<Conversions!Block("text", "s")>>) = <<Conversions!Block("text", "s")>>
<1>1. ASSUME NEW c \in Seq(Said) PROVE Typed(Conversions!convert_content(c), {"text", "image"})
  <2> DEFINE a == Conversions!convert_content(c)
  <2>1. a \in Seq(Said) /\ \A i \in DOMAIN a : a[i].type \in {"text", "image"}
    BY TypesOf DEF Conversions!convert_content
  <2> HIDE DEF a
  <2>2. a \in Seq(Part)
    BY <2>1, SaidIsPart
  <2>3. QED
    BY <2>1, <2>2 DEF Typed, a
<1>2. Conversions!content_to_text(<<Conversions!Block("text", "s")>>) = <<Conversions!Block("text", "s")>>
  <2> DEFINE b == Conversions!Block("text", "s")
             S == {p \in Conversions!ToSet(<<b>>) : p.type \in {"text"}}
  <2>1. b \in S
    BY DEF Conversions!Block, Conversions!ToSet
  <2> HIDE DEF S
  <2> DEFINE Y == {b}
             e == <<>>
  <2>2. <<b>> = Append(e, b) /\ e \in Seq(Y) /\ b \in Y
    OBVIOUS
  <2>4. Conversions!Among(e, S) = e
    BY AmongStep
  <2> HIDE DEF b, Y, e
  <2>3. Conversions!Among(Append(e, b), S) = Append(Conversions!Among(e, S), b)
    BY <2>1, <2>2, AmongMore
  <2>5. Conversions!Among(<<b>>, S) = <<b>>
    BY <2>2, <2>3, <2>4
  <2>6. QED
    BY <2>5 DEF S, b, Conversions!content_to_text, Conversions!OfType
<1>3. QED
  BY <1>1, <1>2

LEMMA CallBlocks ==
  ASSUME NEW calls \in Seq(Call)
  PROVE  /\ Typed(Conversions!tool_uses(calls), {"tool_use"})
         /\ Typed(Conversions!function_calls(calls), {"functionCall"})
<1>1. Len(calls) \in Nat /\ DOMAIN calls = 1..Len(calls) /\ \A i \in DOMAIN calls : calls[i] \in Call
  OBVIOUS
<1>2. \A i \in DOMAIN calls : Conversions!Block("tool_use", calls[i].id) \in Part
  <2>1. \A n \in Nat : n \in Ref
    BY DEF Ref
  <2>2. QED
    BY <1>1, <2>1 DEF Conversions!Block, Part, Call
<1>3. \A i \in DOMAIN calls : Conversions!Block("functionCall", calls[i].name) \in Part
  <2>1. \A n \in CalledNames : n \in Ref
    BY DEF Ref
  <2>2. QED
    BY <1>1, <2>1 DEF Conversions!Block, Part, Call
<1>4. Conversions!tool_uses(calls) \in Seq(Part)
  BY <1>1, <1>2 DEF Conversions!tool_uses
<1>5. Conversions!function_calls(calls) \in Seq(Part)
  BY <1>1, <1>3 DEF Conversions!function_calls
<1>6. QED
  BY <1>4, <1>5 DEF Typed, Conversions!tool_uses, Conversions!function_calls, Conversions!Block

LEMMA TypedJoin ==
  ASSUME NEW one, NEW other, NEW a, NEW b, Typed(a, one), Typed(b, other)
  PROVE  Typed(a \o b, one \cup other)
BY DEF Typed

\* What the messages made have in common in both protocols: as many as there
\* are messages that open one, results apart, and results last when a result was.
Gathers(out, s, kind) ==
  /\ out \in Seq(Made) /\ Len(out) = Cardinality(Conversions!Opens(s))
  /\ \A i \in DOMAIN out : (\E j \in DOMAIN out[i].blocks : out[i].blocks[j].type = kind)
                             => \A j \in DOMAIN out[i].blocks : out[i].blocks[j].type = kind
  /\ Conversions!EndsWith(out, kind) <=> s # <<>> /\ s[Len(s)].role = "tool"

LEMMA OpensMore ==
  ASSUME NEW s \in Seq(Conversions!Messages), NEW m \in Conversions!Messages
  PROVE  /\ Cardinality(Conversions!Opens(s)) \in Nat
         /\ Cardinality(Conversions!Opens(Append(s, m))) =
              IF m.role = "tool" /\ s # <<>> /\ s[Len(s)].role = "tool"
              THEN Cardinality(Conversions!Opens(s)) ELSE Cardinality(Conversions!Opens(s)) + 1
<1> DEFINE n == Len(s)
           t == Append(s, m)
           A == Conversions!Opens(s)
           B == Conversions!Opens(t)
<1>1. /\ n \in Nat /\ DOMAIN s = 1..n /\ DOMAIN t = 1..(n + 1) /\ t[n + 1] = m
      /\ \A i \in 1..n : t[i] = s[i]
  OBVIOUS
<1>2. A \subseteq 1..n /\ n + 1 \notin A
  BY <1>1 DEF Conversions!Opens
<1>3. IsFiniteSet(A) /\ Cardinality(A) \in Nat
  <2>1. IsFiniteSet(1..n)
    BY <1>1, FS_Interval
  <2>2. QED
    BY <1>2, <2>1, FS_Subset, FS_CardinalityType
<1>4. \A i \in 1..n : i \in B <=> i \in A
  <2> SUFFICES ASSUME NEW i \in 1..n PROVE i \in B <=> i \in A
    OBVIOUS
  <2>1. i \in DOMAIN s /\ i \in DOMAIN t /\ t[i] = s[i]
    BY <1>1
  <2>2. i > 1 => t[i - 1] = s[i - 1]
    BY <1>1
  <2>3. QED
    BY <2>1, <2>2 DEF Conversions!Opens
<1>5. n + 1 \in B <=> ~(m.role = "tool" /\ s # <<>> /\ s[n].role = "tool")
  <2>1. n + 1 \in DOMAIN t /\ (n + 1 > 1 <=> s # <<>>) /\ (n + 1) - 1 = n
    BY <1>1
  <2>2. s # <<>> => t[n] = s[n]
    <3>1. s # <<>> => n \in 1..n
      OBVIOUS
    <3> HIDE DEF t, n
    <3>2. QED
      BY <1>1, <3>1
  <2>3. n + 1 \in B <=> ~(t[n + 1].role = "tool" /\ n + 1 > 1 /\ t[(n + 1) - 1].role = "tool")
    BY <2>1 DEF Conversions!Opens
  <2>4. t[(n + 1) - 1] = t[n] /\ t[n + 1] = m
    BY <1>1, <2>1
  <2> DEFINE k == n + 1
  <2> HIDE DEF k, t, n, B
  <2>5. QED
    BY <2>1, <2>2, <2>3, <2>4 DEF k
<1>6. B \subseteq 1..(n + 1)
  BY <1>1 DEF Conversions!Opens
<1>10. \A i \in 1..(n + 1) : i \in 1..n \/ i = n + 1
  BY <1>1
<1> HIDE DEF A, B, n, t
<1>7. CASE m.role = "tool" /\ s # <<>> /\ s[n].role = "tool"
  <2>1. B = A
    BY <1>2, <1>4, <1>5, <1>6, <1>7, <1>10
  <2>2. QED
    BY <1>3, <1>7, <2>1 DEF A, B, n, t
<1>8. CASE ~(m.role = "tool" /\ s # <<>> /\ s[n].role = "tool")
  <2>1. B = A \cup {n + 1}
    <3>1. n + 1 \in B
      BY <1>5, <1>8
    <3>2. \A i : i \in B => i \in 1..n \/ i = n + 1
      BY <1>6, <1>10
    <3>3. \A i : i \in A => i \in 1..n
      BY <1>2
    <3>4. \A i : i \in B <=> i \in A \/ i = n + 1
      BY <1>4, <3>1, <3>2, <3>3
    <3>5. QED
      BY <3>4
  <2>2. Cardinality(B) = Cardinality(A) + 1
    BY <1>2, <1>3, <2>1, FS_AddElement
  <2>3. QED
    BY <1>3, <1>8, <2>2 DEF A, B, n, t
<1>9. QED
  BY <1>7, <1>8 DEF n

\* A user or the assistant speaks.
LEMMA SpeechGathers ==
  ASSUME NEW s \in Seq(Conversions!Messages), NEW m \in Conversions!Messages, m.role # "tool",
         NEW out, NEW kind, Gathers(out, s, kind), NEW role \in {"user", "assistant", "model"},
         NEW bs, NEW types, Typed(bs, types), kind \notin types
  PROVE  Gathers(Append(out, Conversions!Message(role, bs)), Append(s, m), kind)
<1> DEFINE made == Conversions!Message(role, bs)
           more == Append(out, made)
           n == Len(out)
<1>1. out \in Seq(Made) /\ made \in Made /\ made.role = role /\ made.blocks = bs
  BY DEF Gathers, Conversions!Message, Made, Typed
<1>2. \A i \in DOMAIN bs : bs[i].type # kind
  BY DEF Typed
<1> HIDE DEF made
<1>3. /\ more \in Seq(Made) /\ n \in Nat /\ Len(more) = n + 1 /\ DOMAIN more = 1..(n + 1) /\ more # <<>>
      /\ more[n + 1] = made /\ \A i \in 1..n : more[i] = out[i]
  BY <1>1
<1> HIDE DEF more
<1>4. Len(more) = Cardinality(Conversions!Opens(Append(s, m)))
  BY <1>3, OpensMore DEF Gathers
<1>5. \A i \in DOMAIN more : (\E j \in DOMAIN more[i].blocks : more[i].blocks[j].type = kind)
                                => \A j \in DOMAIN more[i].blocks : more[i].blocks[j].type = kind
  <2> SUFFICES ASSUME NEW i \in DOMAIN more, \E j \in DOMAIN more[i].blocks : more[i].blocks[j].type = kind
               PROVE  \A j \in DOMAIN more[i].blocks : more[i].blocks[j].type = kind
    OBVIOUS
  <2>1. i # n + 1
    BY <1>1, <1>2, <1>3
  <2>2. i \in 1..n /\ i \in DOMAIN out /\ more[i] = out[i]
    BY <1>1, <1>3, <2>1
  <2>3. QED
    BY <2>2 DEF Gathers
<1>6. ~Conversions!EndsWith(more, kind)
  <2>1. Conversions!Last(more) = made
    BY <1>3 DEF Conversions!Last
  <2>2. bs # <<>> => Len(bs) \in DOMAIN bs
    BY DEF Typed
  <2>3. QED
    BY <1>1, <1>2, <2>1, <2>2 DEF Conversions!EndsWith, Conversions!Last
<1>7. Append(s, m)[Len(Append(s, m))].role # "tool"
  OBVIOUS
<1>8. QED
  BY <1>3, <1>4, <1>5, <1>6, <1>7 DEF Gathers, more, made

\* What AppendResult makes of a last message made of results, and of any other.
LEMMA ResultIs ==
  ASSUME NEW out \in Seq(Made), NEW b \in Part
  PROVE  /\ Conversions!EndsWith(out, b.type) =>
              \E all \in Seq(Made), last \in Made :
                /\ out = Append(all, last) /\ last.blocks # <<>>
                /\ last.blocks[Len(last.blocks)].type = b.type /\ last.role = "user"
                /\ Conversions!AppendResult(out, b) =
                     Append(all, Conversions!Message("user", Append(last.blocks, b)))
         /\ ~Conversions!EndsWith(out, b.type) =>
              Conversions!AppendResult(out, b) = Append(out, Conversions!Message("user", <<b>>))
<1>1. CASE ~Conversions!EndsWith(out, b.type)
  BY <1>1 DEF Conversions!AppendResult
<1>2. CASE Conversions!EndsWith(out, b.type)
  <2> DEFINE n == Len(out)
             all == SubSeq(out, 1, n - 1)
             last == out[n]
  <2>1. /\ n \in Nat /\ n # 0 /\ DOMAIN out = 1..n /\ last \in Made /\ last.role = "user" /\ last.blocks # <<>>
        /\ last.blocks[Len(last.blocks)].type = b.type
    BY <1>2 DEF Conversions!EndsWith, Conversions!Last
  <2>2. all \in Seq(Made) /\ Len(all) = n - 1 /\ out = Append(all, last) /\ \A i \in 1..(n - 1) : all[i] = out[i]
    BY <2>1
  <2>3. last.blocks \in Seq(Part) /\ last = [role |-> "user", blocks |-> last.blocks]
    BY <2>1 DEF Made
  <2>4. Conversions!AppendResult(out, b) = [out EXCEPT ![n].blocks = Append(@, b)]
    BY <1>2 DEF Conversions!AppendResult, Conversions!AddedTo
  <2> DEFINE more == [out EXCEPT ![n].blocks = Append(@, b)]
             made == Conversions!Message("user", Append(last.blocks, b))
  <2>5. made \in Made
    BY <2>3 DEF Conversions!Message, Made
  <2>6. DOMAIN more = 1..n /\ more[n] = made /\ \A i \in 1..(n - 1) : more[i] = out[i]
    <3>1. more[n] = [last EXCEPT !.blocks = Append(@, b)]
      BY <2>1
    <3>2. [last EXCEPT !.blocks = Append(@, b)] = made
      <4> DEFINE bs == last.blocks
                 more1 == Append(bs, b)
      <4>1. last = [role |-> "user", blocks |-> bs]
        BY <2>3
      <4>2. [last EXCEPT !.blocks = Append(@, b)] = [last EXCEPT !.blocks = more1]
        OBVIOUS
      <4> HIDE DEF more1, bs, last
      <4>3. [last EXCEPT !.blocks = more1] = [role |-> "user", blocks |-> more1]
        BY <4>1
      <4>4. QED
        BY <4>2, <4>3 DEF Conversions!Message, more1, bs
    <3>3. QED
      BY <2>1, <3>1, <3>2
  <2>7. more = Append(all, made)
    <3>1. more = [i \in 1..n |-> more[i]]
      BY <2>1
    <3> DEFINE mine == Append(all, made)
    <3> HIDE DEF more, made, all, last
    <3>2. mine = [i \in 1..n |-> mine[i]] /\ mine[n] = made /\ \A i \in 1..(n - 1) : mine[i] = all[i]
      <4> DEFINE k == n - 1
      <4> HIDE DEF n
      <4>1. k \in Nat /\ k + 1 = n
        BY <2>1
      <4> HIDE DEF k
      <4>2. all \in Seq(Made) /\ Len(all) = k
        BY <2>2 DEF k
      <4>3. mine = [i \in 1..(k + 1) |-> mine[i]] /\ mine[k + 1] = made /\ \A i \in 1..k : mine[i] = all[i]
        BY <2>5, <4>1, <4>2, AppendIs
      <4> HIDE DEF mine
      <4>4. QED
        BY <4>1, <4>3 DEF k
    <3>3. \A i \in 1..n : i = n \/ i \in 1..(n - 1)
      <4> HIDE DEF n
      <4>1. QED
        BY <2>1
    <3> HIDE DEF mine
    <3>4. \A i \in 1..n : mine[i] = more[i]
      BY <2>2, <2>6, <3>2, <3>3
    <3>5. QED
      BY <3>1, <3>2, <3>4 DEF mine
  <2> HIDE DEF all, last, more, made
  <2>8. Conversions!AppendResult(out, b) = Append(all, Conversions!Message("user", Append(last.blocks, b)))
    BY <2>4, <2>7 DEF more, made
  <2>9. last \in Made /\ all \in Seq(Made) /\ out = Append(all, last)
    BY <2>1, <2>2
  <2>10. last.blocks # <<>> /\ last.blocks[Len(last.blocks)].type = b.type /\ last.role = "user"
    BY <2>1
  <2>11. QED
    BY <1>2, <2>8, <2>9, <2>10
<1>3. QED
  BY <1>1, <1>2

\* A result of a call comes in.
LEMMA ResultGathers ==
  ASSUME NEW s \in Seq(Conversions!Messages), NEW m \in Conversions!Messages, m.role = "tool",
         NEW out, NEW b \in Part, NEW kind, b.type = kind, Gathers(out, s, kind)
  PROVE  Gathers(Conversions!AppendResult(out, b), Append(s, m), kind)
<1> DEFINE more == Conversions!AppendResult(out, b)
<1>1. out \in Seq(Made)
  BY DEF Gathers
<1>2. \A made \in Made : \A q \in Seq(Made) :
        /\ Append(q, made) \in Seq(Made) /\ Len(Append(q, made)) = Len(q) + 1 /\ Len(q) \in Nat
        /\ Append(q, made)[Len(q) + 1] = made /\ DOMAIN Append(q, made) = 1..(Len(q) + 1)
        /\ \A i \in 1..Len(q) : Append(q, made)[i] = q[i]
  OBVIOUS
<1>3. Append(s, m) # <<>> /\ Append(s, m)[Len(Append(s, m))].role = "tool"
  OBVIOUS
<1>4. CASE Conversions!EndsWith(out, b.type)
  <2>1. PICK all \in Seq(Made), last \in Made :
          /\ out = Append(all, last) /\ last.blocks # <<>>
          /\ last.blocks[Len(last.blocks)].type = b.type /\ last.role = "user"
          /\ more = Append(all, Conversions!Message("user", Append(last.blocks, b)))
    BY <1>1, <1>4, ResultIs
  <2> DEFINE bs == Append(last.blocks, b)
             made == Conversions!Message("user", bs)
             n == Len(all)
  <2>2. last.blocks \in Seq(Part)
    BY DEF Made
  <2>3. bs \in Seq(Part) /\ bs # <<>> /\ Conversions!Last(bs) = b
    BY <2>2 DEF Conversions!Last
  <2>4. \A j \in DOMAIN last.blocks : last.blocks[j].type = kind
    <3>1. n + 1 \in DOMAIN out /\ out[n + 1] = last
      BY <1>2, <2>1
    <3>2. Len(last.blocks) \in DOMAIN last.blocks
      BY <2>1, <2>2
    <3>3. QED
      BY <2>1, <3>1, <3>2 DEF Gathers
  <2>5. \A j \in DOMAIN bs : bs[j].type = kind
    BY <2>2, <2>4
  <2>6. made \in Made /\ made.role = "user" /\ made.blocks = bs
    BY <2>3 DEF Conversions!Message, Made
  <2> HIDE DEF bs, made
  <2>7. /\ more \in Seq(Made) /\ Len(more) = n + 1 /\ n \in Nat /\ more[n + 1] = made /\ more # <<>>
        /\ DOMAIN more = 1..(n + 1) /\ \A i \in 1..n : more[i] = all[i]
    <3>1. more = Append(all, made)
      BY <2>1 DEF bs, made
    <3>2. QED
      BY <1>2, <2>6, <3>1
  <2>8. Len(out) = n + 1 /\ DOMAIN out = 1..(n + 1) /\ \A i \in 1..n : out[i] = all[i]
    BY <1>2, <2>1
  <2> HIDE DEF more
  <2>9. Len(more) = Cardinality(Conversions!Opens(Append(s, m)))
    <3>1. s # <<>> /\ s[Len(s)].role = "tool"
      BY <1>4 DEF Gathers
    <3>2. QED
      BY <2>7, <2>8, <3>1, OpensMore DEF Gathers
  <2>10. \A i \in DOMAIN more : (\E j \in DOMAIN more[i].blocks : more[i].blocks[j].type = kind)
                                  => \A j \in DOMAIN more[i].blocks : more[i].blocks[j].type = kind
    <3> SUFFICES ASSUME NEW i \in DOMAIN more, \E j \in DOMAIN more[i].blocks : more[i].blocks[j].type = kind
                 PROVE  \A j \in DOMAIN more[i].blocks : more[i].blocks[j].type = kind
      OBVIOUS
    <3>1. CASE i = n + 1
      BY <2>5, <2>6, <2>7, <3>1
    <3>2. CASE i # n + 1
      <4>1. i \in 1..n /\ i \in DOMAIN out /\ more[i] = out[i]
        BY <2>7, <2>8, <3>2
      <4>2. QED
        BY <4>1 DEF Gathers
    <3>3. QED
      BY <3>1, <3>2
  <2>11. Conversions!EndsWith(more, kind)
    <3>1. Conversions!Last(more) = made
      BY <2>7 DEF Conversions!Last
    <3>2. QED
      BY <2>3, <2>6, <2>7, <3>1 DEF Conversions!EndsWith
  <2>12. QED
    BY <1>3, <2>7, <2>9, <2>10, <2>11 DEF Gathers, more
<1>5. CASE ~Conversions!EndsWith(out, b.type)
  <2> DEFINE made == Conversions!Message("user", <<b>>)
             n == Len(out)
  <2>1. made \in Made /\ made.role = "user" /\ made.blocks = <<b>>
    BY DEF Conversions!Message, Made
  <2>2. more = Append(out, made)
    BY <1>1, <1>5, ResultIs
  <2> HIDE DEF made
  <2>3. /\ more \in Seq(Made) /\ Len(more) = n + 1 /\ n \in Nat /\ more[n + 1] = made /\ more # <<>>
        /\ DOMAIN more = 1..(n + 1) /\ DOMAIN out = 1..n /\ \A i \in 1..n : more[i] = out[i]
    BY <1>1, <1>2, <2>1, <2>2
  <2> HIDE DEF more
  <2>4. Len(more) = Cardinality(Conversions!Opens(Append(s, m)))
    <3>1. ~(s # <<>> /\ s[Len(s)].role = "tool")
      BY <1>5 DEF Gathers
    <3>2. QED
      BY <2>3, <3>1, OpensMore DEF Gathers
  <2>5. \A i \in DOMAIN more : (\E j \in DOMAIN more[i].blocks : more[i].blocks[j].type = kind)
                                  => \A j \in DOMAIN more[i].blocks : more[i].blocks[j].type = kind
    <3> SUFFICES ASSUME NEW i \in DOMAIN more, \E j \in DOMAIN more[i].blocks : more[i].blocks[j].type = kind
                 PROVE  \A j \in DOMAIN more[i].blocks : more[i].blocks[j].type = kind
      OBVIOUS
    <3>1. CASE i = n + 1
      BY <2>1, <2>3, <3>1
    <3>2. CASE i # n + 1
      <4>1. i \in 1..n /\ i \in DOMAIN out /\ more[i] = out[i]
        BY <2>3, <3>2
      <4>2. QED
        BY <4>1 DEF Gathers
    <3>3. QED
      BY <3>1, <3>2
  <2>6. Conversions!EndsWith(more, kind)
    <3>1. Conversions!Last(more) = made /\ Conversions!Last(<<b>>) = b
      BY <2>3 DEF Conversions!Last
    <3> DEFINE bs == <<b>>
    <3>2. made.blocks = bs /\ bs # <<>> /\ Conversions!Last(bs) = b
      BY <2>1, <3>1
    <3> HIDE DEF bs
    <3>3. QED
      BY <2>1, <2>3, <3>1, <3>2 DEF Conversions!EndsWith
  <2>7. QED
    BY <1>3, <2>3, <2>4, <2>5, <2>6 DEF Gathers, more
<1>6. QED
  BY <1>4, <1>5

\* The blocks of the messages made, in turn.
LEMMA ContentsMore ==
  ASSUME NEW out \in Seq(Made), NEW made \in Made
  PROVE  /\ Conversions!Contents(out) \in Seq(Part)
         /\ Conversions!Contents(Append(out, made)) = Conversions!Contents(out) \o made.blocks
<1> DEFINE t == Append(out, made)
           a == [i \in DOMAIN out |-> out[i].blocks]
           b == [i \in DOMAIN t |-> t[i].blocks]
           n == Len(out)
<1>1. \A x \in Made : x.blocks \in Seq(Part)
  BY DEF Made
<1>2. /\ n \in Nat /\ DOMAIN out = 1..n /\ DOMAIN t = 1..(n + 1) /\ t[n + 1] = made
      /\ \A i \in 1..n : t[i] = out[i] /\ out[i] \in Made
  OBVIOUS
<1> HIDE DEF t
<1>3. a \in Seq(Seq(Part)) /\ Len(a) = n
  BY <1>1, <1>2
<1>4. b = Append(a, made.blocks)
  <2> DEFINE c == Append(a, made.blocks)
  <2>1. c = [i \in 1..(n + 1) |-> c[i]] /\ c[n + 1] = made.blocks /\ \A i \in 1..n : c[i] = a[i]
    BY <1>1, <1>3, AppendIs
  <2>2. \A i \in 1..(n + 1) : i \in 1..n \/ i = n + 1
    BY <1>2
  <2>3. \A i \in 1..n : a[i] = out[i].blocks
    BY <1>2
  <2> HIDE DEF a, c
  <2>4. \A i \in 1..(n + 1) : c[i] = t[i].blocks
    BY <1>2, <2>1, <2>2, <2>3
  <2>5. QED
    BY <1>2, <2>1, <2>4 DEF c
<1>5. Conversions!Contents(out) = Conversions!FlattenSeq(a) /\ Conversions!Contents(t) = Conversions!FlattenSeq(b)
  BY DEF Conversions!Contents
<1> HIDE DEF a, b
<1>6. made.blocks \in Seq(Part)
  BY <1>1
<1> DEFINE bs == made.blocks
<1> HIDE DEF bs
<1>7. Conversions!FlattenSeq(Append(a, bs)) = Conversions!FlattenSeq(a) \o bs /\ Conversions!FlattenSeq(a) \in Seq(Part)
  BY <1>3, <1>6, FlattenStep DEF bs
<1>8. QED
  BY <1>4, <1>5, <1>7 DEF bs, t

LEMMA ContentsResult ==
  ASSUME NEW out \in Seq(Made), NEW b \in Part
  PROVE  /\ Conversions!Contents(Conversions!AppendResult(out, b)) = Append(Conversions!Contents(out), b)
         /\ Conversions!AppendResult(out, b) \in Seq(Made)
<1>1. ASSUME NEW bs \in Seq(Part)
      PROVE  Conversions!Message("user", bs) \in Made /\ Conversions!Message("user", bs).blocks = bs
  BY DEF Conversions!Message, Made
<1>2. CASE Conversions!EndsWith(out, b.type)
  <2>1. PICK all \in Seq(Made), last \in Made :
          /\ out = Append(all, last)
          /\ Conversions!AppendResult(out, b) = Append(all, Conversions!Message("user", Append(last.blocks, b)))
    BY <1>2, ResultIs
  <2> DEFINE bs == Append(last.blocks, b)
             made == Conversions!Message("user", bs)
             c == Conversions!Contents(all)
  <2>2. last.blocks \in Seq(Part)
    BY DEF Made
  <2>3. bs \in Seq(Part)
    BY <2>2
  <2> HIDE DEF bs
  <2>4. made \in Made /\ made.blocks = bs
    BY <1>1, <2>3
  <2> HIDE DEF made
  <2>5. Conversions!Contents(Append(all, made)) = c \o bs /\ c \in Seq(Part)
    BY <2>4, ContentsMore
  <2>6. Conversions!Contents(out) = c \o last.blocks
    BY <2>1, ContentsMore
  <2> HIDE DEF c
  <2>7. c \o bs = Append(c \o last.blocks, b)
    BY <2>2, <2>5 DEF bs
  <2>8. Append(all, made) \in Seq(Made)
    BY <2>4
  <2>9. QED
    BY <2>1, <2>5, <2>6, <2>7, <2>8 DEF made, bs
<1>3. CASE ~Conversions!EndsWith(out, b.type)
  <2> DEFINE made == Conversions!Message("user", <<b>>)
             c == Conversions!Contents(out)
  <2>1. Conversions!AppendResult(out, b) = Append(out, made)
    BY <1>3, ResultIs
  <2>2. made \in Made /\ made.blocks = <<b>>
    <3>1. <<b>> \in Seq(Part)
      OBVIOUS
    <3>2. QED
      BY <1>1, <3>1
  <2> HIDE DEF made
  <2>3. Conversions!Contents(Append(out, made)) = c \o <<b>> /\ c \in Seq(Part)
    BY <2>2, ContentsMore
  <2> HIDE DEF c
  <2>4. c \o <<b>> = Append(c, b)
    BY <2>3
  <2>5. Append(out, made) \in Seq(Made)
    BY <2>2
  <2>6. QED
    BY <2>1, <2>3, <2>4, <2>5 DEF c
<1>4. QED
  BY <1>2, <1>3

\* What the two protocols do with a message.
AnthropicAcc == [out : Seq(Made), system : Seq(Part)]

LEMMA AnthropicMessage ==
  ASSUME NEW acc \in AnthropicAcc, NEW m \in Conversions!Messages, NEW r, r = Conversions!anthropic_message(acc, m)
  PROVE  /\ r \in AnthropicAcc
         /\ m.role = "system" => r.out = acc.out /\ Len(r.system) = Len(acc.system) + 1
         /\ m.role # "system" => r.system = acc.system
         /\ m.role \in {"user", "assistant"} =>
              /\ Typed(Conversions!BlocksOf(m), {"text", "image", "tool_use"})
              /\ r.out = Append(acc.out, Conversions!Message(m.role, Conversions!BlocksOf(m)))
         /\ m.role = "tool" =>
              /\ Conversions!Block("tool_result", m.id) \in Part
              /\ r.out = Conversions!AppendResult(acc.out, Conversions!Block("tool_result", m.id))
<1>1. /\ m.role \in {"user", "system", "assistant", "tool"}
      /\ m.role = "system" => m.parts = <<Conversions!Block("text", "s")>>
      /\ m.role \in {"user", "assistant"} => m.parts \in Seq(Said)
      /\ m.role = "assistant" => m.calls \in Seq(Call)
      /\ m.role = "user" => m.calls = <<>>
      /\ m.role = "tool" => m.id \in Nat
  BY MessageIs
<1>2. acc.out \in Seq(Made) /\ acc.system \in Seq(Part) /\ acc = [out |-> acc.out, system |-> acc.system]
  BY DEF AnthropicAcc
<1>3. CASE m.role = "system"
  <2> DEFINE b == Conversions!Block("text", "s")
             c == Conversions!content_to_text(m.parts)
             sys == acc.system
  <2>1. c = <<b>>
    BY <1>1, <1>3, ContentIs
  <2>2. b \in Part
    BY DEF Conversions!Block, Part, Ref
  <2>3. r = [acc EXCEPT !.system = @ \o c]
    BY <1>3 DEF Conversions!anthropic_message
  <2> HIDE DEF b, c
  <2>4. r.out = acc.out /\ r.system = sys \o <<b>> /\ r = [out |-> acc.out, system |-> sys \o <<b>>]
    BY <1>2, <2>1, <2>3
  <2>5. sys \in Seq(Part)
    BY <1>2
  <2> HIDE DEF sys
  <2>6. sys \o <<b>> \in Seq(Part) /\ Len(sys \o <<b>>) = Len(sys) + 1
    BY <2>2, <2>5
  <2>7. r \in AnthropicAcc
    BY <1>2, <2>4, <2>6 DEF AnthropicAcc
  <2>8. QED
    BY <1>3, <2>4, <2>6, <2>7 DEF sys
<1>4. CASE m.role \in {"user", "assistant"}
  <2> DEFINE bs == Conversions!BlocksOf(m)
             c == Conversions!convert_content(m.parts)
  <2>1. Typed(c, {"text", "image"})
    BY <1>1, <1>4, ContentIs
  <2>2. Conversions!tool_uses(<<>>) = <<>>
    BY DEF Conversions!tool_uses
  <2>3. Typed(bs, {"text", "image", "tool_use"}) /\ (m.role = "user" => bs = c)
    <3> DEFINE u == Conversions!tool_uses(m.calls)
    <3>1. bs = c \o u
      BY <1>4 DEF Conversions!BlocksOf
    <3>2. m.role = "user" => u = <<>>
      BY <1>1, <2>2
    <3>3. Typed(u, {"tool_use"})
      <4>1. CASE m.role = "user"
        <5>1. u = <<>>
          BY <3>2, <4>1
        <5> HIDE DEF u
        <5>2. QED
          BY <5>1 DEF Typed
      <4>2. CASE m.role = "assistant"
        BY <1>1, <4>2, CallBlocks
      <4>3. QED
        BY <1>4, <4>1, <4>2
    <3> HIDE DEF u, bs, c
    <3>4. {"text", "image"} \cup {"tool_use"} = {"text", "image", "tool_use"}
      OBVIOUS
    <3>5. Typed(c \o u, {"text", "image"} \cup {"tool_use"})
      BY <2>1, <3>3, TypedJoin
    <3>6. m.role = "user" => c \o u = c
      BY <2>1, <3>2 DEF Typed
    <3>7. QED
      BY <3>1, <3>4, <3>5, <3>6
  <2>4. r = [acc EXCEPT !.out = Append(@, Conversions!Message(m.role, bs))]
    BY <1>4, <2>3 DEF Conversions!anthropic_message, Conversions!BlocksOf
  <2> HIDE DEF bs, c
  <2> DEFINE made == Conversions!Message(m.role, bs)
  <2>5. made \in Made
    BY <1>4, <2>3 DEF Conversions!Message, Made, Typed
  <2> HIDE DEF made
  <2>6. r.out = Append(acc.out, made) /\ r.system = acc.system
        /\ r = [out |-> Append(acc.out, made), system |-> acc.system]
    BY <1>2, <2>4 DEF made
  <2>7. Append(acc.out, made) \in Seq(Made)
    BY <1>2, <2>5
  <2>8. r \in AnthropicAcc
    BY <1>2, <2>6, <2>7 DEF AnthropicAcc
  <2>9. QED
    BY <1>4, <2>3, <2>6, <2>8 DEF made, bs
<1>5. CASE m.role = "tool"
  <2> DEFINE b == Conversions!Block("tool_result", m.id)
             more == Conversions!AppendResult(acc.out, b)
  <2>1. b \in Part
    <3>1. \A n \in Nat : n \in Ref
      BY DEF Ref
    <3>2. QED
      BY <1>1, <1>5, <3>1 DEF Conversions!Block, Part
  <2>2. r = [acc EXCEPT !.out = Conversions!AppendResult(@, b)]
    BY <1>5 DEF Conversions!anthropic_message
  <2> HIDE DEF b
  <2>3. r = [acc EXCEPT !.out = more]
    BY <2>2
  <2>4. more \in Seq(Made)
    BY <1>2, <2>1, ContentsResult
  <2> HIDE DEF more
  <2>5. r = [out |-> more, system |-> acc.system] /\ r.out = more /\ r.system = acc.system
    BY <1>2, <2>3
  <2>6. r \in AnthropicAcc
    BY <1>2, <2>4, <2>5 DEF AnthropicAcc
  <2>7. QED
    BY <1>5, <2>1, <2>5, <2>6 DEF more, b
<1>6. QED
  BY <1>1, <1>3, <1>4, <1>5

AnthropicFold == [acc \in AnthropicAcc |-> [m \in Conversions!Messages |-> Conversions!anthropic_message(acc, m)]]
AnthropicStart == [out |-> <<>>, system |-> <<>>]

LEMMA AnthropicFolds ==
  /\ Folds(AnthropicFold, AnthropicAcc, Conversions!Messages, AnthropicStart)
  /\ \A acc \in AnthropicAcc, m \in Conversions!Messages :
       AnthropicFold[acc][m] = Conversions!anthropic_message(acc, m)
<1>1. \A acc \in AnthropicAcc, m \in Conversions!Messages : Conversions!anthropic_message(acc, m) \in AnthropicAcc
  BY AnthropicMessage
<1>2. AnthropicStart \in AnthropicAcc
  BY DEF AnthropicStart, AnthropicAcc
<1>3. QED
  BY <1>1, <1>2 DEF Folds, AnthropicFold

LEMMA AnthropicRun ==
  ASSUME NEW s \in Seq(Conversions!Messages)
  PROVE  Conversions!convert_messages(s) = Run(AnthropicFold, AnthropicStart, s)
<1> DEFINE g == AnthropicFold
           X == Conversions!Messages
           Eq(f) == f = [u \in SUBSET DOMAIN s |->
                           IF u = {} THEN AnthropicStart
                           ELSE Conversions!anthropic_message(f[u \ {Highest(u)}], s[Highest(u)])]
           f == CHOOSE f1 : Eq(f1)
<1>1. /\ Folds(g, AnthropicAcc, X, AnthropicStart)
      /\ \A x \in AnthropicAcc, y \in X : g[x][y] = Conversions!anthropic_message(x, y)
  BY AnthropicFolds
<1>2. Conversions!convert_messages(s) = f[DOMAIN s]
  BY DEF Conversions!convert_messages, Conversions!FoldLeft, Conversions!MapThenFoldSet, Conversions!Max, Highest,
         AnthropicStart
<1> HIDE DEF g, X
<1>3. Eq(f)
  <2>1. PICK h : Valued(h, g, AnthropicAcc, X, AnthropicStart, s)
    BY <1>1, RunValues DEF X
  <2>2. Eq(h)
    BY <1>1, <2>1 DEF Valued
  <2>3. QED
    BY <2>2
<1> HIDE DEF f
<1>4. f[{}] = AnthropicStart
  BY <1>3
<1>5. ASSUME NEW k \in 0..(Len(s) - 1), f[1..k] \in AnthropicAcc PROVE f[1..(k + 1)] = g[f[1..k]][s[k + 1]]
  <2>1. 1..(k + 1) \in SUBSET DOMAIN s /\ k \in Nat /\ s[k + 1] \in X
    BY DEF X
  <2>2. Highest(1..(k + 1)) = k + 1 /\ 1..(k + 1) \ {k + 1} = 1..k /\ 1..(k + 1) # {}
    BY <2>1, HighestOfAll
  <2>3. f[1..(k + 1)] = Conversions!anthropic_message(f[1..k], s[k + 1])
    BY <1>3, <2>1, <2>2
  <2>4. QED
    BY <1>1, <1>5, <2>1, <2>3
<1>6. QED
  BY <1>1, <1>2, <1>4, <1>5, RunFrom DEF g, X

LEMMA AnthropicMore ==
  /\ Conversions!convert_messages(<<>>) = AnthropicStart
  /\ \A s \in Seq(Conversions!Messages) : Conversions!convert_messages(s) \in AnthropicAcc
  /\ \A s \in Seq(Conversions!Messages), m \in Conversions!Messages :
       Conversions!convert_messages(Append(s, m)) = Conversions!anthropic_message(Conversions!convert_messages(s), m)
<1> DEFINE g == AnthropicFold
           b == AnthropicStart
           X == Conversions!Messages
           T == AnthropicAcc
<1>1. <<>> \in Seq(X) /\ \A s \in Seq(X), m \in X : Append(s, m) \in Seq(X)
  OBVIOUS
<1>2. \A s \in Seq(X) : Conversions!convert_messages(s) = Run(g, b, s)
  BY AnthropicRun
<1>3. Folds(g, T, X, b) /\ \A acc \in T, m \in X : g[acc][m] = Conversions!anthropic_message(acc, m)
  BY AnthropicFolds
<1> HIDE DEF g, b, X, T
<1>4. /\ Run(g, b, <<>>) = b /\ \A s \in Seq(X) : Run(g, b, s) \in T
      /\ \A s \in Seq(X), x \in X : Run(g, b, Append(s, x)) = g[Run(g, b, s)][x]
  BY <1>3, RunStep
<1>5. ASSUME NEW s \in Seq(X), NEW m \in X
      PROVE  Conversions!convert_messages(Append(s, m)) = Conversions!anthropic_message(Conversions!convert_messages(s), m)
  <2>1. Run(g, b, Append(s, m)) = g[Run(g, b, s)][m] /\ Run(g, b, s) \in T
    BY <1>4
  <2>2. g[Run(g, b, s)][m] = Conversions!anthropic_message(Run(g, b, s), m)
    BY <1>3, <2>1
  <2>3. QED
    BY <1>1, <1>2, <2>1, <2>2
<1>6. QED
  BY <1>1, <1>2, <1>4, <1>5 DEF g, b, X, T

\* Names of calls: the last one with an id.
NamesOf(calls, id) == {c.name : c \in {x \in Conversions!ToSet(calls) : x.id = id}}
NamingFold == [n \in Names |-> [c \in Call |-> Conversions!Insert(n, c.id, c.name)]]

LEMMA InsertIs ==
  ASSUME NEW names \in Names, NEW c \in Call
  PROVE  /\ Conversions!Insert(names, c.id, c.name) \in Names
         /\ DOMAIN Conversions!Insert(names, c.id, c.name) = DOMAIN names \cup {c.id}
         /\ Conversions!Insert(names, c.id, c.name)[c.id] = c.name
         /\ \A id \in DOMAIN names : id # c.id => Conversions!Insert(names, c.id, c.name)[id] = names[id]
<1>1. PICK D \in SUBSET Nat : names \in [D -> CalledNames]
  BY DEF Names
<1>2. c.id \in Nat /\ c.name \in CalledNames
  BY DEF Call
<1> DEFINE E == D \cup {c.id}
           r == Conversions!Insert(names, c.id, c.name)
<1>3. r = [i \in E |-> IF i = c.id THEN c.name ELSE names[i]]
  BY <1>1 DEF Conversions!Insert
<1>4. E \in SUBSET Nat /\ c.id \in E /\ \A i \in E : i # c.id => i \in D /\ names[i] \in CalledNames
  BY <1>1, <1>2
<1>5. \A i \in D : i \in E
  OBVIOUS
<1>6. DOMAIN names = D
  BY <1>1
<1> HIDE DEF r
<1>7. r \in [E -> CalledNames] /\ DOMAIN r = E
  BY <1>2, <1>3, <1>4
<1>8. r \in Names
  <2> HIDE DEF E
  <2>1. QED
    BY <1>4, <1>7 DEF Names
<1>9. r[c.id] = c.name /\ \A i \in D : i # c.id => r[i] = names[i]
  BY <1>3, <1>4, <1>5
<1>10. QED
  BY <1>6, <1>7, <1>8, <1>9 DEF r

LEMMA NamingFolds ==
  ASSUME NEW base \in Names
  PROVE  /\ Folds(NamingFold, Names, Call, base)
         /\ \A n \in Names, c \in Call : NamingFold[n][c] = Conversions!Insert(n, c.id, c.name)
<1>1. \A n \in Names, c \in Call : Conversions!Insert(n, c.id, c.name) \in Names
  BY InsertIs
<1>2. QED
  BY <1>1 DEF Folds, NamingFold

LEMMA NamingRun ==
  ASSUME NEW base \in Names, NEW s \in Seq(Call)
  PROVE  Conversions!Named(base, s) = Run(NamingFold, base, s)
<1> DEFINE g == NamingFold
           X == Call
           Eq(f) == f = [u \in SUBSET DOMAIN s |->
                           IF u = {} THEN base
                           ELSE Conversions!Insert(f[u \ {Highest(u)}], s[Highest(u)].id, s[Highest(u)].name)]
           f == CHOOSE f1 : Eq(f1)
<1>1. /\ Folds(g, Names, X, base)
      /\ \A x \in Names, y \in X : g[x][y] = Conversions!Insert(x, y.id, y.name)
  BY NamingFolds
<1>2. Conversions!Named(base, s) = f[DOMAIN s]
  BY DEF Conversions!Named, Conversions!FoldLeft, Conversions!MapThenFoldSet, Conversions!Max, Highest
<1> HIDE DEF g, X
<1>3. Eq(f)
  <2>1. PICK h : Valued(h, g, Names, X, base, s)
    BY <1>1, RunValues DEF X
  <2>2. Eq(h)
    BY <1>1, <2>1 DEF Valued
  <2>3. QED
    BY <2>2
<1> HIDE DEF f
<1>4. f[{}] = base
  BY <1>3
<1>5. ASSUME NEW k \in 0..(Len(s) - 1), f[1..k] \in Names PROVE f[1..(k + 1)] = g[f[1..k]][s[k + 1]]
  <2>1. 1..(k + 1) \in SUBSET DOMAIN s /\ k \in Nat /\ s[k + 1] \in X
    BY DEF X
  <2>2. Highest(1..(k + 1)) = k + 1 /\ 1..(k + 1) \ {k + 1} = 1..k /\ 1..(k + 1) # {}
    BY <2>1, HighestOfAll
  <2>3. f[1..(k + 1)] = Conversions!Insert(f[1..k], s[k + 1].id, s[k + 1].name)
    BY <1>3, <2>1, <2>2
  <2>4. QED
    BY <1>1, <1>5, <2>1, <2>3
<1>6. QED
  BY <1>1, <1>2, <1>4, <1>5, RunFrom DEF g, X

\* After the calls of a turn an id that one of them has stands for its function.
NamesWell(names, calls) ==
  /\ names \in Names
  /\ \A id \in Nat : NamesOf(calls, id) # {} => id \in DOMAIN names /\ names[id] \in NamesOf(calls, id)

LEMMA NamedWell ==
  ASSUME NEW base \in Names, NEW calls \in Seq(Call)
  PROVE  NamesWell(Conversions!Named(base, calls), calls)
<1> DEFINE g == NamingFold
           K == {s \in Seq(Call) : NamesWell(Run(g, base, s), s)}
<1>1. Folds(g, Names, Call, base) /\ \A n \in Names, c \in Call : g[n][c] = Conversions!Insert(n, c.id, c.name)
  BY NamingFolds
<1> HIDE DEF g
<1>2. /\ Run(g, base, <<>>) = base /\ \A s \in Seq(Call) : Run(g, base, s) \in Names
      /\ \A s \in Seq(Call), x \in Call : Run(g, base, Append(s, x)) = g[Run(g, base, s)][x]
  BY <1>1, RunStep
<1>3. <<>> \in K
  <2>1. \A id \in Nat : NamesOf(<<>>, id) = {}
    BY DEF NamesOf, Conversions!ToSet
  <2>2. QED
    BY <1>2, <2>1 DEF NamesWell
<1>4. \A s \in Seq(Call), x \in Call : s \in K => Append(s, x) \in K
  <2> SUFFICES ASSUME NEW s \in Seq(Call), NEW x \in Call, NamesWell(Run(g, base, s), s)
               PROVE  Append(s, x) \in Seq(Call) /\ NamesWell(Run(g, base, Append(s, x)), Append(s, x))
    OBVIOUS
  <2> DEFINE n == Run(g, base, s)
             r == Conversions!Insert(n, x.id, x.name)
             t == Append(s, x)
  <2>1. n \in Names /\ Run(g, base, t) = r
    BY <1>1, <1>2
  <2>2. /\ r \in Names /\ DOMAIN r = DOMAIN n \cup {x.id} /\ r[x.id] = x.name
        /\ \A id \in DOMAIN n : id # x.id => r[id] = n[id]
    BY <2>1, InsertIs
  <2>3. t \in Seq(Call) /\ Conversions!ToSet(t) = Conversions!ToSet(s) \cup {x}
    <3> DEFINE k == Len(s)
    <3>1. /\ k \in Nat /\ DOMAIN s = 1..k /\ DOMAIN t = 1..(k + 1) /\ t[k + 1] = x
          /\ \A i \in 1..k : t[i] = s[i]
      OBVIOUS
    <3>2. t \in Seq(Call)
      OBVIOUS
    <3> HIDE DEF t, k
    <3>3. \A i \in 1..(k + 1) : i \in 1..k \/ i = k + 1
      BY <3>1
    <3>4. \A i \in 1..k : i \in 1..(k + 1)
      BY <3>1
    <3>5. k + 1 \in 1..(k + 1)
      BY <3>1
    <3>6. {t[i] : i \in 1..(k + 1)} = {s[i] : i \in 1..k} \cup {x}
      BY <3>1, <3>3, <3>4, <3>5
    <3>7. QED
      BY <3>1, <3>2, <3>6 DEF Conversions!ToSet
  <2> HIDE DEF t, r, n
  <2>4. ASSUME NEW id \in Nat, NamesOf(t, id) # {} PROVE id \in DOMAIN r /\ r[id] \in NamesOf(t, id)
    <3>1. CASE id = x.id
      <4>1. x.name \in NamesOf(t, id)
        BY <2>3, <3>1 DEF NamesOf
      <4>2. QED
        BY <2>2, <3>1, <4>1
    <3>2. CASE id # x.id
      <4>1. NamesOf(t, id) = NamesOf(s, id)
        BY <2>3, <3>2 DEF NamesOf
      <4>2. id \in DOMAIN n /\ n[id] \in NamesOf(s, id)
        BY <2>4, <4>1 DEF NamesWell, n
      <4>3. QED
        BY <2>2, <3>2, <4>1, <4>2
    <3>3. QED
      BY <3>1, <3>2
  <2>5. NamesWell(r, t)
    BY <2>2, <2>4 DEF NamesWell
  <2>6. QED
    BY <2>1, <2>3, <2>5 DEF t
<1> HIDE DEF K
<1>5. calls \in K
  BY <1>3, <1>4, SequencesAll
<1>6. NamesWell(Run(g, base, calls), calls)
  BY <1>5 DEF K
<1>7. QED
  BY <1>6, NamingRun DEF g

GeminiAcc == [out : Seq(Made), system : Seq(Part), names : Names]

\* ensure_nonempty_parts keeps what there is.
LEMMA EnsuredParts ==
  ASSUME NEW bs, NEW types, Typed(bs, types), "text" \in types
  PROVE  /\ Typed(Conversions!ensure_nonempty_parts(bs), types)
         /\ Conversions!ensure_nonempty_parts(bs) # <<>>
<1>1. CASE bs = <<>>
  <2> DEFINE b == Conversions!Block("text", "")
  <2>1. b \in Part /\ b.type = "text"
    BY DEF Conversions!Block, Part, Ref
  <2> HIDE DEF b
  <2>2. <<b>> \in Seq(Part) /\ <<b>> # <<>> /\ \A i \in DOMAIN <<b>> : <<b>>[i].type = "text"
    BY <2>1
  <2>3. Conversions!ensure_nonempty_parts(bs) = <<b>>
    BY <1>1 DEF Conversions!ensure_nonempty_parts, b
  <2> DEFINE q == <<b>>
  <2> HIDE DEF q
  <2>4. q \in Seq(Part) /\ q # <<>> /\ \A i \in DOMAIN q : q[i].type \in types
    BY <2>2 DEF q
  <2>5. Typed(q, types) /\ q # <<>>
    BY <2>4 DEF Typed
  <2>6. QED
    BY <2>3, <2>5 DEF q
<1>2. CASE bs # <<>>
  BY <1>2 DEF Conversions!ensure_nonempty_parts
<1>3. QED
  BY <1>1, <1>2

LEMMA GeminiMessage ==
  ASSUME NEW acc \in GeminiAcc, NEW m \in Conversions!Messages, NEW r, r = Conversions!gemini_message(acc, m)
  PROVE  /\ r \in GeminiAcc
         /\ m.role = "system" => r.out = acc.out
         /\ m.role # "assistant" => r.names = acc.names
         /\ m.role = "assistant" => NamesWell(r.names, m.calls)
         /\ m.role \in {"user", "assistant"} =>
              \E made \in Made :
                /\ made.role \in {"user", "model"}
                /\ Typed(made.blocks, {"text", "image", "functionCall"}) /\ made.blocks # <<>>
                /\ r.out = Append(acc.out, made)
         /\ m.role = "tool" =>
              \E b \in Part :
                /\ b.type = "functionResponse" /\ r.out = Conversions!AppendResult(acc.out, b)
                /\ m.id \in DOMAIN acc.names => b.ref = acc.names[m.id]
<1>1. /\ m.role \in {"user", "system", "assistant", "tool"} /\ m.name = None
      /\ m.role = "system" => m.parts = <<Conversions!Block("text", "s")>>
      /\ m.role \in {"user", "assistant"} => m.parts \in Seq(Said)
      /\ m.role = "assistant" => m.calls \in Seq(Call)
      /\ m.role = "tool" => m.id \in Nat
  BY MessageIs
<1>2. /\ acc.out \in Seq(Made) /\ acc.system \in Seq(Part) /\ acc.names \in Names
      /\ acc = [out |-> acc.out, system |-> acc.system, names |-> acc.names]
  BY DEF GeminiAcc
<1>3. CASE m.role = "system"
  <2> DEFINE b == Conversions!Block("text", "s")
             c == Conversions!content_to_text(m.parts)
             sys == acc.system
             more == sys \o <<b>>
  <2>1. c = <<b>>
    BY <1>1, <1>3, ContentIs
  <2>2. b \in Part
    BY DEF Conversions!Block, Part, Ref
  <2>3. r = [acc EXCEPT !.system = @ \o c]
    BY <1>3 DEF Conversions!gemini_message
  <2> HIDE DEF b, c
  <2>4. more \in Seq(Part)
    BY <1>2, <2>2
  <2>5. r = [acc EXCEPT !.system = more]
    BY <2>1, <2>3
  <2> HIDE DEF more, sys
  <2>6. r.out = acc.out /\ r.names = acc.names /\ r = [out |-> acc.out, system |-> more, names |-> acc.names]
    BY <1>2, <2>5
  <2>7. r \in GeminiAcc
    BY <1>2, <2>4, <2>6 DEF GeminiAcc
  <2>8. QED
    BY <1>3, <2>6, <2>7
<1>4. CASE m.role = "user"
  <2> DEFINE c == Conversions!convert_content(m.parts)
             bs == Conversions!ensure_nonempty_parts(c)
             made == Conversions!Message("user", bs)
             more == Append(acc.out, made)
  <2>1. Typed(c, {"text", "image"})
    BY <1>1, <1>4, ContentIs
  <2>2. r = [acc EXCEPT !.out = more]
    BY <1>4 DEF Conversions!gemini_message
  <2> HIDE DEF c
  <2>3. Typed(c, {"text", "image", "functionCall"})
    BY <2>1 DEF Typed
  <2>4. Typed(bs, {"text", "image", "functionCall"}) /\ bs # <<>>
    BY <2>3, EnsuredParts
  <2> HIDE DEF bs
  <2>5. made \in Made
    BY <2>4 DEF Conversions!Message, Made, Typed
  <2> HIDE DEF made
  <2>6. more \in Seq(Made)
    BY <1>2, <2>5
  <2> HIDE DEF more
  <2>8. r.out = more /\ r.names = acc.names /\ r = [out |-> more, system |-> acc.system, names |-> acc.names]
    BY <1>2, <2>2
  <2>9. r \in GeminiAcc
    BY <1>2, <2>6, <2>8 DEF GeminiAcc
  <2>10. \E q \in Made :
           /\ q.role \in {"user", "model"} /\ Typed(q.blocks, {"text", "image", "functionCall"})
           /\ q.blocks # <<>> /\ r.out = Append(acc.out, q)
    <3>1. made.role = "user" /\ made.blocks = bs
      BY DEF made, Conversions!Message
    <3>2. r.out = Append(acc.out, made)
      BY <2>8 DEF more
    <3>3. QED
      BY <2>4, <2>5, <3>1, <3>2
  <2>11. QED
    BY <1>4, <2>8, <2>9, <2>10
<1>5. CASE m.role = "assistant"
  <2> DEFINE c == Conversions!convert_content(m.parts)
             u == Conversions!function_calls(m.calls)
             bs == Conversions!ensure_nonempty_parts(c \o u)
             made == Conversions!Message("model", bs)
             more == Append(acc.out, made)
             names == Conversions!Named(acc.names, m.calls)
  <2>1. Typed(c, {"text", "image"}) /\ Typed(u, {"functionCall"})
    BY <1>1, <1>5, ContentIs, CallBlocks
  <2>2. r = [acc EXCEPT !.names = names, !.out = more]
    BY <1>5 DEF Conversions!gemini_message
  <2>3. NamesWell(names, m.calls)
    BY <1>1, <1>2, <1>5, NamedWell
  <2> HIDE DEF c, u, names
  <2>4. Typed(c \o u, {"text", "image", "functionCall"})
    <3>1. {"text", "image"} \cup {"functionCall"} = {"text", "image", "functionCall"}
      OBVIOUS
    <3>2. Typed(c \o u, {"text", "image"} \cup {"functionCall"})
      BY <2>1, TypedJoin
    <3>3. QED
      BY <3>1, <3>2
  <2>5. Typed(bs, {"text", "image", "functionCall"}) /\ bs # <<>>
    <3> DEFINE cu == c \o u
    <3> HIDE DEF cu
    <3>1. Typed(cu, {"text", "image", "functionCall"})
      BY <2>4 DEF cu
    <3>2. QED
      BY <3>1, EnsuredParts DEF cu
  <2> HIDE DEF bs
  <2>6. made \in Made
    BY <2>5 DEF Conversions!Message, Made, Typed
  <2> HIDE DEF made
  <2>7. more \in Seq(Made)
    BY <1>2, <2>6
  <2> HIDE DEF more
  <2>9. r.out = more /\ r.names = names /\ r = [out |-> more, system |-> acc.system, names |-> names]
    BY <1>2, <2>2
  <2>10. r \in GeminiAcc
    BY <1>2, <2>3, <2>7, <2>9 DEF GeminiAcc, NamesWell
  <2>11. \E q \in Made :
           /\ q.role \in {"user", "model"} /\ Typed(q.blocks, {"text", "image", "functionCall"})
           /\ q.blocks # <<>> /\ r.out = Append(acc.out, q)
    <3>1. made.role = "model" /\ made.blocks = bs
      BY DEF made, Conversions!Message
    <3>2. r.out = Append(acc.out, made)
      BY <2>9 DEF more
    <3>3. QED
      BY <2>5, <2>6, <3>1, <3>2
  <2>12. QED
    BY <1>5, <2>3, <2>9, <2>10, <2>11
<1>6. CASE m.role = "tool"
  <2> DEFINE name == Conversions!response_name(acc, m)
             b == Conversions!Block("functionResponse", name)
             more == Conversions!AppendResult(acc.out, b)
  <2>1. name = IF m.id \in DOMAIN acc.names THEN acc.names[m.id] ELSE ""
    BY <1>1 DEF Conversions!response_name
  <2>2. m.id \in DOMAIN acc.names => acc.names[m.id] \in CalledNames
    BY <1>2 DEF Names
  <2> HIDE DEF name
  <2>3. name \in Ref
    BY <2>1, <2>2 DEF Ref
  <2>4. b \in Part /\ b.type = "functionResponse" /\ b.ref = name
    BY <2>3 DEF Conversions!Block, Part
  <2>5. r = [acc EXCEPT !.out = more]
    BY <1>6 DEF Conversions!gemini_message, name
  <2> HIDE DEF b
  <2>6. more \in Seq(Made)
    BY <1>2, <2>4, ContentsResult
  <2>7. more = Conversions!AppendResult(acc.out, b)
    OBVIOUS
  <2> HIDE DEF more
  <2>8. r.out = more /\ r.names = acc.names /\ r = [out |-> more, system |-> acc.system, names |-> acc.names]
    BY <1>2, <2>5
  <2>9. r \in GeminiAcc
    BY <1>2, <2>6, <2>8 DEF GeminiAcc
  <2>10. QED
    BY <1>6, <2>1, <2>4, <2>7, <2>8, <2>9
<1>7. QED
  BY <1>1, <1>3, <1>4, <1>5, <1>6

GeminiFold == [acc \in GeminiAcc |-> [m \in Conversions!Messages |-> Conversions!gemini_message(acc, m)]]
GeminiStart == [out |-> <<>>, system |-> <<>>, names |-> <<>>]

LEMMA GeminiFolds ==
  /\ Folds(GeminiFold, GeminiAcc, Conversions!Messages, GeminiStart)
  /\ \A acc \in GeminiAcc, m \in Conversions!Messages :
       GeminiFold[acc][m] = Conversions!gemini_message(acc, m)
<1>1. \A acc \in GeminiAcc, m \in Conversions!Messages : Conversions!gemini_message(acc, m) \in GeminiAcc
  BY GeminiMessage
<1>2. GeminiStart \in GeminiAcc
  <2>1. <<>> \in [{} -> CalledNames] /\ {} \in SUBSET Nat
    OBVIOUS
  <2>2. <<>> \in Names
    BY <2>1 DEF Names
  <2>3. QED
    BY <2>2 DEF GeminiStart, GeminiAcc
<1>3. QED
  BY <1>1, <1>2 DEF Folds, GeminiFold

LEMMA GeminiRun ==
  ASSUME NEW s \in Seq(Conversions!Messages)
  PROVE  Conversions!convert_contents(s) = Run(GeminiFold, GeminiStart, s)
<1> DEFINE g == GeminiFold
           X == Conversions!Messages
           Eq(f) == f = [u \in SUBSET DOMAIN s |->
                           IF u = {} THEN GeminiStart
                           ELSE Conversions!gemini_message(f[u \ {Highest(u)}], s[Highest(u)])]
           f == CHOOSE f1 : Eq(f1)
<1>1. /\ Folds(g, GeminiAcc, X, GeminiStart)
      /\ \A x \in GeminiAcc, y \in X : g[x][y] = Conversions!gemini_message(x, y)
  BY GeminiFolds
<1>2. Conversions!convert_contents(s) = f[DOMAIN s]
  BY DEF Conversions!convert_contents, Conversions!FoldLeft, Conversions!MapThenFoldSet, Conversions!Max, Highest,
         GeminiStart
<1> HIDE DEF g, X
<1>3. Eq(f)
  <2>1. PICK h : Valued(h, g, GeminiAcc, X, GeminiStart, s)
    BY <1>1, RunValues DEF X
  <2>2. Eq(h)
    BY <1>1, <2>1 DEF Valued
  <2>3. QED
    BY <2>2
<1> HIDE DEF f
<1>4. f[{}] = GeminiStart
  BY <1>3
<1>5. ASSUME NEW k \in 0..(Len(s) - 1), f[1..k] \in GeminiAcc PROVE f[1..(k + 1)] = g[f[1..k]][s[k + 1]]
  <2>1. 1..(k + 1) \in SUBSET DOMAIN s /\ k \in Nat /\ s[k + 1] \in X
    BY DEF X
  <2>2. Highest(1..(k + 1)) = k + 1 /\ 1..(k + 1) \ {k + 1} = 1..k /\ 1..(k + 1) # {}
    BY <2>1, HighestOfAll
  <2>3. f[1..(k + 1)] = Conversions!gemini_message(f[1..k], s[k + 1])
    BY <1>3, <2>1, <2>2
  <2>4. QED
    BY <1>1, <1>5, <2>1, <2>3
<1>6. QED
  BY <1>1, <1>2, <1>4, <1>5, RunFrom DEF g, X

LEMMA GeminiMore ==
  /\ Conversions!convert_contents(<<>>) = GeminiStart
  /\ \A s \in Seq(Conversions!Messages) : Conversions!convert_contents(s) \in GeminiAcc
  /\ \A s \in Seq(Conversions!Messages), m \in Conversions!Messages :
       Conversions!convert_contents(Append(s, m)) = Conversions!gemini_message(Conversions!convert_contents(s), m)
<1> DEFINE g == GeminiFold
           b == GeminiStart
           X == Conversions!Messages
           T == GeminiAcc
<1>1. <<>> \in Seq(X) /\ \A s \in Seq(X), m \in X : Append(s, m) \in Seq(X)
  OBVIOUS
<1>2. \A s \in Seq(X) : Conversions!convert_contents(s) = Run(g, b, s)
  BY GeminiRun
<1>3. Folds(g, T, X, b) /\ \A acc \in T, m \in X : g[acc][m] = Conversions!gemini_message(acc, m)
  BY GeminiFolds
<1> HIDE DEF g, b, X, T
<1>4. /\ Run(g, b, <<>>) = b /\ \A s \in Seq(X) : Run(g, b, s) \in T
      /\ \A s \in Seq(X), x \in X : Run(g, b, Append(s, x)) = g[Run(g, b, s)][x]
  BY <1>3, RunStep
<1>5. ASSUME NEW s \in Seq(X), NEW m \in X
      PROVE  Conversions!convert_contents(Append(s, m)) = Conversions!gemini_message(Conversions!convert_contents(s), m)
  <2>1. Run(g, b, Append(s, m)) = g[Run(g, b, s)][m] /\ Run(g, b, s) \in T
    BY <1>4
  <2>2. g[Run(g, b, s)][m] = Conversions!gemini_message(Run(g, b, s), m)
    BY <1>3, <2>1
  <2>3. QED
    BY <1>1, <1>2, <2>1, <2>2
<1>6. QED
  BY <1>1, <1>2, <1>4, <1>5 DEF g, b, X, T

\* What is said in a conversation, as it grows.
LEMMA SpokenMore ==
  ASSUME NEW q \in Seq(Conversions!Messages), NEW m \in Conversions!Messages
  PROVE  /\ Conversions!Spoken(q) \in Seq(Conversions!Messages)
         /\ m.role = "system" => Conversions!Spoken(Append(q, m)) = Conversions!Spoken(q)
         /\ m.role # "system" => Conversions!Spoken(Append(q, m)) = Append(Conversions!Spoken(q), m)
<1> DEFINE X == Conversions!Messages
           S == {x \in X : x.role # "system"}
<1>1. m \in S <=> m.role # "system"
  OBVIOUS
<1>2. q \in Seq(X) /\ m \in X /\ \A t \in Seq(X) : Conversions!Spoken(t) = Conversions!Among(t, S)
  BY DEF Conversions!Spoken
<1>3. Append(q, m) \in Seq(X)
  OBVIOUS
<1> HIDE DEF X, S
<1>4. /\ Conversions!Among(q, S) \in Seq(X)
      /\ m \in S => Conversions!Among(Append(q, m), S) = Append(Conversions!Among(q, S), m)
      /\ m \notin S => Conversions!Among(Append(q, m), S) = Conversions!Among(q, S)
  BY <1>2, AmongMore
<1>5. QED
  BY <1>1, <1>2, <1>3, <1>4 DEF X

LEMMA SpokenNone == Conversions!Spoken(<<>>) = <<>>
BY AmongStep DEF Conversions!Spoken

Blocks(s) == [i \in DOMAIN s |-> Conversions!BlocksOf(s[i])]

LEMMA BlocksMore ==
  ASSUME NEW s \in Seq(Conversions!Messages), NEW m \in Conversions!Messages
  PROVE  /\ Conversions!BlocksOf(m) \in Seq(Part) \/ m.role = "system"
         /\ Conversions!FlattenSeq(Blocks(<<>>)) = <<>>
         /\ (\A i \in DOMAIN s : s[i].role # "system") /\ m.role # "system"
              => Conversions!FlattenSeq(Blocks(Append(s, m)))
                   = Conversions!FlattenSeq(Blocks(s)) \o Conversions!BlocksOf(m)
<1> DEFINE t == Append(s, m)
           a == Blocks(s)
           b == Blocks(t)
           n == Len(s)
<1>1. \A x \in Conversions!Messages : x.role # "system" => Conversions!BlocksOf(x) \in Seq(Part)
  <2> SUFFICES ASSUME NEW x \in Conversions!Messages, x.role # "system" PROVE Conversions!BlocksOf(x) \in Seq(Part)
    OBVIOUS
  <2>1. AnthropicStart \in AnthropicAcc
    BY AnthropicFolds DEF Folds
  <2>2. x.role \in {"user", "assistant", "tool"}
    BY MessageIs
  <2>3. CASE x.role \in {"user", "assistant"}
    <3>1. Typed(Conversions!BlocksOf(x), {"text", "image", "tool_use"})
      BY <2>1, <2>3, AnthropicMessage
    <3>2. QED
      BY <3>1 DEF Typed
  <2>4. CASE x.role = "tool"
    <3>1. Conversions!Block("tool_result", x.id) \in Part
      BY <2>1, <2>4, AnthropicMessage
    <3>2. QED
      BY <2>4, <3>1 DEF Conversions!BlocksOf
  <2>5. QED
    BY <2>2, <2>3, <2>4
<1>2. Conversions!FlattenSeq(Blocks(<<>>)) = <<>>
  <2>1. Blocks(<<>>) = <<>>
    BY DEF Blocks
  <2>2. QED
    BY <2>1, FlattenStep
<1>3. ASSUME \A i \in DOMAIN s : s[i].role # "system", m.role # "system"
      PROVE  Conversions!FlattenSeq(b) = Conversions!FlattenSeq(a) \o Conversions!BlocksOf(m)
  <2> DEFINE c == Conversions!BlocksOf(m)
  <2>1. /\ n \in Nat /\ DOMAIN s = 1..n /\ DOMAIN t = 1..(n + 1) /\ t[n + 1] = m
        /\ \A i \in 1..n : t[i] = s[i] /\ s[i] \in Conversions!Messages
    OBVIOUS
  <2>2. c \in Seq(Part)
    BY <1>1, <1>3
  <2> HIDE DEF t
  <2>3. a \in Seq(Seq(Part)) /\ Len(a) = n
    <3>1. \A i \in 1..n : Conversions!BlocksOf(s[i]) \in Seq(Part)
      BY <1>1, <1>3, <2>1
    <3> DEFINE e == [i \in 1..n |-> Conversions!BlocksOf(s[i])]
    <3>2. e \in [1..n -> Seq(Part)]
      BY <3>1
    <3>3. a = e
      BY <2>1 DEF Blocks
    <3> HIDE DEF e, a
    <3>4. QED
      BY <2>1, <3>2, <3>3
  <2>4. /\ b = [i \in 1..(n + 1) |-> Conversions!BlocksOf(t[i])]
        /\ a = [i \in 1..n |-> Conversions!BlocksOf(s[i])]
    BY <2>1 DEF Blocks
  <2>5. \A i \in 1..(n + 1) : b[i] = IF i \in 1..n THEN a[i] ELSE c
    BY <2>1, <2>4
  <2> HIDE DEF a, c
  <2>6. b = Append(a, c)
    <3>1. Append(a, c) = [i \in 1..(n + 1) |-> Append(a, c)[i]]
      BY <2>2, <2>3, AppendIs
    <3>2. \A i \in 1..(n + 1) : Append(a, c)[i] = IF i \in 1..n THEN a[i] ELSE c
      BY <2>1, <2>2, <2>3, AppendIs
    <3> DEFINE d == Append(a, c)
    <3>3. /\ d = [i \in 1..(n + 1) |-> d[i]] /\ b = [i \in 1..(n + 1) |-> b[i]]
          /\ \A i \in 1..(n + 1) : d[i] = b[i]
      BY <2>4, <2>5, <3>1, <3>2
    <3> HIDE DEF d, b
    <3>4. b = d
      BY <3>3
    <3>5. QED
      BY <3>4 DEF d
  <2> HIDE DEF b
  <2>7. Conversions!FlattenSeq(Append(a, c)) = Conversions!FlattenSeq(a) \o c
    BY <2>2, <2>3, FlattenStep
  <2>8. QED
    BY <2>6, <2>7 DEF c
<1>4. QED
  BY <1>1, <1>2, <1>3

SpeechOnly(s) == s \in Seq(Conversions!Messages) /\ \A i \in DOMAIN s : s[i].role # "system"

LEMMA SpeechMore ==
  ASSUME NEW s, SpeechOnly(s), NEW m \in Conversions!Messages, m.role # "system"
  PROVE  SpeechOnly(Append(s, m))
BY DEF SpeechOnly

LEMMA NoneGathered ==
  ASSUME NEW kind
  PROVE  Gathers(<<>>, <<>>, kind) /\ Conversions!Contents(<<>>) = <<>>
<1>1. Conversions!Opens(<<>>) = {} /\ ~Conversions!EndsWith(<<>>, kind)
  BY DEF Conversions!Opens, Conversions!EndsWith
<1>2. Cardinality(Conversions!Opens(<<>>)) = 0
  BY <1>1, FS_EmptySet
<1>3. Gathers(<<>>, <<>>, kind)
  BY <1>1, <1>2 DEF Gathers
<1>4. Conversions!Contents(<<>>) = <<>>
  <2>1. [i \in DOMAIN <<>> |-> <<>>[i].blocks] = <<>>
    OBVIOUS
  <2>2. QED
    BY <2>1, FlattenStep DEF Conversions!Contents
<1>5. QED
  BY <1>3, <1>4

\* What anthropic.rs makes of a conversation, said and apart.
AnthropicRight(q, s, a) ==
  /\ SpeechOnly(s) /\ a \in AnthropicAcc
  /\ Gathers(a.out, s, "tool_result")
  /\ Conversions!Contents(a.out) = Conversions!FlattenSeq(Blocks(s))
  /\ Len(a.system) = Len(q) - Len(s)

LEMMA AnthropicStep ==
  ASSUME NEW q \in Seq(Conversions!Messages), NEW m \in Conversions!Messages, NEW s, NEW a, AnthropicRight(q, s, a)
  PROVE  AnthropicRight(Append(q, m), IF m.role = "system" THEN s ELSE Append(s, m),
                        Conversions!anthropic_message(a, m))
<1> DEFINE r == Conversions!anthropic_message(a, m)
           p == Append(q, m)
           t == Append(s, m)
           bs == Conversions!BlocksOf(m)
<1>1. /\ r \in AnthropicAcc
      /\ m.role = "system" => r.out = a.out /\ Len(r.system) = Len(a.system) + 1
      /\ m.role # "system" => r.system = a.system
      /\ m.role \in {"user", "assistant"} =>
           /\ Typed(bs, {"text", "image", "tool_use"})
           /\ r.out = Append(a.out, Conversions!Message(m.role, bs))
      /\ m.role = "tool" =>
           /\ Conversions!Block("tool_result", m.id) \in Part
           /\ r.out = Conversions!AppendResult(a.out, Conversions!Block("tool_result", m.id))
  BY AnthropicMessage DEF AnthropicRight
<1>2. /\ SpeechOnly(s) /\ s \in Seq(Conversions!Messages) /\ a.out \in Seq(Made)
      /\ Gathers(a.out, s, "tool_result") /\ Conversions!Contents(a.out) = Conversions!FlattenSeq(Blocks(s))
      /\ Len(a.system) = Len(q) - Len(s) /\ Len(s) \in Nat /\ Len(q) \in Nat
  BY DEF AnthropicRight, SpeechOnly, Gathers
<1>3. Len(p) = Len(q) + 1 /\ Len(t) = Len(s) + 1
  BY <1>2
<1>4. m.role \in {"user", "system", "assistant", "tool"}
  BY MessageIs
<1> HIDE DEF r, p, t
<1>5. CASE m.role = "system"
  BY <1>1, <1>2, <1>3, <1>5 DEF AnthropicRight, r, p
<1>6. ASSUME m.role # "system"
      PROVE  SpeechOnly(t) /\ Conversions!FlattenSeq(Blocks(t)) = Conversions!Contents(a.out) \o bs
             /\ Len(r.system) = Len(p) - Len(t)
  <2>1. SpeechOnly(t)
    BY <1>2, <1>6, SpeechMore DEF t
  <2>2. \A i \in DOMAIN s : s[i].role # "system"
    BY <1>2 DEF SpeechOnly
  <2>3. Conversions!FlattenSeq(Blocks(t)) = Conversions!FlattenSeq(Blocks(s)) \o bs
    BY <1>2, <1>6, <2>2, BlocksMore DEF t
  <2>4. Len(r.system) = Len(p) - Len(t)
    <3>1. r.system = a.system
      BY <1>1, <1>6
    <3> DEFINE n == Len(a.system)
    <3>2. n = Len(q) - Len(s) /\ Len(r.system) = n
      BY <1>2, <3>1
    <3> HIDE DEF n
    <3>3. QED
      BY <1>2, <1>3, <3>2
  <2> HIDE DEF bs
  <2>5. QED
    BY <1>2, <2>1, <2>3, <2>4
<1>7. CASE m.role \in {"user", "assistant"}
  <2> DEFINE made == Conversions!Message(m.role, bs)
  <2> HIDE DEF bs
  <2>1. Typed(bs, {"text", "image", "tool_use"}) /\ r.out = Append(a.out, made)
    BY <1>1, <1>7
  <2>2. made \in Made /\ made.blocks = bs
    BY <1>7, <2>1 DEF Typed, Made, Conversions!Message
  <2>3. Gathers(r.out, t, "tool_result")
    <3>1. Gathers(Append(a.out, made), Append(s, m), "tool_result")
      BY <1>2, <1>7, <2>1, SpeechGathers
    <3>2. QED
      BY <2>1, <3>1 DEF t
  <2> HIDE DEF made
  <2>4. Conversions!Contents(r.out) = Conversions!Contents(a.out) \o bs
    BY <1>2, <2>1, <2>2, ContentsMore
  <2>5. QED
    BY <1>1, <1>6, <1>7, <2>3, <2>4 DEF AnthropicRight, r, p, t
<1>8. CASE m.role = "tool"
  <2> DEFINE b == Conversions!Block("tool_result", m.id)
  <2>1. b \in Part /\ r.out = Conversions!AppendResult(a.out, b)
    BY <1>1, <1>8
  <2>2. bs = <<b>> /\ b.type = "tool_result"
    BY <1>8 DEF Conversions!BlocksOf, Conversions!Block
  <2> HIDE DEF b, bs
  <2>3. Gathers(r.out, t, "tool_result")
    BY <1>2, <1>8, <2>1, <2>2, ResultGathers DEF t
  <2>4. Conversions!Contents(r.out) = Append(Conversions!Contents(a.out), b)
    BY <1>2, <2>1, ContentsResult
  <2>5. Conversions!Contents(a.out) \in Seq(Part)
    <3>1. Conversions!Message("user", <<b>>) \in Made
      BY <2>1 DEF Conversions!Message, Made
    <3>2. QED
      BY <1>2, <3>1, ContentsMore
  <2>6. Append(Conversions!Contents(a.out), b) = Conversions!Contents(a.out) \o bs
    BY <2>1, <2>2, <2>5
  <2>7. QED
    BY <1>1, <1>6, <1>8, <2>3, <2>4, <2>6 DEF AnthropicRight, r, p, t
<1>9. QED
  BY <1>4, <1>5, <1>7, <1>8 DEF t

LEMMA AnthropicAll ==
  ASSUME NEW q \in Seq(Conversions!Messages)
  PROVE  AnthropicRight(q, Conversions!Spoken(q), Conversions!convert_messages(q))
<1> DEFINE X == Conversions!Messages
           K == {p \in Seq(X) : AnthropicRight(p, Conversions!Spoken(p), Conversions!convert_messages(p))}
<1>1. <<>> \in K
  <2>1. Conversions!Contents(<<>>) = Conversions!FlattenSeq(Blocks(<<>>))
    <3>1. Blocks(<<>>) = <<>>
      BY DEF Blocks
    <3>2. QED
      BY <3>1, NoneGathered, FlattenStep
  <2>2. SpeechOnly(<<>>) /\ Gathers(<<>>, <<>>, "tool_result") /\ Len(<<>>) = 0
    BY NoneGathered DEF SpeechOnly
  <2>3. AnthropicStart \in AnthropicAcc /\ AnthropicStart.out = <<>> /\ AnthropicStart.system = <<>>
    BY AnthropicFolds DEF Folds, AnthropicStart
  <2>4. AnthropicRight(<<>>, <<>>, AnthropicStart)
    BY <2>1, <2>2, <2>3 DEF AnthropicRight
  <2>5. QED
    BY <2>4, SpokenNone, AnthropicMore
<1>2. \A p \in Seq(X), m \in X : p \in K => Append(p, m) \in K
  <2> SUFFICES ASSUME NEW p \in Seq(X), NEW m \in X,
                      AnthropicRight(p, Conversions!Spoken(p), Conversions!convert_messages(p))
               PROVE  /\ Append(p, m) \in Seq(X)
                      /\ AnthropicRight(Append(p, m), Conversions!Spoken(Append(p, m)),
                                        Conversions!convert_messages(Append(p, m)))
    OBVIOUS
  <2>1. Append(p, m) \in Seq(X)
    OBVIOUS
  <2>2. Conversions!Spoken(Append(p, m)) =
          IF m.role = "system" THEN Conversions!Spoken(p) ELSE Append(Conversions!Spoken(p), m)
    BY SpokenMore
  <2>3. Conversions!convert_messages(Append(p, m)) =
          Conversions!anthropic_message(Conversions!convert_messages(p), m)
    BY AnthropicMore
  <2>4. AnthropicRight(Append(p, m),
                       IF m.role = "system" THEN Conversions!Spoken(p) ELSE Append(Conversions!Spoken(p), m),
                       Conversions!anthropic_message(Conversions!convert_messages(p), m))
    BY AnthropicStep
  <2>5. QED
    BY <2>1, <2>2, <2>3, <2>4
<1> HIDE DEF K
<1>3. q \in K
  BY <1>1, <1>2, SequencesAll
<1>4. QED
  BY <1>3 DEF K

\* The tool results of a conversation, and the names they answer to.
LEMMA ToolsMore ==
  ASSUME NEW s \in Seq(Conversions!Messages), NEW m \in Conversions!Messages
  PROVE  /\ Conversions!Tools(s) \in Seq(Nat)
         /\ \A n \in DOMAIN Conversions!Tools(s) : Conversions!Tools(s)[n] \in DOMAIN s
         /\ m.role = "tool" => Conversions!Tools(Append(s, m)) = Append(Conversions!Tools(s), Len(s) + 1)
         /\ m.role # "tool" => Conversions!Tools(Append(s, m)) = Conversions!Tools(s)
<1> DEFINE t == Append(s, m)
           n == Len(s)
           a == [i \in DOMAIN s |-> i]
           b == [i \in DOMAIN t |-> i]
           S == {i \in DOMAIN s : s[i].role = "tool"}
           T == {i \in DOMAIN t : t[i].role = "tool"}
<1>1. /\ n \in Nat /\ DOMAIN s = 1..n /\ DOMAIN t = 1..(n + 1) /\ t[n + 1] = m
      /\ \A i \in 1..n : t[i] = s[i]
  OBVIOUS
<1>2. Conversions!Tools(s) = Conversions!Among(a, S) /\ Conversions!Tools(t) = Conversions!Among(b, T)
  BY DEF Conversions!Tools
<1> HIDE DEF t
<1>3. a \in Seq(Nat) /\ DOMAIN a = 1..n /\ Len(a) = n /\ \A i \in 1..n : a[i] = i
  BY <1>1
<1>4. b = Append(a, n + 1)
  <2> DEFINE c == Append(a, n + 1)
  <2>1. c = [i \in 1..(n + 1) |-> c[i]] /\ c[n + 1] = n + 1 /\ \A i \in 1..n : c[i] = a[i]
    BY <1>1, <1>3, AppendIs
  <2>2. \A i \in 1..(n + 1) : i \in 1..n \/ i = n + 1
    BY <1>1
  <2> HIDE DEF a, c
  <2>3. \A i \in 1..(n + 1) : c[i] = i
    BY <1>3, <2>1, <2>2
  <2>4. QED
    BY <1>1, <2>1, <2>3 DEF c
<1>5. \A i \in 1..n : i \in S <=> i \in T
  BY <1>1
<1>6. n + 1 \in T <=> m.role = "tool"
  BY <1>1
<1>7. S \subseteq 1..n
  BY <1>1
<1> HIDE DEF a, b, S, T
<1>8. Conversions!Among(a, S) = Conversions!Among(a, T)
  BY <1>3, <1>5, AmongLocal
<1> DEFINE last == n + 1
<1>9. last \in Nat
  BY <1>1
<1> HIDE DEF last
<1>10. /\ Conversions!Among(a, T) \in Seq(Nat)
       /\ last \in T => Conversions!Among(Append(a, last), T) = Append(Conversions!Among(a, T), last)
       /\ last \notin T => Conversions!Among(Append(a, last), T) = Conversions!Among(a, T)
  BY <1>3, <1>9, AmongMore
<1>11. \A i \in DOMAIN Conversions!Among(a, S) : Conversions!Among(a, S)[i] \in S
  BY <1>3, AmongOf
<1>12. \A i \in DOMAIN Conversions!Tools(s) : Conversions!Tools(s)[i] \in DOMAIN s
  BY <1>1, <1>2, <1>7, <1>11
<1>13. QED
  BY <1>2, <1>4, <1>6, <1>8, <1>10, <1>12 DEF last, t

LEMMA CallNamesIs ==
  ASSUME NEW s, NEW i
  PROVE  \A name : name \in Conversions!CallNames(s, i)
                     <=> \E j \in Conversions!Turn(s, i) : name \in NamesOf(s[j].calls, s[i].id)
<1>1. Conversions!CallNames(s, i) = UNION {NamesOf(s[j].calls, s[i].id) : j \in Conversions!Turn(s, i)}
  BY DEF Conversions!CallNames, NamesOf
<1>2. QED
  BY <1>1

LEMMA CallNamesMore ==
  ASSUME NEW s \in Seq(Conversions!Messages), NEW m \in Conversions!Messages, NEW i \in DOMAIN s
  PROVE  Conversions!CallNames(Append(s, m), i) = Conversions!CallNames(s, i)
<1> DEFINE t == Append(s, m)
           n == Len(s)
<1>1. n \in Nat /\ i \in 1..n /\ \A k \in 1..n : t[k] = s[k]
  OBVIOUS
<1> HIDE DEF t, n
<1>2. \A j \in 1..(i - 1) : t[j] = s[j]
  BY <1>1
<1>3. \A j \in 1..(i - 1) : \A k \in (j + 1)..(i - 1) : t[k] = s[k]
  BY <1>1
<1>4. Conversions!Turn(t, i) = Conversions!Turn(s, i)
  BY <1>2, <1>3 DEF Conversions!Turn
<1>5. \A j \in Conversions!Turn(s, i) : t[j] = s[j]
  BY <1>2 DEF Conversions!Turn
<1>6. t[i] = s[i]
  BY <1>1
<1>7. \A name : name \in Conversions!CallNames(t, i) <=> name \in Conversions!CallNames(s, i)
  <2>1. \A name : name \in Conversions!CallNames(t, i)
                     <=> \E j \in Conversions!Turn(t, i) : name \in NamesOf(t[j].calls, t[i].id)
    BY CallNamesIs
  <2>2. \A name : name \in Conversions!CallNames(s, i)
                     <=> \E j \in Conversions!Turn(s, i) : name \in NamesOf(s[j].calls, s[i].id)
    BY CallNamesIs
  <2>3. QED
    BY <1>4, <1>5, <1>6, <2>1, <2>2
<1>8. QED
  BY <1>7 DEF t

Response == {p \in Part : p.type = "functionResponse"}

LEMMA ResponsesMore ==
  ASSUME NEW out \in Seq(Made)
  PROVE  /\ Conversions!Contents(out) \in Seq(Part)
         /\ Conversions!Responses(out) = Conversions!Among(Conversions!Contents(out), Response)
         /\ Conversions!Responses(out) \in Seq(Part)
<1> DEFINE c == Conversions!Contents(out)
           S == {p \in Conversions!ToSet(c) : p.type \in {"functionResponse"}}
<1>1. c \in Seq(Part)
  <2>1. Conversions!Message("user", <<>>) \in Made
    BY DEF Conversions!Message, Made
  <2>2. QED
    BY <2>1, ContentsMore
<1>2. Conversions!Responses(out) = Conversions!Among(c, S)
  BY DEF Conversions!Responses, Conversions!OfType
<1> HIDE DEF c
<1>3. \A i \in DOMAIN c : c[i] \in S <=> c[i] \in Response
  BY <1>1 DEF Conversions!ToSet, Response
<1> HIDE DEF S
<1>4. Conversions!Among(c, S) = Conversions!Among(c, Response)
  BY <1>1, <1>3, AmongLocal
<1>5. Conversions!Among(c, Response) \in Seq(Part)
  BY <1>1, AmongOf
<1>6. QED
  BY <1>1, <1>2, <1>4, <1>5 DEF c

LEMMA ResponsesSpeech ==
  ASSUME NEW out \in Seq(Made), NEW made \in Made, \A i \in DOMAIN made.blocks : made.blocks[i].type # "functionResponse"
  PROVE  Append(out, made) \in Seq(Made) /\ Conversions!Responses(Append(out, made)) = Conversions!Responses(out)
<1> DEFINE c == Conversions!Contents(out)
           bs == made.blocks
           more == Append(out, made)
<1>1. c \in Seq(Part) /\ Conversions!Contents(more) = c \o bs
  BY ContentsMore
<1>2. bs \in Seq(Part) /\ \A i \in DOMAIN bs : bs[i] \notin Response
  BY DEF Made, Response
<1>3. more \in Seq(Made)
  OBVIOUS
<1> HIDE DEF more, bs, c
<1>4. Conversions!Among(c \o bs, Response) = Conversions!Among(c, Response)
  BY <1>1, <1>2, AmongNone
<1>5. QED
  BY <1>1, <1>3, <1>4, ResponsesMore DEF more, c

LEMMA ResponsesResult ==
  ASSUME NEW out \in Seq(Made), NEW b \in Part, b.type = "functionResponse"
  PROVE  /\ Conversions!AppendResult(out, b) \in Seq(Made)
         /\ Conversions!Responses(Conversions!AppendResult(out, b)) = Append(Conversions!Responses(out), b)
<1> DEFINE c == Conversions!Contents(out)
           more == Conversions!AppendResult(out, b)
<1>1. Conversions!Contents(more) = Append(c, b) /\ more \in Seq(Made)
  BY ContentsResult
<1>2. c \in Seq(Part)
  BY ResponsesMore
<1>3. b \in Response
  BY DEF Response
<1> HIDE DEF more, c
<1>4. Conversions!Among(Append(c, b), Response) = Append(Conversions!Among(c, Response), b)
  BY <1>2, <1>3, AmongMore
<1>5. QED
  BY <1>1, <1>4, ResponsesMore DEF more, c

\* The names after a turn of the assistant and the results that follow it.
TurnsNamed(names, s) ==
  \A j \in DOMAIN s :
    s[j].role = "assistant" /\ (\A k \in (j + 1)..Len(s) : s[k].role = "tool") => NamesWell(names, s[j].calls)

LEMMA TurnsMore ==
  ASSUME NEW s \in Seq(Conversions!Messages), NEW m \in Conversions!Messages, NEW names, NEW after,
         TurnsNamed(names, s), m.role = "tool" => after = names,
         m.role = "assistant" => NamesWell(after, m.calls)
  PROVE  TurnsNamed(after, Append(s, m))
<1> DEFINE t == Append(s, m)
           n == Len(s)
<1>1. /\ n \in Nat /\ DOMAIN s = 1..n /\ DOMAIN t = 1..(n + 1) /\ Len(t) = n + 1 /\ t[n + 1] = m
      /\ \A i \in 1..n : t[i] = s[i]
  OBVIOUS
<1> HIDE DEF t, n
<1>2. SUFFICES ASSUME NEW j \in DOMAIN t, t[j].role = "assistant",
                      \A k \in (j + 1)..(n + 1) : t[k].role = "tool"
               PROVE  NamesWell(after, t[j].calls)
  BY <1>1 DEF TurnsNamed, t
<1>3. CASE j = n + 1
  BY <1>1, <1>2, <1>3
<1>4. CASE j \in 1..n
  <2>1. n + 1 \in (j + 1)..(n + 1)
    BY <1>1, <1>4
  <2>2. m.role = "tool"
    BY <1>1, <1>2, <2>1
  <2>3. \A k \in (j + 1)..n : k \in (j + 1)..(n + 1) /\ k \in 1..n
    BY <1>1, <1>4
  <2>4. s[j].role = "assistant" /\ \A k \in (j + 1)..n : s[k].role = "tool"
    BY <1>1, <1>2, <1>4, <2>3
  <2>5. NamesWell(names, s[j].calls)
    BY <1>1, <1>4, <2>4 DEF TurnsNamed, n
  <2>6. QED
    BY <1>1, <1>4, <2>2, <2>5
<1>5. QED
  BY <1>1, <1>3, <1>4

LEMMA TurnsAnswer ==
  ASSUME NEW s \in Seq(Conversions!Messages), NEW m \in Conversions!Messages, m.role = "tool", NEW names,
         TurnsNamed(names, s), Conversions!CallNames(Append(s, m), Len(s) + 1) # {}
  PROVE  m.id \in DOMAIN names /\ names[m.id] \in Conversions!CallNames(Append(s, m), Len(s) + 1)
<1> DEFINE t == Append(s, m)
           n == Len(s)
           i == n + 1
<1>1. /\ n \in Nat /\ DOMAIN s = 1..n /\ t[i] = m /\ \A k \in 1..n : t[k] = s[k]
  OBVIOUS
<1>2. m.id \in Nat
  BY MessageIs
<1>3. Conversions!CallNames(t, i) # {}
  OBVIOUS
<1>4. i - 1 = n
  BY <1>1
<1> HIDE DEF t, n, i
<1>5. PICK j \in Conversions!Turn(t, i) : NamesOf(t[j].calls, t[i].id) # {}
  BY <1>3, CallNamesIs
<1>6. j \in 1..n /\ t[j].role = "assistant" /\ \A k \in (j + 1)..n : t[k].role = "tool"
  BY <1>4, <1>5 DEF Conversions!Turn
<1>7. \A k \in (j + 1)..n : k \in 1..n
  BY <1>1, <1>6
<1>8. s[j].role = "assistant" /\ \A k \in (j + 1)..n : s[k].role = "tool"
  BY <1>1, <1>6, <1>7
<1>9. NamesWell(names, s[j].calls) /\ t[j] = s[j]
  BY <1>1, <1>6, <1>8 DEF TurnsNamed, n
<1>10. m.id \in DOMAIN names /\ names[m.id] \in NamesOf(t[j].calls, t[i].id)
  BY <1>1, <1>2, <1>5, <1>9 DEF NamesWell
<1>11. names[m.id] \in Conversions!CallNames(t, i)
  BY <1>5, <1>10, CallNamesIs
<1>12. QED
  BY <1>10, <1>11 DEF t, i, n

\* Results are named by the calls they answer.
Answered(s, tools, responses) ==
  /\ Len(responses) = Len(tools)
  /\ \A n \in DOMAIN tools : Conversions!CallNames(s, tools[n]) # {}
                               => responses[n].ref \in Conversions!CallNames(s, tools[n])

LEMMA AnsweredSame ==
  ASSUME NEW s \in Seq(Conversions!Messages), NEW m \in Conversions!Messages, NEW tools, NEW responses,
         Answered(s, tools, responses), \A n \in DOMAIN tools : tools[n] \in DOMAIN s
  PROVE  Answered(Append(s, m), tools, responses)
<1>1. \A n \in DOMAIN tools : Conversions!CallNames(Append(s, m), tools[n]) = Conversions!CallNames(s, tools[n])
  BY CallNamesMore
<1>2. QED
  BY <1>1 DEF Answered

LEMMA AnsweredMore ==
  ASSUME NEW s, NEW tools \in Seq(Nat), NEW responses \in Seq(Part), NEW i \in Nat, NEW b \in Part,
         Answered(s, tools, responses),
         Conversions!CallNames(s, i) # {} => b.ref \in Conversions!CallNames(s, i)
  PROVE  Answered(s, Append(tools, i), Append(responses, b))
<1> DEFINE n == Len(tools)
           t == Append(tools, i)
           r == Append(responses, b)
<1>1. n \in Nat /\ Len(responses) = n /\ DOMAIN tools = 1..n /\ DOMAIN responses = 1..n
  BY DEF Answered
<1>2. /\ Len(t) = n + 1 /\ DOMAIN t = 1..(n + 1) /\ t[n + 1] = i /\ \A k \in 1..n : t[k] = tools[k]
      /\ Len(r) = n + 1 /\ r[n + 1] = b /\ \A k \in 1..n : r[k] = responses[k]
  BY <1>1, AppendIs
<1>3. \A k \in 1..(n + 1) : k \in 1..n \/ k = n + 1
  BY <1>1
<1> HIDE DEF t, r, n
<1>4. ASSUME NEW k \in DOMAIN t, Conversions!CallNames(s, t[k]) # {}
      PROVE  r[k].ref \in Conversions!CallNames(s, t[k])
  <2>1. CASE k = n + 1
    BY <1>2, <1>4, <2>1
  <2>2. CASE k \in 1..n
    BY <1>1, <1>2, <1>4, <2>2 DEF Answered
  <2>3. QED
    BY <1>2, <1>3, <2>1, <2>2
<1>5. QED
  BY <1>2, <1>4 DEF Answered, t, r

\* What gemini.rs makes of a conversation.
GeminiRight(s, a) ==
  /\ SpeechOnly(s) /\ a \in GeminiAcc
  /\ Gathers(a.out, s, "functionResponse")
  /\ \A i \in DOMAIN a.out : a.out[i].blocks # <<>>
  /\ TurnsNamed(a.names, s)
  /\ Answered(s, Conversions!Tools(s), Conversions!Responses(a.out))

LEMMA PartsAppended ==
  ASSUME NEW out \in Seq(Made), \A i \in DOMAIN out : out[i].blocks # <<>>, NEW made \in Made, made.blocks # <<>>
  PROVE  \A i \in DOMAIN Append(out, made) : Append(out, made)[i].blocks # <<>>
<1> DEFINE t == Append(out, made)
           n == Len(out)
<1>1. /\ n \in Nat /\ DOMAIN out = 1..n /\ DOMAIN t = 1..(n + 1) /\ t[n + 1] = made
      /\ \A i \in 1..n : t[i] = out[i]
  OBVIOUS
<1>2. \A i \in 1..(n + 1) : i \in 1..n \/ i = n + 1
  BY <1>1
<1> HIDE DEF t, n
<1>3. \A i \in DOMAIN t : t[i].blocks # <<>>
  BY <1>1, <1>2
<1>4. QED
  BY <1>3 DEF t

LEMMA PartsResult ==
  ASSUME NEW out \in Seq(Made), \A i \in DOMAIN out : out[i].blocks # <<>>, NEW b \in Part
  PROVE  \A i \in DOMAIN Conversions!AppendResult(out, b) : Conversions!AppendResult(out, b)[i].blocks # <<>>
<1>1. ASSUME NEW bs \in Seq(Part)
      PROVE  /\ Conversions!Message("user", Append(bs, b)) \in Made
             /\ Conversions!Message("user", Append(bs, b)).blocks # <<>>
  <2> DEFINE c == Append(bs, b)
  <2>1. c \in Seq(Part) /\ c # <<>>
    OBVIOUS
  <2> HIDE DEF c
  <2>2. QED
    BY <2>1 DEF Conversions!Message, Made, c
<1>2. CASE Conversions!EndsWith(out, b.type)
  <2>1. PICK all \in Seq(Made), last \in Made :
          /\ out = Append(all, last)
          /\ Conversions!AppendResult(out, b) = Append(all, Conversions!Message("user", Append(last.blocks, b)))
    BY <1>2, ResultIs
  <2>2. \A i \in DOMAIN all : all[i].blocks # <<>>
    <3> SUFFICES ASSUME NEW i \in DOMAIN all PROVE all[i].blocks # <<>>
      OBVIOUS
    <3>1. i \in DOMAIN out /\ out[i] = all[i]
      BY <2>1
    <3>2. QED
      BY <3>1
  <2>3. last.blocks \in Seq(Part)
    BY DEF Made
  <2> DEFINE made == Conversions!Message("user", Append(last.blocks, b))
  <2>4. made \in Made /\ made.blocks # <<>>
    BY <1>1, <2>3
  <2> HIDE DEF made
  <2>5. \A i \in DOMAIN Append(all, made) : Append(all, made)[i].blocks # <<>>
    BY <2>2, <2>4, PartsAppended
  <2>6. QED
    BY <2>1, <2>5 DEF made
<1>3. CASE ~Conversions!EndsWith(out, b.type)
  <2> DEFINE e == <<>>
             made == Conversions!Message("user", Append(e, b))
  <2>1. e \in Seq(Part) /\ Append(e, b) = <<b>>
    OBVIOUS
  <2>2. Conversions!AppendResult(out, b) = Append(out, made)
    BY <1>3, <2>1, ResultIs
  <2>3. made \in Made /\ made.blocks # <<>>
    BY <1>1, <2>1
  <2> HIDE DEF made
  <2>4. \A i \in DOMAIN Append(out, made) : Append(out, made)[i].blocks # <<>>
    BY <2>3, PartsAppended
  <2>5. QED
    BY <2>2, <2>4
<1>4. QED
  BY <1>2, <1>3

LEMMA GeminiStep ==
  ASSUME NEW m \in Conversions!Messages, NEW s, NEW a, GeminiRight(s, a)
  PROVE  GeminiRight(IF m.role = "system" THEN s ELSE Append(s, m), Conversions!gemini_message(a, m))
<1> DEFINE r == Conversions!gemini_message(a, m)
           t == Append(s, m)
           tools == Conversions!Tools(s)
           responses == Conversions!Responses(a.out)
<1>1. /\ r \in GeminiAcc
      /\ m.role = "system" => r.out = a.out
      /\ m.role # "assistant" => r.names = a.names
      /\ m.role = "assistant" => NamesWell(r.names, m.calls)
      /\ m.role \in {"user", "assistant"} =>
           \E made \in Made :
             /\ made.role \in {"user", "model"}
             /\ Typed(made.blocks, {"text", "image", "functionCall"}) /\ made.blocks # <<>>
             /\ r.out = Append(a.out, made)
      /\ m.role = "tool" =>
           \E b \in Part :
             /\ b.type = "functionResponse" /\ r.out = Conversions!AppendResult(a.out, b)
             /\ m.id \in DOMAIN a.names => b.ref = a.names[m.id]
  BY GeminiMessage DEF GeminiRight
<1>2. /\ SpeechOnly(s) /\ s \in Seq(Conversions!Messages) /\ a.out \in Seq(Made) /\ a \in GeminiAcc
      /\ Gathers(a.out, s, "functionResponse") /\ \A i \in DOMAIN a.out : a.out[i].blocks # <<>>
      /\ TurnsNamed(a.names, s) /\ Answered(s, tools, responses)
  BY DEF GeminiRight, SpeechOnly, Gathers
<1>3. tools \in Seq(Nat) /\ responses \in Seq(Part) /\ \A n \in DOMAIN tools : tools[n] \in DOMAIN s
  BY <1>2, ToolsMore, ResponsesMore
<1>4. m.role \in {"user", "system", "assistant", "tool"}
  BY MessageIs
<1> HIDE DEF r, tools, responses
<1>5. CASE m.role = "system"
  <2>1. r.out = a.out /\ r.names = a.names
    BY <1>1, <1>5
  <2>2. QED
    BY <1>1, <1>2, <1>5, <2>1 DEF GeminiRight, r, tools, responses
<1>6. m.role # "system" => SpeechOnly(t)
  BY <1>2, SpeechMore
<1>7. TurnsNamed(r.names, t)
  <2>1. m.role = "tool" => r.names = a.names
    BY <1>1
  <2>2. m.role = "assistant" => NamesWell(r.names, m.calls)
    BY <1>1
  <2>3. QED
    BY <1>2, <2>1, <2>2, TurnsMore
<1>8. Answered(t, tools, responses)
  BY <1>2, <1>3, AnsweredSame
<1>9. CASE m.role \in {"user", "assistant"}
  <2>1. PICK made \in Made :
          /\ made.role \in {"user", "model"}
          /\ Typed(made.blocks, {"text", "image", "functionCall"}) /\ made.blocks # <<>>
          /\ r.out = Append(a.out, made)
    BY <1>1, <1>9
  <2> DEFINE bs == made.blocks
             role == made.role
  <2>2. made = Conversions!Message(role, bs) /\ role \in {"user", "assistant", "model"}
    BY <2>1 DEF Made, Conversions!Message
  <2>3. \A i \in DOMAIN bs : bs[i].type # "functionResponse"
    BY <2>1 DEF Typed
  <2>4. Typed(bs, {"text", "image", "functionCall"})
    BY <2>1
  <2> HIDE DEF bs, role, t
  <2>5. Gathers(r.out, t, "functionResponse")
    <3>1. "functionResponse" \notin {"text", "image", "functionCall"} /\ m.role # "tool"
      BY <1>9
    <3>2. Gathers(Append(a.out, Conversions!Message(role, bs)), Append(s, m), "functionResponse")
      BY <1>2, <2>2, <2>4, <3>1, SpeechGathers
    <3>3. QED
      BY <2>1, <2>2, <3>2 DEF t
  <2>6. \A i \in DOMAIN r.out : r.out[i].blocks # <<>>
    BY <1>2, <2>1, PartsAppended
  <2>7. Conversions!Responses(r.out) = responses
    BY <1>2, <2>1, <2>3, ResponsesSpeech DEF responses, bs
  <2>8. Conversions!Tools(t) = tools
    BY <1>2, <1>9, ToolsMore DEF t, tools
  <2>9. GeminiRight(t, r)
    BY <1>1, <1>6, <1>7, <1>8, <1>9, <2>5, <2>6, <2>7, <2>8 DEF GeminiRight
  <2>10. QED
    BY <1>9, <2>9 DEF t, r
<1>10. CASE m.role = "tool"
  <2>1. PICK b \in Part :
          /\ b.type = "functionResponse" /\ r.out = Conversions!AppendResult(a.out, b)
          /\ m.id \in DOMAIN a.names => b.ref = a.names[m.id]
    BY <1>1, <1>10
  <2> DEFINE i == Len(s) + 1
  <2>2. i \in Nat
    BY <1>2
  <2>3. Conversions!CallNames(t, i) # {} => b.ref \in Conversions!CallNames(t, i)
    BY <1>2, <1>10, <2>1, TurnsAnswer
  <2>4. Conversions!Tools(t) = Append(tools, i)
    BY <1>2, <1>10, ToolsMore DEF tools
  <2>5. Conversions!Responses(r.out) = Append(responses, b)
    BY <1>2, <2>1, ResponsesResult DEF responses
  <2> HIDE DEF t, i
  <2>6. Answered(t, Conversions!Tools(t), Conversions!Responses(r.out))
    BY <1>3, <1>8, <2>2, <2>3, <2>4, <2>5, AnsweredMore
  <2>7. Gathers(r.out, t, "functionResponse")
    BY <1>2, <1>10, <2>1, ResultGathers DEF t
  <2>8. \A j \in DOMAIN r.out : r.out[j].blocks # <<>>
    BY <1>2, <2>1, PartsResult
  <2>9. GeminiRight(t, r)
    BY <1>1, <1>6, <1>7, <1>10, <2>6, <2>7, <2>8 DEF GeminiRight
  <2>10. QED
    BY <1>10, <2>9 DEF t, r
<1>11. QED
  BY <1>4, <1>5, <1>9, <1>10

LEMMA GeminiAll ==
  ASSUME NEW q \in Seq(Conversions!Messages)
  PROVE  GeminiRight(Conversions!Spoken(q), Conversions!convert_contents(q))
<1> DEFINE X == Conversions!Messages
           K == {p \in Seq(X) : GeminiRight(Conversions!Spoken(p), Conversions!convert_contents(p))}
<1>1. <<>> \in K
  <2>1. SpeechOnly(<<>>) /\ Gathers(<<>>, <<>>, "functionResponse")
    BY NoneGathered DEF SpeechOnly
  <2>2. GeminiStart \in GeminiAcc /\ GeminiStart.out = <<>>
    BY GeminiFolds DEF Folds, GeminiStart
  <2>3. Conversions!Tools(<<>>) = <<>>
    <3>1. [i \in DOMAIN <<>> |-> i] = <<>>
      OBVIOUS
    <3>2. QED
      BY <3>1, AmongStep DEF Conversions!Tools
  <2>4. Conversions!Responses(<<>>) = <<>>
    BY NoneGathered, AmongStep DEF Conversions!Responses, Conversions!OfType
  <2>5. Answered(<<>>, <<>>, <<>>)
    BY DEF Answered
  <2>6. TurnsNamed(GeminiStart.names, <<>>)
    BY DEF TurnsNamed
  <2>7. GeminiRight(<<>>, GeminiStart)
    BY <2>1, <2>2, <2>3, <2>4, <2>5, <2>6 DEF GeminiRight
  <2>8. QED
    BY <2>7, SpokenNone, GeminiMore
<1>2. \A p \in Seq(X), m \in X : p \in K => Append(p, m) \in K
  <2> SUFFICES ASSUME NEW p \in Seq(X), NEW m \in X,
                      GeminiRight(Conversions!Spoken(p), Conversions!convert_contents(p))
               PROVE  /\ Append(p, m) \in Seq(X)
                      /\ GeminiRight(Conversions!Spoken(Append(p, m)), Conversions!convert_contents(Append(p, m)))
    OBVIOUS
  <2>1. Append(p, m) \in Seq(X)
    OBVIOUS
  <2>2. Conversions!Spoken(Append(p, m)) =
          IF m.role = "system" THEN Conversions!Spoken(p) ELSE Append(Conversions!Spoken(p), m)
    BY SpokenMore
  <2>3. Conversions!convert_contents(Append(p, m)) =
          Conversions!gemini_message(Conversions!convert_contents(p), m)
    BY GeminiMore
  <2>4. GeminiRight(IF m.role = "system" THEN Conversions!Spoken(p) ELSE Append(Conversions!Spoken(p), m),
                    Conversions!gemini_message(Conversions!convert_contents(p), m))
    BY GeminiStep
  <2>5. QED
    BY <2>1, <2>2, <2>3, <2>4
<1> HIDE DEF K
<1>3. q \in K
  BY <1>1, <1>2, SequencesAll
<1>4. QED
  BY <1>3 DEF K

\* What a request made of a conversation is.
RequestsRight(q, made) ==
  /\ AnthropicRight(q, Conversions!Spoken(q), made.anthropic)
  /\ GeminiRight(Conversions!Spoken(q), made.gemini)

LEMMA RequestsFaithful ==
  ASSUME Conversions!Requested => RequestsRight(msgs, converted)
  PROVE  /\ Conversions!NothingLost /\ Conversions!ResultsTogether
         /\ Conversions!NonEmptyParts /\ Conversions!ResponsesNamed

<1> DEFINE s == Conversions!Spoken(msgs)
           a == converted.anthropic
           g == converted.gemini
<1>1. SUFFICES ASSUME Conversions!Requested
               PROVE  /\ /\ Conversions!Contents(a.out) = Conversions!FlattenSeq(Blocks(s))
                         /\ Len(a.system) = Len(msgs) - Len(s)
                      /\ Conversions!Rounds(a.out, "tool_result") /\ Conversions!Rounds(g.out, "functionResponse")
                      /\ \A i \in DOMAIN g.out : g.out[i].blocks # <<>>
                      /\ Conversions!Answering(s) =>
                           /\ Len(Conversions!Responses(g.out)) = Len(Conversions!Tools(s))
                           /\ \A n \in DOMAIN Conversions!Tools(s) :
                                Conversions!Responses(g.out)[n].ref
                                  \in Conversions!CallNames(s, Conversions!Tools(s)[n])
  BY DEF Conversions!NothingLost, Conversions!ResultsTogether, Conversions!NonEmptyParts,
         Conversions!ResponsesNamed, Blocks
<1>2. AnthropicRight(msgs, s, a) /\ GeminiRight(s, g)
  BY <1>1 DEF RequestsRight
<1>3. ASSUME NEW out, NEW kind, Gathers(out, s, kind) PROVE Conversions!Rounds(out, kind)
  <2>1. Len(out) = Conversions!Cardinality(Conversions!Opens(s))
    <3>1. \A S : Conversions!Cardinality(S) = Cardinality(S)
      BY DEF Conversions!Cardinality, Cardinality
    <3>2. QED
      BY <1>3, <3>1 DEF Gathers
  <2>2. ASSUME NEW i \in DOMAIN out, \E b \in Conversions!ToSet(out[i].blocks) : b.type = kind
        PROVE  \A b \in Conversions!ToSet(out[i].blocks) : b.type = kind
    <3> DEFINE bs == out[i].blocks
    <3>1. \E j \in DOMAIN bs : bs[j].type = kind
      BY <2>2 DEF Conversions!ToSet
    <3>2. \A j \in DOMAIN bs : bs[j].type = kind
      BY <1>3, <3>1 DEF Gathers
    <3>3. QED
      BY <3>2 DEF Conversions!ToSet
  <2>3. QED
    BY <2>1, <2>2 DEF Conversions!Rounds
<1> HIDE DEF s
<1>4. ASSUME Conversions!Answering(s), NEW n \in DOMAIN Conversions!Tools(s)
      PROVE  Conversions!CallNames(s, Conversions!Tools(s)[n]) # {}
  <2> DEFINE S == {i \in DOMAIN s : s[i].role = "tool"}
             ids == [i \in DOMAIN s |-> i]
  <2>1. s \in Seq(Conversions!Messages)
    BY <1>2 DEF AnthropicRight, SpeechOnly
  <2>2. ids \in Seq(Nat) /\ Conversions!Tools(s) = Conversions!Among(ids, S)
    BY <2>1 DEF Conversions!Tools
  <2>3. \A i \in S : Conversions!CallNames(s, i) # {}
    BY <1>4 DEF Conversions!Answering
  <2> HIDE DEF S, ids
  <2>4. Conversions!Tools(s)[n] \in S
    BY <2>2, AmongOf
  <2>5. QED
    BY <2>3, <2>4
<1>5. /\ Conversions!Contents(a.out) = Conversions!FlattenSeq(Blocks(s)) /\ Len(a.system) = Len(msgs) - Len(s)
      /\ Gathers(a.out, s, "tool_result")
  BY <1>2 DEF AnthropicRight
<1>6. /\ Gathers(g.out, s, "functionResponse") /\ \A i \in DOMAIN g.out : g.out[i].blocks # <<>>
      /\ Answered(s, Conversions!Tools(s), Conversions!Responses(g.out))
  BY <1>2 DEF GeminiRight
<1>7. QED
  BY <1>3, <1>4, <1>5, <1>6 DEF Answered

-----------------------------------------------------------------------------
(* Answers: what the transcoders make of the stream of an answer.             *)

SentFrame == [kind : {"role", "text", "tool", "args"}, index : Nat \cup {None}, usage : {None}, reason : {None}]
AllStops == Conversions!Stops \cup Conversions!GeminiStops
TranscoderState ==
  [buf : {<<>>}, input : Nat, output : Nat, total : Nat, stop : AllStops, role : BOOLEAN,
   tools : UNION {[D -> Nat] : D \in SUBSET Nat}, next : Nat, done : {FALSE}]
Transcoded == [st : TranscoderState, out : Seq(SentFrame)]

Handled(p, acc, ev) ==
  IF acc.st.done THEN acc
  ELSE LET r == Conversions!HandleEvent(p, acc.st, ev) IN Conversions!Step(r.st, acc.out \o r.out)
HandlerOf(p, Ev) == [acc \in Transcoded |-> [ev \in Ev |-> Handled(p, acc, ev)]]
Started == Conversions!Step(Conversions!Fresh, <<>>)
Handles(p, Ev) == \A acc \in Transcoded, ev \in Ev : Handled(p, acc, ev) \in Transcoded

LEMMA StartedIs == Started \in Transcoded
<1>1. <<>> \in [{} -> Nat] /\ {} \in SUBSET Nat
  OBVIOUS
<1>2. <<>> \in UNION {[D -> Nat] : D \in SUBSET Nat}
  BY <1>1
<1> DEFINE e == <<>>
           maps == UNION {[D -> Nat] : D \in SUBSET Nat}
<1>3. e \in maps /\ e \in Seq(SentFrame) /\ None \in AllStops
  BY <1>2 DEF AllStops, Conversions!Stops
<1> HIDE DEF e, maps
<1>4. Conversions!Fresh = [buf |-> e, input |-> 0, output |-> 0, total |-> 0, stop |-> None, role |-> FALSE,
                           tools |-> e, next |-> 0, done |-> FALSE]
  BY DEF Conversions!Fresh, e
<1>5. TranscoderState = [buf : {e}, input : Nat, output : Nat, total : Nat, stop : AllStops, role : BOOLEAN,
                    tools : maps, next : Nat, done : {FALSE}]
  BY DEF TranscoderState, e, maps
<1>6. Conversions!Fresh \in TranscoderState
  BY <1>3, <1>4, <1>5
<1>7. QED
  BY <1>3, <1>6 DEF Started, Transcoded, Conversions!Step, e

LEMMA HandleRun ==
  ASSUME NEW p, NEW Ev, Handles(p, Ev), NEW s \in Seq(Ev)
  PROVE  /\ Folds(HandlerOf(p, Ev), Transcoded, Ev, Started)
         /\ Conversions!handle(p, Conversions!Fresh, s) = Run(HandlerOf(p, Ev), Started, s)
<1> DEFINE g == HandlerOf(p, Ev)
           X == Ev
           Eq(f) == f = [u \in SUBSET DOMAIN s |->
                           IF u = {} THEN Started ELSE Handled(p, f[u \ {Highest(u)}], s[Highest(u)])]
           f == CHOOSE f1 : Eq(f1)
<1>1. /\ Folds(g, Transcoded, X, Started)
      /\ \A x \in Transcoded, y \in X : g[x][y] = Handled(p, x, y)
  BY StartedIs DEF Folds, HandlerOf, Handles
<1>2. Conversions!handle(p, Conversions!Fresh, s) = f[DOMAIN s]
  BY DEF Conversions!handle, Conversions!FoldLeft, Conversions!MapThenFoldSet, Conversions!Max, Highest, Started, Handled
<1> HIDE DEF g, X
<1>3. Eq(f)
  <2>1. PICK h : Valued(h, g, Transcoded, X, Started, s)
    BY <1>1, RunValues DEF X
  <2>2. Eq(h)
    BY <1>1, <2>1 DEF Valued
  <2>3. QED
    BY <2>2
<1> HIDE DEF f
<1>4. f[{}] = Started
  BY <1>3
<1>5. ASSUME NEW k \in 0..(Len(s) - 1), f[1..k] \in Transcoded PROVE f[1..(k + 1)] = g[f[1..k]][s[k + 1]]
  <2>1. 1..(k + 1) \in SUBSET DOMAIN s /\ k \in Nat /\ s[k + 1] \in X
    BY DEF X
  <2>2. Highest(1..(k + 1)) = k + 1 /\ 1..(k + 1) \ {k + 1} = 1..k /\ 1..(k + 1) # {}
    BY <2>1, HighestOfAll
  <2>3. f[1..(k + 1)] = Handled(p, f[1..k], s[k + 1])
    BY <1>3, <2>1, <2>2
  <2>4. QED
    BY <1>1, <1>5, <2>1, <2>3
<1>6. f[DOMAIN s] = Run(g, Started, s)
  BY <1>1, <1>4, <1>5, RunFrom DEF X
<1>7. QED
  BY <1>1, <1>2, <1>6 DEF g, X

LEMMA HandleMore ==
  ASSUME NEW p, NEW Ev, Handles(p, Ev)
  PROVE  /\ Conversions!handle(p, Conversions!Fresh, <<>>) = Started
         /\ \A s \in Seq(Ev) : Conversions!handle(p, Conversions!Fresh, s) \in Transcoded
         /\ \A s \in Seq(Ev), ev \in Ev :
              Conversions!handle(p, Conversions!Fresh, Append(s, ev))
                = Handled(p, Conversions!handle(p, Conversions!Fresh, s), ev)
<1> DEFINE g == HandlerOf(p, Ev)
           H(s) == Conversions!handle(p, Conversions!Fresh, s)
<1>1. <<>> \in Seq(Ev) /\ \A s \in Seq(Ev), m \in Ev : Append(s, m) \in Seq(Ev)
  OBVIOUS
<1>2. \A s \in Seq(Ev) : H(s) = Run(g, Started, s)
  BY HandleRun
<1>3. Folds(g, Transcoded, Ev, Started)
  BY <1>1, HandleRun
<1>4. \A acc \in Transcoded, ev \in Ev : g[acc][ev] = Handled(p, acc, ev)
  BY DEF HandlerOf
<1> HIDE DEF g, H
<1>5. /\ Run(g, Started, <<>>) = Started /\ \A s \in Seq(Ev) : Run(g, Started, s) \in Transcoded
      /\ \A s \in Seq(Ev), x \in Ev : Run(g, Started, Append(s, x)) = g[Run(g, Started, s)][x]
  BY <1>3, RunStep
<1>6. ASSUME NEW s \in Seq(Ev), NEW m \in Ev PROVE H(Append(s, m)) = Handled(p, H(s), m)
  <2>1. Run(g, Started, Append(s, m)) = g[Run(g, Started, s)][m] /\ Run(g, Started, s) \in Transcoded
    BY <1>5
  <2>2. g[Run(g, Started, s)][m] = Handled(p, Run(g, Started, s), m)
    BY <1>4, <2>1
  <2>3. QED
    BY <1>1, <1>2, <2>1, <2>2
<1>7. QED
  BY <1>1, <1>2, <1>5, <1>6 DEF H

LEMMA FramesAre ==
  /\ Conversions!Role \in SentFrame /\ Conversions!Role.kind = "role"
  /\ Conversions!Text \in SentFrame /\ Conversions!Text.kind = "text"
  /\ \A n \in Nat : /\ Conversions!tool_start_chunk(n) \in SentFrame
                    /\ Conversions!tool_start_chunk(n).kind = "tool"
                    /\ Conversions!tool_args_chunk(n) \in SentFrame
                    /\ Conversions!tool_args_chunk(n).kind = "args"
                    /\ Conversions!tool_args_chunk(n).index = n
BY DEF Conversions!Role, Conversions!Text, Conversions!tool_start_chunk, Conversions!tool_args_chunk,
       Conversions!Frame, SentFrame

\* Nothing or one frame is sent.
Nothing == <<>>
Only(f) == <<f>>
Becomes(p, acc, ev, st, frames) == Conversions!HandleEvent(p, acc.st, ev) = Conversions!Step(st, frames)
Became(p, acc, ev, st, out) ==
  /\ Handled(p, acc, ev) \in Transcoded /\ Handled(p, acc, ev).st = st /\ Handled(p, acc, ev).out = out

LEMMA HandledIs ==
  ASSUME NEW p, NEW acc \in Transcoded, NEW ev, NEW st \in TranscoderState, NEW frames \in Seq(SentFrame), Becomes(p, acc, ev, st, frames)
  PROVE  Became(p, acc, ev, st, acc.out \o frames)
<1>1. acc.st \in TranscoderState /\ acc.out \in Seq(SentFrame)
  BY DEF Transcoded
<1>2. acc.st.done = FALSE
  BY <1>1 DEF TranscoderState
<1> DEFINE r == Conversions!HandleEvent(p, acc.st, ev)
           more == acc.out \o frames
<1>3. r = Conversions!Step(st, frames)
  BY DEF Becomes
<1>4. Handled(p, acc, ev) = Conversions!Step(r.st, acc.out \o r.out)
  BY <1>2 DEF Handled
<1> HIDE DEF r
<1>5. r.st = st /\ r.out = frames
  BY <1>3 DEF Conversions!Step
<1>6. more \in Seq(SentFrame)
  BY <1>1
<1>7. Handled(p, acc, ev) = Conversions!Step(st, more)
  BY <1>4, <1>5
<1> HIDE DEF more
<1>8. /\ Handled(p, acc, ev) \in Transcoded /\ Handled(p, acc, ev).st = st /\ Handled(p, acc, ev).out = more
  BY <1>6, <1>7 DEF Transcoded, Conversions!Step
<1>9. QED
  BY <1>8 DEF more, Became

LEMMA HandledNone ==
  ASSUME NEW p, NEW acc \in Transcoded, NEW ev, NEW st \in TranscoderState,
         Becomes(p, acc, ev, st, Nothing)
  PROVE  Became(p, acc, ev, st, acc.out)
<1> DEFINE s == acc.out
<1>1. Nothing \in Seq(SentFrame) /\ s \in Seq(SentFrame)
  BY DEF Nothing, Transcoded
<1>2. Became(p, acc, ev, st, s \o Nothing)
  BY <1>1, HandledIs
<1> HIDE DEF s
<1>3. s \o Nothing = s
  BY <1>1 DEF Nothing
<1>4. QED
  BY <1>2, <1>3 DEF s

LEMMA HandledOne ==
  ASSUME NEW p, NEW acc \in Transcoded, NEW ev, NEW st \in TranscoderState, NEW f \in SentFrame,
         Becomes(p, acc, ev, st, Only(f))
  PROVE  Became(p, acc, ev, st, Append(acc.out, f))
<1> DEFINE s == acc.out
<1>1. Only(f) \in Seq(SentFrame) /\ s \in Seq(SentFrame)
  BY DEF Only, Transcoded
<1>2. Became(p, acc, ev, st, s \o Only(f))
  BY <1>1, HandledIs
<1> HIDE DEF s
<1>3. s \o Only(f) = Append(s, f)
  BY <1>1 DEF Only
<1>4. QED
  BY <1>2, <1>3 DEF s

\* The events of an answer.
AnthropicHead == [type |-> "message_start", input |-> 3, output |-> 1]
AnthropicOpens(i, tool) == [type |-> "content_block_start", index |-> i, tool |-> tool]
AnthropicText == [type |-> "text_delta"]
AnthropicArgs(i) == [type |-> "input_json_delta", index |-> i]
AnthropicPing == [type |-> "ping"]
AnthropicTail(stop) == [type |-> "message_delta", stop |-> stop, output |-> 5]
AnthropicSent ==
  {AnthropicHead, AnthropicText, AnthropicPing}
    \cup {AnthropicOpens(i, tool) : i \in Nat, tool \in BOOLEAN} \cup {AnthropicArgs(i) : i \in Nat}
    \cup {AnthropicTail(stop) : stop \in Conversions!Stops}

\* The fields of a transcoder that tell one answer from another.
SameAccount(st, old) == st.input = old.input /\ st.output = old.output /\ st.total = old.total /\ st.stop = old.stop

LEMMA AnthropicPlain ==
  ASSUME NEW acc \in Transcoded
  PROVE  /\ Became("anthropic", acc, AnthropicText, acc.st, Append(acc.out, Conversions!Text))
         /\ Became("anthropic", acc, AnthropicPing, acc.st, acc.out)
         /\ \A i \in Nat : Became("anthropic", acc, AnthropicOpens(i, FALSE), acc.st, acc.out)
<1>1. acc.st \in TranscoderState /\ Conversions!Text \in SentFrame
  BY FramesAre DEF Transcoded
<1>2. Becomes("anthropic", acc, AnthropicText, acc.st, Only(Conversions!Text))
  BY DEF Becomes, Conversions!HandleEvent, Conversions!anthropic, AnthropicText, Only
<1>3. Becomes("anthropic", acc, AnthropicPing, acc.st, Nothing)
  BY DEF Becomes, Conversions!HandleEvent, Conversions!anthropic, AnthropicPing, Nothing
<1>4. ASSUME NEW i \in Nat
      PROVE  Becomes("anthropic", acc, AnthropicOpens(i, FALSE), acc.st, Nothing)
  BY DEF Becomes, Conversions!HandleEvent, Conversions!anthropic, AnthropicOpens, Conversions!content_block_start, Nothing
<1>5. Became("anthropic", acc, AnthropicText, acc.st, Append(acc.out, Conversions!Text))
  BY <1>1, <1>2, HandledOne
<1>6. Became("anthropic", acc, AnthropicPing, acc.st, acc.out)
  BY <1>1, <1>3, HandledNone
<1>7. \A i \in Nat : Became("anthropic", acc, AnthropicOpens(i, FALSE), acc.st, acc.out)
  BY <1>1, <1>4, HandledNone
<1>8. QED
  BY <1>5, <1>6, <1>7

LEMMA AnthropicTold ==
  ASSUME NEW acc \in Transcoded, NEW h, h = Handled("anthropic", acc, AnthropicHead),
         NEW stop \in Conversions!Stops, NEW t, t = Handled("anthropic", acc, AnthropicTail(stop))
  PROVE  /\ h \in Transcoded /\ h.st.input = 3 /\ h.st.next = acc.st.next /\ h.st.stop = acc.st.stop
         /\ h.out = IF acc.st.role THEN acc.out ELSE Append(acc.out, Conversions!Role)
         /\ t \in Transcoded /\ t.st.input = acc.st.input /\ t.st.output = 5 /\ t.out = acc.out
         /\ t.st.stop = IF stop = None THEN acc.st.stop ELSE stop
<1> DEFINE st == acc.st
           hst == [st EXCEPT !.input = 3, !.output = 1, !.role = TRUE]
           tst == [st EXCEPT !.stop = IF stop = None THEN @ ELSE stop, !.output = 5]
<1>1. /\ st \in TranscoderState /\ acc.out \in Seq(SentFrame) /\ Conversions!Role \in SentFrame
  BY FramesAre DEF Transcoded
<1>2. Becomes("anthropic", acc, AnthropicHead, hst, IF st.role THEN Nothing ELSE Only(Conversions!Role))
  BY DEF Becomes, Conversions!HandleEvent, Conversions!anthropic, AnthropicHead, Conversions!message_start,
         Conversions!Positive, Nothing, Only
<1>3. Becomes("anthropic", acc, AnthropicTail(stop), tst, Nothing)
  BY DEF Becomes, Conversions!HandleEvent, Conversions!anthropic, AnthropicTail, Conversions!message_delta,
         Conversions!Positive, Nothing
<1>4. stop \in AllStops
  BY DEF AllStops
<1> HIDE DEF st
<1>5. /\ hst \in TranscoderState /\ hst.input = 3 /\ hst.next = st.next /\ hst.stop = st.stop
      /\ tst \in TranscoderState /\ tst.input = st.input /\ tst.output = 5
      /\ tst.stop = IF stop = None THEN st.stop ELSE stop
  BY <1>1, <1>4 DEF TranscoderState
<1> HIDE DEF hst, tst
<1>6. t \in Transcoded /\ t.st = tst /\ t.out = acc.out
  <2>1. Became("anthropic", acc, AnthropicTail(stop), tst, acc.out)
    BY <1>3, <1>5, HandledNone
  <2>2. QED
    BY <2>1 DEF Became
<1>7. /\ h \in Transcoded /\ h.st = hst
      /\ h.out = IF st.role THEN acc.out ELSE Append(acc.out, Conversions!Role)
  <2>1. CASE st.role
    <3>1. Becomes("anthropic", acc, AnthropicHead, hst, Nothing)
      BY <1>2, <2>1 DEF st
    <3>2. Became("anthropic", acc, AnthropicHead, hst, acc.out)
      BY <1>5, <3>1, HandledNone
    <3>3. QED
      BY <2>1, <3>2 DEF Became
  <2>2. CASE ~st.role
    <3>1. Becomes("anthropic", acc, AnthropicHead, hst, Only(Conversions!Role))
      BY <1>2, <2>2 DEF st
    <3>2. Became("anthropic", acc, AnthropicHead, hst, Append(acc.out, Conversions!Role))
      BY <1>1, <1>5, <3>1, HandledOne
    <3>3. QED
      BY <2>2, <3>2 DEF Became
  <2>3. QED
    BY <2>1, <2>2
<1>8. QED
  BY <1>5, <1>6, <1>7 DEF st

LEMMA AnthropicOpened ==
  ASSUME NEW acc \in Transcoded, NEW i \in Nat, NEW o, o = Handled("anthropic", acc, AnthropicOpens(i, TRUE))
  PROVE  /\ o \in Transcoded /\ SameAccount(o.st, acc.st) /\ acc.st.next \in Nat /\ o.st.next = acc.st.next + 1
         /\ i \in DOMAIN o.st.tools /\ o.st.tools[i] = acc.st.next
         /\ o.out = Append(acc.out, Conversions!tool_start_chunk(acc.st.next))
<1> DEFINE st == acc.st
           n == st.next
           tools == [k \in DOMAIN st.tools \cup {i} |-> IF k = i THEN n ELSE st.tools[k]]
           new == [st EXCEPT !.next = @ + 1, !.tools = tools]
           f == Conversions!tool_start_chunk(n)
           maps == UNION {[D -> Nat] : D \in SUBSET Nat}
<1>1. st \in TranscoderState /\ n \in Nat /\ f \in SentFrame
  BY FramesAre DEF Transcoded, TranscoderState
<1>2. Becomes("anthropic", acc, AnthropicOpens(i, TRUE), new, Only(f))
  BY DEF Becomes, Conversions!HandleEvent, Conversions!anthropic, AnthropicOpens,
         Conversions!content_block_start, Only
<1> HIDE DEF f
<1>3. tools \in maps
  <2>1. st.tools \in maps
    BY <1>1 DEF TranscoderState
  <2>2. PICK D \in SUBSET Nat : st.tools \in [D -> Nat]
    BY <2>1
  <2> DEFINE E == D \cup {i}
             a == st.tools
  <2>3. tools = [k \in E |-> IF k = i THEN n ELSE a[k]] /\ E \in SUBSET Nat
    BY <2>2
  <2>4. \A k \in E : k # i => a[k] \in Nat
    BY <2>2
  <2> HIDE DEF tools, E, a
  <2>5. tools \in [E -> Nat]
    BY <1>1, <2>3, <2>4
  <2>6. QED
    BY <2>3, <2>5
<1>4. i \in DOMAIN tools /\ tools[i] = n
  OBVIOUS
<1> HIDE DEF tools, st, maps
<1>5. /\ new \in TranscoderState /\ SameAccount(new, st) /\ new.next = n + 1 /\ new.tools = tools
  <2> DEFINE bufs == {<<>>}
  <2>1. TranscoderState = [buf : bufs, input : Nat, output : Nat, total : Nat, stop : AllStops, role : BOOLEAN,
                      tools : maps, next : Nat, done : {FALSE}]
    BY DEF TranscoderState, maps
  <2> HIDE DEF bufs
  <2>2. n + 1 \in Nat /\ n = st.next
    BY <1>1 DEF st
  <2>3. new = [st EXCEPT !.next = n + 1, !.tools = tools]
    BY <2>2
  <2> DEFINE m == n + 1
  <2> HIDE DEF m
  <2>4. new = [st EXCEPT !.next = m, !.tools = tools] /\ m \in Nat
    BY <2>2, <2>3 DEF m
  <2> HIDE DEF new
  <2>5. new \in TranscoderState /\ new.next = m /\ new.tools = tools
    BY <1>1, <1>3, <2>1, <2>4
  <2>6. SameAccount(new, st)
    BY <1>1, <2>1, <2>4 DEF SameAccount
  <2>7. QED
    BY <2>5, <2>6 DEF m
<1> HIDE DEF new, n
<1>6. Became("anthropic", acc, AnthropicOpens(i, TRUE), new, Append(acc.out, f))
  BY <1>1, <1>2, <1>5, HandledOne
<1>7. o \in Transcoded /\ o.st = new /\ o.out = Append(acc.out, f)
  BY <1>6 DEF Became
<1>8. QED
  BY <1>1, <1>4, <1>5, <1>7 DEF st, n, f

LEMMA AnthropicArgued ==
  ASSUME NEW acc \in Transcoded, NEW i \in Nat
  PROVE  /\ i \in DOMAIN acc.st.tools =>
              /\ acc.st.tools[i] \in Nat
              /\ Became("anthropic", acc, AnthropicArgs(i), acc.st,
                        Append(acc.out, Conversions!tool_args_chunk(acc.st.tools[i])))
         /\ i \notin DOMAIN acc.st.tools => Became("anthropic", acc, AnthropicArgs(i), acc.st, acc.out)
<1> DEFINE st == acc.st
           f == Conversions!tool_args_chunk(st.tools[i])
<1>1. st \in TranscoderState
  BY DEF Transcoded
<1>2. i \in DOMAIN st.tools => st.tools[i] \in Nat
  <2> DEFINE a == st.tools
  <2>1. a \in UNION {[D -> Nat] : D \in SUBSET Nat}
    BY <1>1 DEF TranscoderState
  <2> HIDE DEF a
  <2>2. PICK D \in SUBSET Nat : a \in [D -> Nat]
    BY <2>1
  <2>3. QED
    BY <2>2 DEF a
<1>3. i \in DOMAIN st.tools => Becomes("anthropic", acc, AnthropicArgs(i), st, Only(f))
  BY DEF Becomes, Conversions!HandleEvent, Conversions!anthropic, AnthropicArgs, Conversions!input_json_delta, Only
<1>4. i \notin DOMAIN st.tools => Becomes("anthropic", acc, AnthropicArgs(i), st, Nothing)
  BY DEF Becomes, Conversions!HandleEvent, Conversions!anthropic, AnthropicArgs, Conversions!input_json_delta, Nothing
<1>5. i \in DOMAIN st.tools => f \in SentFrame
  BY <1>2, FramesAre
<1> HIDE DEF f, st
<1>6. i \in DOMAIN st.tools => Became("anthropic", acc, AnthropicArgs(i), st, Append(acc.out, f))
  BY <1>1, <1>3, <1>5, HandledOne
<1>7. i \notin DOMAIN st.tools => Became("anthropic", acc, AnthropicArgs(i), st, acc.out)
  BY <1>1, <1>4, HandledNone
<1>8. QED
  BY <1>2, <1>6, <1>7 DEF f, st

LEMMA AnthropicHandles == Handles("anthropic", AnthropicSent)
<1> SUFFICES ASSUME NEW acc \in Transcoded, NEW ev \in AnthropicSent
             PROVE  Handled("anthropic", acc, ev) \in Transcoded
  BY DEF Handles
<1>1. CASE ev = AnthropicHead
  <2>1. None \in Conversions!Stops
    BY DEF Conversions!Stops
  <2>2. QED
    BY <1>1, <2>1, AnthropicTold
<1>2. CASE ev \in {AnthropicText, AnthropicPing}
  BY <1>2, AnthropicPlain DEF Became
<1>3. CASE \E i \in Nat, tool \in BOOLEAN : ev = AnthropicOpens(i, tool)
  <2>1. PICK i \in Nat, tool \in BOOLEAN : ev = AnthropicOpens(i, tool)
    BY <1>3
  <2>2. CASE tool = TRUE
    BY <2>1, <2>2, AnthropicOpened
  <2>3. CASE tool = FALSE
    BY <2>1, <2>3, AnthropicPlain DEF Became
  <2>4. QED
    BY <2>2, <2>3
<1>4. CASE \E i \in Nat : ev = AnthropicArgs(i)
  BY <1>4, AnthropicArgued DEF Became
<1>5. CASE \E stop \in Conversions!Stops : ev = AnthropicTail(stop)
  BY <1>5, AnthropicTold
<1>6. QED
  BY <1>1, <1>2, <1>3, <1>4, <1>5 DEF AnthropicSent

\* How many frames of each kind were sent, the arguments' in the order of the calls.
Of(out, kind) == Conversions!Among(out, {f \in SentFrame : f.kind = kind})
Sends(out, texts, calls, args) ==
  /\ out \in Seq(SentFrame) /\ texts \in Nat /\ calls \in Nat /\ args \in Nat
  /\ Len(Of(out, "text")) = texts /\ Len(Of(out, "tool")) = calls /\ Len(Of(out, "args")) = args
  /\ \A i \in 1..args : Of(out, "args")[i].index = i - 1

LEMMA OfMore ==
  ASSUME NEW out \in Seq(SentFrame), NEW f \in SentFrame, NEW kind
  PROVE  /\ Of(out, kind) \in Seq(SentFrame)
         /\ f.kind = kind => Of(Append(out, f), kind) = Append(Of(out, kind), f)
         /\ f.kind # kind => Of(Append(out, f), kind) = Of(out, kind)
<1> DEFINE S == {x \in SentFrame : x.kind = kind}
<1>1. f \in S <=> f.kind = kind
  OBVIOUS
<1> HIDE DEF S
<1>2. /\ Conversions!Among(out, S) \in Seq(SentFrame)
      /\ f \in S => Conversions!Among(Append(out, f), S) = Append(Conversions!Among(out, S), f)
      /\ f \notin S => Conversions!Among(Append(out, f), S) = Conversions!Among(out, S)
  BY AmongMore
<1>3. QED
  BY <1>1, <1>2 DEF Of, S

LEMMA SendsMore ==
  ASSUME NEW out, NEW texts, NEW calls, NEW args, Sends(out, texts, calls, args), NEW f \in SentFrame
  PROVE  /\ f.kind = "role" => Sends(Append(out, f), texts, calls, args)
         /\ f.kind = "text" => Sends(Append(out, f), texts + 1, calls, args)
         /\ f.kind = "tool" => Sends(Append(out, f), texts, calls + 1, args)
         /\ f.kind = "args" /\ f.index = args => Sends(Append(out, f), texts, calls, args + 1)
<1> DEFINE more == Append(out, f)
           a == Of(out, "args")
           b == Of(more, "args")
<1>1. /\ out \in Seq(SentFrame) /\ texts \in Nat /\ calls \in Nat /\ args \in Nat
      /\ Len(Of(out, "text")) = texts /\ Len(Of(out, "tool")) = calls /\ Len(a) = args
      /\ \A i \in 1..args : a[i].index = i - 1
  BY DEF Sends
<1>2. more \in Seq(SentFrame)
  BY <1>1
<1>3. ASSUME NEW kind
      PROVE  /\ Of(out, kind) \in Seq(SentFrame)
             /\ f.kind = kind => Of(more, kind) = Append(Of(out, kind), f)
             /\ f.kind # kind => Of(more, kind) = Of(out, kind)
  BY <1>1, OfMore
<1>4. ASSUME NEW kind
      PROVE  /\ f.kind = kind => Len(Of(more, kind)) = Len(Of(out, kind)) + 1
             /\ f.kind # kind => Len(Of(more, kind)) = Len(Of(out, kind))
  <2> DEFINE c == Of(out, kind)
  <2>1. c \in Seq(SentFrame) /\ f.kind = kind => Len(Append(c, f)) = Len(c) + 1
    OBVIOUS
  <2>2. QED
    BY <1>3, <2>1
<1>5. f.kind # "args" => b = a
  BY <1>3
<1>6. f.kind = "args" /\ f.index = args => \A i \in 1..(args + 1) : b[i].index = i - 1
  <2> SUFFICES ASSUME f.kind = "args", f.index = args, NEW i \in 1..(args + 1) PROVE b[i].index = i - 1
    OBVIOUS
  <2>1. a \in Seq(SentFrame) /\ b = Append(a, f)
    BY <1>3
  <2> HIDE DEF a, b
  <2>2. b[args + 1] = f /\ \A k \in 1..args : b[k] = a[k]
    BY <1>1, <2>1
  <2>3. i \in 1..args \/ i = args + 1
    BY <1>1
  <2>4. QED
    BY <1>1, <2>2, <2>3
<1> HIDE DEF more, a, b
<1>7. f.kind = "role" => Sends(more, texts, calls, args)
  BY <1>1, <1>2, <1>4, <1>5 DEF Sends, a, b
<1>8. f.kind = "text" => Sends(more, texts + 1, calls, args)
  BY <1>1, <1>2, <1>4, <1>5 DEF Sends, a, b
<1>9. f.kind = "tool" => Sends(more, texts, calls + 1, args)
  BY <1>1, <1>2, <1>4, <1>5 DEF Sends, a, b
<1>10. f.kind = "args" /\ f.index = args => Sends(more, texts, calls, args + 1)
  <2> SUFFICES ASSUME f.kind = "args", f.index = args PROVE Sends(more, texts, calls, args + 1)
    OBVIOUS
  <2>1. Len(Of(more, "text")) = texts /\ Len(Of(more, "tool")) = calls /\ Len(Of(more, "args")) = args + 1
    BY <1>1, <1>4 DEF a
  <2>2. \A i \in 1..(args + 1) : Of(more, "args")[i].index = i - 1
    BY <1>6 DEF b
  <2>3. args + 1 \in Nat
    BY <1>1
  <2> DEFINE m == args + 1
  <2> HIDE DEF m
  <2>4. m \in Nat /\ Len(Of(more, "args")) = m /\ \A i \in 1..m : Of(more, "args")[i].index = i - 1
    BY <2>1, <2>2, <2>3 DEF m
  <2>5. Sends(more, texts, calls, m)
    BY <1>1, <1>2, <2>1, <2>4 DEF Sends
  <2>6. QED
    BY <2>5 DEF m
<1>11. QED
  BY <1>7, <1>8, <1>9, <1>10 DEF more

\* How many blocks have one of the types.
LEMMA TypesMore ==
  ASSUME NEW X, NEW bs \in Seq(X), NEW b \in X, NEW types
  PROVE  /\ Conversions!OfType(bs, types) \in Seq(X)
         /\ b.type \in types => Len(Conversions!OfType(Append(bs, b), types)) = Len(Conversions!OfType(bs, types)) + 1
         /\ b.type \notin types => Len(Conversions!OfType(Append(bs, b), types)) = Len(Conversions!OfType(bs, types))
<1> DEFINE S == {p \in X : p.type \in types}
<1>1. ASSUME NEW s \in Seq(X) PROVE Conversions!OfType(s, types) = Conversions!Among(s, S)
  <2> DEFINE T == {p \in Conversions!ToSet(s) : p.type \in types}
  <2>1. \A i \in DOMAIN s : s[i] \in T <=> s[i] \in S
    BY DEF Conversions!ToSet
  <2>2. Conversions!OfType(s, types) = Conversions!Among(s, T)
    BY DEF Conversions!OfType
  <2> HIDE DEF T, S
  <2>3. QED
    BY <2>1, <2>2, AmongLocal
<1>2. b \in S <=> b.type \in types
  OBVIOUS
<1> DEFINE more == Append(bs, b)
           a == Conversions!Among(bs, S)
<1>3. more \in Seq(X)
  OBVIOUS
<1> HIDE DEF S
<1>4. /\ a \in Seq(X)
      /\ b \in S => Conversions!Among(more, S) = Append(a, b)
      /\ b \notin S => Conversions!Among(more, S) = a
  BY AmongMore
<1> HIDE DEF more, a
<1>5. Len(Append(a, b)) = Len(a) + 1
  BY <1>4
<1>6. Conversions!OfType(bs, types) = a /\ Conversions!OfType(more, types) = Conversions!Among(more, S)
  BY <1>1, <1>3 DEF a
<1>7. QED
  BY <1>2, <1>4, <1>5, <1>6 DEF more

LEMMA TypesNone == \A types : Len(Conversions!OfType(<<>>, types)) = 0
BY AmongStep DEF Conversions!OfType

Pair(x, y) == <<x, y>>
Joins(p, s, x, y) == p \o (s \o Pair(x, y)) = Append(Append(p \o s, x), y)

LEMMA JoinMore ==
  ASSUME NEW X, NEW p \in Seq(X), NEW s \in Seq(X), NEW x \in X, NEW y \in X
  PROVE  Joins(p, s, x, y)
<1> DEFINE q == p \o s
           two == Pair(x, y)
           t == s \o two
<1>1. two = Append(Append(<<>>, x), y)
  BY DEF Pair
<1>2. t = Append(Append(s, x), y) /\ Append(s, x) \in Seq(X)
  BY DEF Pair
<1>3. q \in Seq(X)
  OBVIOUS
<1> HIDE DEF t
<1>4. p \o t = Append(p \o Append(s, x), y)
  <2> DEFINE sx == Append(s, x)
  <2>1. t = Append(sx, y) /\ sx \in Seq(X)
    BY <1>2
  <2> HIDE DEF sx
  <2>2. p \o t = Append(p \o sx, y)
    BY <2>1
  <2>3. QED
    BY <2>2 DEF sx
<1>5. p \o Append(s, x) = Append(q, x)
  OBVIOUS
<1>6. QED
  BY <1>4, <1>5 DEF t, q, Joins

AnthropicBlock ==
  {Conversions!Block("text", "t"), Conversions!Block("tool_use", "x"), Conversions!Block("tool_use", "y"),
   Conversions!Block("thinking", "h")}

AnthropicOpening(i, b) == AnthropicOpens(i, b.type = "tool_use")
AnthropicBody(i, b) ==
  IF b.type = "text" THEN AnthropicText ELSE IF b.type = "tool_use" THEN AnthropicArgs(i) ELSE AnthropicPing
AnthropicBlocks(bs) == [i \in DOMAIN bs |-> <<AnthropicOpening(i, bs[i]), AnthropicBody(i, bs[i])>>]
AnthropicBegun(bs) == <<AnthropicHead>> \o Conversions!FlattenSeq(AnthropicBlocks(bs))

LEMMA AnthropicBlockIs ==
  ASSUME NEW b \in AnthropicBlock
  PROVE  /\ b.type \in {"text", "tool_use", "thinking"}
         /\ \A i \in Nat : AnthropicOpening(i, b) \in AnthropicSent /\ AnthropicBody(i, b) \in AnthropicSent
<1>1. b.type \in {"text", "tool_use", "thinking"}
  BY DEF AnthropicBlock, Conversions!Block
<1>2. ASSUME NEW i \in Nat PROVE AnthropicOpening(i, b) \in AnthropicSent /\ AnthropicBody(i, b) \in AnthropicSent
  <2>1. (b.type = "tool_use") \in BOOLEAN
    OBVIOUS
  <2>2. \A tool \in BOOLEAN : AnthropicOpens(i, tool) \in AnthropicSent
    BY DEF AnthropicSent
  <2>3. AnthropicOpening(i, b) \in AnthropicSent
    BY <2>1, <2>2 DEF AnthropicOpening
  <2>4. AnthropicBody(i, b) \in AnthropicSent
    BY DEF AnthropicBody, AnthropicSent
  <2>5. QED
    BY <2>3, <2>4
<1>3. QED
  BY <1>1, <1>2

LEMMA AnthropicBegunMore ==
  ASSUME NEW bs \in Seq(AnthropicBlock), NEW b \in AnthropicBlock, NEW n, n = Len(bs) + 1
  PROVE  /\ AnthropicBegun(<<>>) = Append(<<>>, AnthropicHead)
         /\ AnthropicBegun(bs) \in Seq(AnthropicSent)
         /\ AnthropicBegun(Append(bs, b)) =
              Append(Append(AnthropicBegun(bs), AnthropicOpening(n, b)), AnthropicBody(n, b))
<1> DEFINE t == Append(bs, b)
           X == AnthropicSent
           a == AnthropicBlocks(bs)
           c == AnthropicBlocks(t)
           k == Len(bs)
           x == AnthropicOpening(n, b)
           y == AnthropicBody(n, b)
           last == <<x, y>>
<1>1. /\ k \in Nat /\ n \in Nat /\ DOMAIN bs = 1..k /\ DOMAIN t = 1..n /\ t[n] = b
      /\ \A i \in 1..k : t[i] = bs[i] /\ bs[i] \in AnthropicBlock
  OBVIOUS
<1>2. x \in X /\ y \in X
  BY <1>1, AnthropicBlockIs
<1>3. AnthropicHead \in X
  BY DEF AnthropicSent
<1> HIDE DEF t, X, x, y
<1>4. a \in Seq(Seq(X)) /\ Len(a) = k
  <2> DEFINE e == [i \in 1..k |-> <<AnthropicOpening(i, bs[i]), AnthropicBody(i, bs[i])>>]
  <2>1. \A i \in 1..k : AnthropicOpening(i, bs[i]) \in X /\ AnthropicBody(i, bs[i]) \in X
    BY <1>1, AnthropicBlockIs DEF X
  <2>2. \A i \in 1..k : <<AnthropicOpening(i, bs[i]), AnthropicBody(i, bs[i])>> \in Seq(X)
    BY <2>1
  <2>3. e \in [1..k -> Seq(X)]
    BY <2>2
  <2>4. a = e
    BY <1>1 DEF AnthropicBlocks
  <2> HIDE DEF a, e
  <2>5. QED
    BY <1>1, <2>3, <2>4
<1>5. last \in Seq(X)
  BY <1>2
<1>6. c = Append(a, last)
  <2> DEFINE d == Append(a, last)
  <2>1. d = [i \in 1..n |-> d[i]] /\ d[n] = last /\ \A i \in 1..k : d[i] = a[i]
    BY <1>1, <1>4, <1>5, AppendIs
  <2>2. \A i \in 1..n : i \in 1..k \/ i = n
    BY <1>1
  <2> HIDE DEF d
  <2>3. \A i \in 1..k : a[i] = <<AnthropicOpening(i, t[i]), AnthropicBody(i, t[i])>>
    BY <1>1 DEF AnthropicBlocks
  <2>4. last = <<AnthropicOpening(n, t[n]), AnthropicBody(n, t[n])>>
    BY <1>1 DEF x, y
  <2> HIDE DEF a, last
  <2>5. \A i \in 1..n : d[i] = <<AnthropicOpening(i, t[i]), AnthropicBody(i, t[i])>>
    BY <2>1, <2>2, <2>3, <2>4
  <2>6. c = [i \in 1..n |-> <<AnthropicOpening(i, t[i]), AnthropicBody(i, t[i])>>]
    BY <1>1 DEF AnthropicBlocks
  <2>7. c = d
    BY <2>1, <2>5, <2>6
  <2>8. QED
    BY <2>7 DEF d
<1> DEFINE head == <<AnthropicHead>>
           all == Conversions!FlattenSeq(a)
<1> HIDE DEF a, c
<1>7. all \in Seq(X) /\ Conversions!FlattenSeq(c) = all \o Pair(x, y)
  <2> DEFINE l == last
  <2> HIDE DEF l, last
  <2>1. Conversions!FlattenSeq(Append(a, last)) = Conversions!FlattenSeq(a) \o last /\ Conversions!FlattenSeq(a) \in Seq(X)
    BY <1>4, <1>5, FlattenStep
  <2>2. QED
    BY <1>6, <2>1 DEF last, Pair
<1>8. head \in Seq(X)
  BY <1>3
<1> HIDE DEF head, all
<1>9. head \o all \in Seq(X)
  BY <1>7, <1>8
<1>10. head \o (all \o Pair(x, y)) = Append(Append(head \o all, x), y)
  <2>1. Joins(head, all, x, y)
    BY <1>2, <1>7, <1>8, JoinMore
  <2>2. QED
    BY <2>1 DEF Joins
<1>11. AnthropicBegun(bs) = head \o all /\ AnthropicBegun(t) = head \o Conversions!FlattenSeq(c)
  BY DEF AnthropicBegun, head, all, a, c
<1>12. AnthropicBegun(<<>>) = Append(<<>>, AnthropicHead)
  <2>1. AnthropicBlocks(<<>>) = <<>>
    BY DEF AnthropicBlocks
  <2>2. Conversions!FlattenSeq(AnthropicBlocks(<<>>)) = <<>>
    BY <2>1, FlattenStep
  <2>3. <<AnthropicHead>> \o <<>> = Append(<<>>, AnthropicHead)
    OBVIOUS
  <2>4. QED
    BY <2>2, <2>3 DEF AnthropicBegun
<1>13. QED
  BY <1>7, <1>9, <1>10, <1>11, <1>12 DEF x, y, t, X

\* What has been made of the first blocks of an Anthropic answer.
AnthropicSoFar(bs, acc) ==
  /\ acc \in Transcoded /\ acc.st.input = 3 /\ acc.st.stop = None
  /\ acc.st.next = Len(Conversions!OfType(bs, {"tool_use"}))
  /\ Sends(acc.out, Len(Conversions!OfType(bs, {"text"})), Len(Conversions!OfType(bs, {"tool_use"})),
           Len(Conversions!OfType(bs, {"tool_use"})))

LEMMA AnthropicBlockMore ==
  ASSUME NEW bs \in Seq(AnthropicBlock), NEW b \in AnthropicBlock, NEW n \in Nat,
         NEW acc, AnthropicSoFar(bs, acc),
         NEW o, o = Handled("anthropic", acc, AnthropicOpening(n, b)),
         NEW r, r = Handled("anthropic", o, AnthropicBody(n, b))
  PROVE  AnthropicSoFar(Append(bs, b), r)
<1> DEFINE t == Append(bs, b)
           k == Len(Conversions!OfType(bs, {"tool_use"}))
           x == Len(Conversions!OfType(bs, {"text"}))
           kk == Len(Conversions!OfType(t, {"tool_use"}))
           xx == Len(Conversions!OfType(t, {"text"}))
<1>1. b.type \in {"text", "tool_use", "thinking"}
  BY AnthropicBlockIs
<1>2. /\ acc \in Transcoded /\ acc.st.input = 3 /\ acc.st.stop = None /\ acc.st.next = k
      /\ Sends(acc.out, x, k, k)
  BY DEF AnthropicSoFar
<1>3. ASSUME NEW types
      PROVE  /\ b.type \in types => Len(Conversions!OfType(t, types)) = Len(Conversions!OfType(bs, types)) + 1
             /\ b.type \notin types => Len(Conversions!OfType(t, types)) = Len(Conversions!OfType(bs, types))
  BY TypesMore
<1>4. /\ b.type = "tool_use" => kk = k + 1
      /\ b.type # "tool_use" => kk = k
      /\ b.type = "text" => xx = x + 1
      /\ b.type # "text" => xx = x
  <2>1. b.type \in {"tool_use"} <=> b.type = "tool_use"
    OBVIOUS
  <2>2. b.type \in {"text"} <=> b.type = "text"
    OBVIOUS
  <2>3. QED
    BY <1>3, <2>1, <2>2
<1> HIDE DEF t, k, x, kk, xx
<1>5. SUFFICES r \in Transcoded /\ r.st.input = 3 /\ r.st.stop = None /\ r.st.next = kk /\ Sends(r.out, xx, kk, kk)
  BY DEF AnthropicSoFar, t, kk, xx
<1>6. b.type # "tool_use" => o \in Transcoded /\ o.st = acc.st /\ o.out = acc.out
  <2> SUFFICES ASSUME b.type # "tool_use" PROVE o \in Transcoded /\ o.st = acc.st /\ o.out = acc.out
    OBVIOUS
  <2>1. AnthropicOpening(n, b) = AnthropicOpens(n, FALSE)
    <3>1. (b.type = "tool_use") = FALSE
      OBVIOUS
    <3>2. QED
      BY <3>1 DEF AnthropicOpening
  <2>2. QED
    BY <1>2, <2>1, AnthropicPlain DEF Became
<1>7. CASE b.type = "text"
  <2>1. AnthropicBody(n, b) = AnthropicText
    BY <1>7 DEF AnthropicBody
  <2>2. r \in Transcoded /\ r.st = acc.st /\ r.out = Append(acc.out, Conversions!Text)
    BY <1>6, <1>7, <2>1, AnthropicPlain DEF Became
  <2>3. Sends(Append(acc.out, Conversions!Text), x + 1, k, k)
    BY <1>2, FramesAre, SendsMore
  <2>4. QED
    BY <1>2, <1>4, <1>7, <2>2, <2>3
<1>8. CASE b.type = "thinking"
  <2>1. AnthropicBody(n, b) = AnthropicPing
    BY <1>8 DEF AnthropicBody
  <2>2. r \in Transcoded /\ r.st = acc.st /\ r.out = acc.out
    BY <1>6, <1>8, <2>1, AnthropicPlain DEF Became
  <2>3. QED
    BY <1>2, <1>4, <1>8, <2>2
<1>9. CASE b.type = "tool_use"
  <2>1. AnthropicOpening(n, b) = AnthropicOpens(n, TRUE)
    <3>1. (b.type = "tool_use") = TRUE
      BY <1>9
    <3>2. QED
      BY <3>1 DEF AnthropicOpening
  <2>2. /\ o \in Transcoded /\ SameAccount(o.st, acc.st) /\ k \in Nat /\ o.st.next = k + 1
        /\ n \in DOMAIN o.st.tools /\ o.st.tools[n] = k
        /\ o.out = Append(acc.out, Conversions!tool_start_chunk(k))
    BY <1>2, <2>1, AnthropicOpened
  <2>3. Sends(o.out, x, k + 1, k)
    <3> DEFINE f == Conversions!tool_start_chunk(k)
    <3>1. f \in SentFrame /\ f.kind = "tool" /\ o.out = Append(acc.out, f)
      BY <2>2, FramesAre
    <3> HIDE DEF f
    <3>2. Sends(Append(acc.out, f), x, k + 1, k)
      BY <1>2, <3>1, SendsMore
    <3>3. QED
      BY <3>1, <3>2
  <2>4. AnthropicBody(n, b) = AnthropicArgs(n)
    BY <1>9 DEF AnthropicBody
  <2>5. r \in Transcoded /\ r.st = o.st /\ r.out = Append(o.out, Conversions!tool_args_chunk(k))
    BY <2>2, <2>4, AnthropicArgued DEF Became
  <2>6. Sends(r.out, x, k + 1, k + 1)
    <3> DEFINE f == Conversions!tool_args_chunk(k)
               m == k + 1
    <3>1. f \in SentFrame /\ f.kind = "args" /\ f.index = k /\ r.out = Append(o.out, f)
      BY <2>2, <2>5, FramesAre
    <3>2. Sends(o.out, x, m, k)
      BY <2>3
    <3> HIDE DEF f, m
    <3>3. Sends(Append(o.out, f), x, m, k + 1)
      BY <3>1, <3>2, SendsMore
    <3>4. QED
      BY <3>1, <3>3 DEF m
  <2>7. QED
    BY <1>2, <1>4, <1>9, <2>2, <2>5, <2>6 DEF SameAccount
<1>10. QED
  BY <1>1, <1>7, <1>8, <1>9

AnthropicMade(bs) == Conversions!handle("anthropic", Conversions!Fresh, AnthropicBegun(bs))

LEMMA NothingSent == Sends(<<>>, 0, 0, 0)
<1>1. \A kind : Of(<<>>, kind) = <<>>
  BY AmongStep DEF Of
<1>2. QED
  BY <1>1 DEF Sends

LEMMA AnthropicAnswered ==
  ASSUME NEW bs \in Seq(AnthropicBlock)
  PROVE  AnthropicSoFar(bs, AnthropicMade(bs))
<1> DEFINE X == AnthropicBlock
           K == {s \in Seq(X) : AnthropicSoFar(s, AnthropicMade(s))}
           H(s) == Conversions!handle("anthropic", Conversions!Fresh, s)
<1>1. /\ H(<<>>) = Started
      /\ \A s \in Seq(AnthropicSent) : H(s) \in Transcoded
      /\ \A s \in Seq(AnthropicSent), ev \in AnthropicSent : H(Append(s, ev)) = Handled("anthropic", H(s), ev)
  BY AnthropicHandles, HandleMore
<1>2. <<>> \in K
  <2> DEFINE h == Handled("anthropic", Started, AnthropicHead)
             e == <<>>
  <2>1. e \in Seq(AnthropicSent) /\ AnthropicHead \in AnthropicSent /\ e \in Seq(X)
    <3>1. AnthropicHead \in AnthropicSent
      BY DEF AnthropicSent
    <3>2. QED
      BY <3>1
  <2>2. AnthropicBegun(e) = Append(e, AnthropicHead)
    <3>1. Conversions!Block("text", "t") \in AnthropicBlock
      BY DEF AnthropicBlock
    <3>2. QED
      BY <2>1, <3>1, AnthropicBegunMore
  <2>3. H(e) = Started
    BY <1>1
  <2> HIDE DEF e, H
  <2>4. AnthropicMade(e) = h
    BY <1>1, <2>1, <2>2, <2>3 DEF AnthropicMade, H
  <2>5. Started \in Transcoded /\ Started.st.stop = None /\ Started.st.next = 0 /\ Started.st.role = FALSE /\ Started.out = <<>>
    BY StartedIs DEF Started, Conversions!Step, Conversions!Fresh
  <2>6. None \in Conversions!Stops
    BY DEF Conversions!Stops
  <2>7. /\ h \in Transcoded /\ h.st.input = 3 /\ h.st.next = 0 /\ h.st.stop = None
        /\ h.out = Append(<<>>, Conversions!Role)
    <3>1. /\ h \in Transcoded /\ h.st.input = 3 /\ h.st.next = Started.st.next /\ h.st.stop = Started.st.stop
          /\ h.out = IF Started.st.role THEN Started.out ELSE Append(Started.out, Conversions!Role)
      BY <2>5, <2>6, AnthropicTold
    <3> HIDE DEF h
    <3>2. QED
      BY <2>5, <3>1
  <2>8. Sends(Append(<<>>, Conversions!Role), 0, 0, 0)
    BY NothingSent, FramesAre, SendsMore
  <2>9. \A types : Len(Conversions!OfType(e, types)) = 0
    BY TypesNone DEF e
  <2> HIDE DEF h
  <2>10. AnthropicSoFar(e, h)
    BY <2>7, <2>8, <2>9 DEF AnthropicSoFar
  <2>11. QED
    BY <2>1, <2>4, <2>10 DEF e
<1>3. \A s \in Seq(X), b \in X : s \in K => Append(s, b) \in K
  <2> SUFFICES ASSUME NEW s \in Seq(X), NEW b \in X, AnthropicSoFar(s, AnthropicMade(s))
               PROVE  Append(s, b) \in Seq(X) /\ AnthropicSoFar(Append(s, b), AnthropicMade(Append(s, b)))
    OBVIOUS
  <2> DEFINE n == Len(s) + 1
             p == AnthropicBegun(s)
             x == AnthropicOpening(n, b)
             y == AnthropicBody(n, b)
             px == Append(p, x)
  <2>1. n \in Nat /\ Append(s, b) \in Seq(X)
    OBVIOUS
  <2>2. p \in Seq(AnthropicSent) /\ AnthropicBegun(Append(s, b)) = Append(Append(p, x), y)
    BY AnthropicBegunMore
  <2>3. x \in AnthropicSent /\ y \in AnthropicSent
    BY <2>1, AnthropicBlockIs
  <2> HIDE DEF n, p, x, y, H
  <2>4. px \in Seq(AnthropicSent)
    BY <2>2, <2>3
  <2>5. H(px) = Handled("anthropic", H(p), x)
    BY <1>1, <2>2, <2>3
  <2>6. AnthropicBegun(Append(s, b)) = Append(px, y)
    BY <2>2
  <2> HIDE DEF px
  <2>7. H(Append(px, y)) = Handled("anthropic", H(px), y)
    BY <1>1, <2>3, <2>4
  <2>8. AnthropicSoFar(Append(s, b), H(Append(px, y)))
    BY <2>1, <2>5, <2>7, AnthropicBlockMore DEF AnthropicMade, H, p, x, y
  <2>9. QED
    BY <2>1, <2>6, <2>8 DEF AnthropicMade, H
<1> HIDE DEF K
<1>4. bs \in K
  BY <1>2, <1>3, SequencesAll
<1>5. QED
  BY <1>4 DEF K

\* An answer is the same streamed or whole.
Agrees(api, whole, streamed) ==
  /\ streamed.texts = Len(whole.text) /\ streamed.calls = Len(whole.calls)
  /\ api = "anthropic" => streamed.args = [i \in 1..Len(whole.calls) |-> i - 1]
  /\ streamed.finish = whole.finish /\ streamed.usage = whole.usage

LEMMA AssembledIs ==
  ASSUME NEW api, NEW evs, NEW r, r = Conversions!handle(api, Conversions!Fresh, evs), r \in Transcoded,
         NEW texts, NEW calls, NEW args, Sends(r.out, texts, calls, args),
         NEW whole, Len(whole.text) = texts, Len(whole.calls) = calls,
         api = "anthropic" => calls = args,
         Conversions!FinalFrame(api, r.st).reason = whole.finish,
         Conversions!FinalFrame(api, r.st).usage = whole.usage
  PROVE  Agrees(api, whole, Conversions!Assembled(api, evs))
<1> DEFINE out == r.out
           T(kind) == {f \in Conversions!ToSet(out) : f.kind = kind}
           a == Conversions!Among(out, T("args"))
           s == Conversions!Assembled(api, evs)
<1>1. /\ s.texts = Len(Conversions!Among(out, T("text"))) /\ s.calls = Len(Conversions!Among(out, T("tool")))
      /\ s.args = [i \in DOMAIN a |-> a[i].index]
      /\ s.finish = Conversions!FinalFrame(api, r.st).reason /\ s.usage = Conversions!FinalFrame(api, r.st).usage
  BY DEF Conversions!Assembled
<1>2. out \in Seq(SentFrame)
  BY DEF Transcoded
<1> HIDE DEF out
<1>3. ASSUME NEW kind PROVE Conversions!Among(out, T(kind)) = Of(out, kind)
  <2> DEFINE S == {f \in SentFrame : f.kind = kind}
             U == T(kind)
  <2>1. \A i \in DOMAIN out : out[i] \in U <=> out[i] \in S
    BY <1>2 DEF Conversions!ToSet
  <2> HIDE DEF S, U
  <2>2. Conversions!Among(out, U) = Conversions!Among(out, S)
    BY <1>2, <2>1, AmongLocal
  <2>3. QED
    BY <2>2 DEF Of, S, U
<1> HIDE DEF T
<1>4. /\ Len(Of(out, "text")) = texts /\ Len(Of(out, "tool")) = calls /\ Len(Of(out, "args")) = args
      /\ \A i \in 1..args : Of(out, "args")[i].index = i - 1 /\ args \in Nat
  BY DEF Sends, out
<1>5. a = Of(out, "args") /\ a \in Seq(SentFrame)
  <2>1. {f \in SentFrame : f.kind = "args"} = {f \in SentFrame : f.kind = "args"}
    OBVIOUS
  <2>2. Of(out, "args") \in Seq(SentFrame)
    BY <1>2, AmongOf DEF Of
  <2>3. QED
    BY <1>3, <2>2
<1> HIDE DEF a, s
<1>6. DOMAIN a = 1..args /\ \A i \in 1..args : a[i].index = i - 1
  BY <1>4, <1>5
<1>7. [i \in DOMAIN a |-> a[i].index] = [i \in 1..args |-> i - 1]
  BY <1>6
<1>8. QED
  BY <1>1, <1>3, <1>4, <1>7 DEF Agrees, s

LEMMA TwoIs ==
  ASSUME NEW x, NEW y
  PROVE  <<x>> \o <<y>> = <<x, y>>
<1> DEFINE a == <<x>>
           X == {x, y}
           b == <<x, y>>
<1>1. a \in Seq(X) /\ y \in X
  OBVIOUS
<1>2. b = Append(Append(<<>>, x), y) /\ a = Append(<<>>, x)
  OBVIOUS
<1> HIDE DEF a, X, b
<1>3. a \o <<y>> = Append(a, y)
  BY <1>1
<1>4. QED
  BY <1>2, <1>3 DEF a, b

LEMMA AnthropicStreamIs ==
  ASSUME NEW bs \in Seq(AnthropicBlock), NEW stop \in Conversions!Stops, NEW res,
         res = [api |-> "anthropic", blocks |-> bs, stop |-> stop, input |-> 3, output |-> 5]
  PROVE  Conversions!AnthropicStream(res) = Append(AnthropicBegun(bs), AnthropicTail(stop))
<1> DEFINE Body(i) == CASE bs[i].type = "text" -> <<[type |-> "text_delta"]>>
                        [] bs[i].type = "tool_use" -> <<[type |-> "input_json_delta", index |-> i]>>
                        [] OTHER -> <<[type |-> "ping"]>>
           b == [i \in DOMAIN bs |->
                   <<[type |-> "content_block_start", index |-> i, tool |-> bs[i].type = "tool_use"]>> \o Body(i)]
           p == AnthropicBegun(bs)
           t == AnthropicTail(stop)
<1>1. res.blocks = bs /\ res.stop = stop /\ res.input = 3 /\ res.output = 5
  OBVIOUS
<1>2. Conversions!AnthropicStream(res) = <<AnthropicHead>> \o Conversions!FlattenSeq(b) \o <<t>>
  BY <1>1 DEF Conversions!AnthropicStream, AnthropicHead, AnthropicTail
<1>3. b = AnthropicBlocks(bs)
  <2>1. ASSUME NEW i \in DOMAIN bs
        PROVE  <<[type |-> "content_block_start", index |-> i, tool |-> bs[i].type = "tool_use"]>> \o Body(i)
                 = <<AnthropicOpening(i, bs[i]), AnthropicBody(i, bs[i])>>
    <3> DEFINE x == AnthropicOpening(i, bs[i])
               y == AnthropicBody(i, bs[i])
    <3>1. x = [type |-> "content_block_start", index |-> i, tool |-> bs[i].type = "tool_use"]
      BY DEF AnthropicOpening, AnthropicOpens
    <3>2. Body(i) = <<y>>
      BY DEF AnthropicBody, AnthropicText, AnthropicArgs, AnthropicPing
    <3> HIDE DEF x, y, Body
    <3>3. <<x>> \o <<y>> = <<x, y>>
      BY TwoIs
    <3>4. QED
      BY <3>1, <3>2, <3>3 DEF x, y
  <2> HIDE DEF Body
  <2>2. QED
    BY <2>1 DEF AnthropicBlocks
<1> HIDE DEF b, t
<1>4. Conversions!AnthropicStream(res) = p \o <<t>>
  BY <1>2, <1>3 DEF AnthropicBegun
<1>5. p \in Seq(AnthropicSent)
  <2>1. Conversions!Block("text", "t") \in AnthropicBlock
    BY DEF AnthropicBlock
  <2>2. QED
    BY <2>1, AnthropicBegunMore
<1> HIDE DEF p
<1>6. p \o <<t>> = Append(p, t)
  BY <1>5
<1>7. QED
  BY <1>4, <1>6 DEF p, t

LEMMA AnthropicAgrees ==
  ASSUME NEW res \in Conversions!AnthropicAnswers
  PROVE  /\ res.api = "anthropic"
         /\ Agrees("anthropic", Conversions!anthropic_response(res),
                   Conversions!Assembled("anthropic", Conversions!AnthropicStream(res)))
<1> DEFINE X == AnthropicBlock
<1>1. PICK bs \in Conversions!SeqOf(X, MaxBlocks), stop \in Conversions!Stops :
        res = [api |-> "anthropic", blocks |-> bs, stop |-> stop, input |-> 3, output |-> 5]
  BY DEF Conversions!AnthropicAnswers, AnthropicBlock
<1>2. bs \in Seq(X)
  <2> HIDE DEF X
  <2>1. PICK m \in 0..MaxBlocks : bs \in [1..m -> X]
    BY <1>1 DEF Conversions!SeqOf
  <2>2. m \in Nat
    BY <2>1, ConversionsAssumption DEF Conversions!ConversionAssumption
  <2>3. QED
    BY <2>1, <2>2
<1> DEFINE head == AnthropicBegun(bs)
           tail == AnthropicTail(stop)
           acc == AnthropicMade(bs)
           evs == Append(head, tail)
           r == Conversions!handle("anthropic", Conversions!Fresh, evs)
           k == Len(Conversions!OfType(bs, {"tool_use"}))
           x == Len(Conversions!OfType(bs, {"text"}))
           whole == Conversions!anthropic_response(res)
<1>3. AnthropicSoFar(bs, acc)
  BY <1>2, AnthropicAnswered
<1>4. head \in Seq(AnthropicSent) /\ tail \in AnthropicSent
  <2>1. Conversions!Block("text", "t") \in AnthropicBlock
    BY DEF AnthropicBlock
  <2>2. tail \in AnthropicSent
    BY <1>1 DEF AnthropicSent
  <2>3. QED
    BY <1>2, <2>1, <2>2, AnthropicBegunMore
<1>5. Conversions!AnthropicStream(res) = evs
  BY <1>1, <1>2, AnthropicStreamIs
<1> HIDE DEF X, head
<1>6. r = Handled("anthropic", acc, tail)
  BY <1>4, AnthropicHandles, HandleMore DEF AnthropicMade, head
<1> HIDE DEF tail, acc, r, evs
<1>7. /\ r \in Transcoded /\ r.st.input = 3 /\ r.st.output = 5 /\ r.st.stop = stop /\ r.out = acc.out
  <2>1. acc \in Transcoded /\ acc.st.input = 3 /\ acc.st.stop = None
    BY <1>3 DEF AnthropicSoFar
  <2>2. /\ r \in Transcoded /\ r.st.input = acc.st.input /\ r.st.output = 5 /\ r.out = acc.out
        /\ r.st.stop = IF stop = None THEN acc.st.stop ELSE stop
    BY <1>1, <1>6, <2>1, AnthropicTold DEF tail
  <2>3. QED
    BY <2>1, <2>2
<1>8. Sends(r.out, x, k, k)
  BY <1>3, <1>7 DEF AnthropicSoFar
<1>9. /\ Len(whole.text) = x /\ Len(whole.calls) = k
      /\ whole.finish = Conversions!map_stop_reason(stop)
      /\ whole.usage = [prompt |-> 3, completion |-> 5, total |-> 8]
  <2> DEFINE c == Conversions!OfType(bs, {"tool_use"})
  <2>1. whole = [text |-> Conversions!OfType(bs, {"text"}), calls |-> [i \in DOMAIN c |-> c[i].ref],
                 finish |-> Conversions!map_stop_reason(stop),
                 usage |-> [prompt |-> 3, completion |-> 5, total |-> 3 + 5]]
    BY <1>1 DEF Conversions!anthropic_response
  <2>2. c \in Seq(X)
    BY <1>2, TypesOf DEF X
  <2> HIDE DEF c
  <2>3. Len([i \in DOMAIN c |-> c[i].ref]) = Len(c)
    BY <2>2
  <2> HIDE DEF whole
  <2>4. QED
    BY <2>1, <2>3 DEF c
<1>10. /\ Conversions!FinalFrame("anthropic", r.st).reason = Conversions!map_stop_reason(stop)
       /\ Conversions!FinalFrame("anthropic", r.st).usage = [prompt |-> 3, completion |-> 5, total |-> 8]
  BY <1>7 DEF Conversions!FinalFrame, Conversions!Frame
<1> HIDE DEF whole, k, x
<1>11. Agrees("anthropic", whole, Conversions!Assembled("anthropic", evs))
  BY <1>7, <1>8, <1>9, <1>10, AssembledIs DEF r
<1>12. res.api = "anthropic"
  BY <1>1
<1>13. QED
  BY <1>5, <1>11, <1>12 DEF whole

LEMMA HandledTwo ==
  ASSUME NEW p, NEW acc \in Transcoded, NEW ev, NEW st \in TranscoderState, NEW f \in SentFrame, NEW g \in SentFrame,
         Becomes(p, acc, ev, st, Pair(f, g))
  PROVE  Became(p, acc, ev, st, Append(Append(acc.out, f), g))
<1> DEFINE s == acc.out
           e == <<>>
           t == Append(s, f)
<1>1. s \in Seq(SentFrame) /\ e \in Seq(SentFrame)
  BY DEF Transcoded
<1>2. Pair(f, g) \in Seq(SentFrame) /\ Pair(f, g) = Append(Append(e, f), g) /\ Append(e, f) \in Seq(SentFrame)
  BY DEF Pair
<1>3. Became(p, acc, ev, st, s \o Pair(f, g))
  BY <1>2, HandledIs
<1> HIDE DEF s
<1>4. s \o Append(e, f) = Append(s, f)
  BY <1>1
<1> DEFINE ef == Append(e, f)
<1>5. Pair(f, g) = Append(ef, g) /\ ef \in Seq(SentFrame) /\ s \o ef = t
  BY <1>2, <1>4
<1> HIDE DEF t, ef, e
<1>6. s \o Pair(f, g) = Append(t, g)
  BY <1>1, <1>5
<1>7. QED
  BY <1>3, <1>6 DEF s, t

GeminiBlock == {Conversions!Block("text", "t"), Conversions!Block("functionCall", "f")}
GeminiUsage == {[prompt |-> 3, candidates |-> 5, total |-> t] : t \in {None, 9}}
GeminiPart(b) == IF b.type = "text" THEN "text" ELSE "call"
GeminiChunk(b) == [error |-> FALSE, finish |-> None, usage |-> None, parts |-> <<GeminiPart(b)>>]
GeminiTail(stop, used) == [error |-> FALSE, finish |-> stop, usage |-> used, parts |-> <<>>]
GeminiSent ==
  {GeminiChunk(b) : b \in GeminiBlock}
    \cup {GeminiTail(stop, used) : stop \in Conversions!GeminiStops, used \in GeminiUsage}

GeminiFrame(st, b) == IF b.type = "text" THEN Conversions!Text ELSE Conversions!tool_start_chunk(st.next)

LEMMA GeminiPartsAre ==
  ASSUME NEW b \in GeminiBlock, NEW st \in TranscoderState
  PROVE  /\ Conversions!gemini_parts(st, <<GeminiPart(b)>>) = Only(GeminiFrame(st, b))
         /\ Conversions!gemini_parts(st, <<>>) = Nothing
         /\ Conversions!Calls(<<GeminiPart(b)>>) = IF b.type = "text" THEN 0 ELSE 1
         /\ Conversions!Calls(<<>>) = 0
<1> DEFINE p == GeminiPart(b)
           e == <<>>
           X == {"text", "call"}
           one == <<p>>
<1>1. p \in X /\ (p = "text" <=> b.type = "text") /\ (p = "call" <=> b.type # "text")
  BY DEF GeminiPart
<1>2. one = Append(e, p) /\ e \in Seq(X)
  OBVIOUS
<1>3. Conversions!Calls(e) = 0
  BY AmongStep DEF Conversions!Calls
<1> HIDE DEF p
<1>4. SubSeq(one, 1, 1 - 1) = e /\ DOMAIN one = 1..1 /\ one[1] = p /\ 1..1 = {1}
  OBVIOUS
<1>5. Conversions!Calls(one) = IF b.type = "text" THEN 0 ELSE 1
  <2> DEFINE C == {"call"}
             a == Append(e, p)
  <2>1. Conversions!Among(e, C) = e /\ Len(e) = 0 /\ Len(a) = 1
    BY AmongStep
  <2>2. p \in C <=> b.type # "text"
    BY <1>1
  <2> HIDE DEF X, one, C, e
  <2>3. /\ p \in C => Conversions!Among(a, C) = Append(Conversions!Among(e, C), p)
        /\ p \notin C => Conversions!Among(a, C) = Conversions!Among(e, C)
    BY <1>1, <1>2, AmongMore
  <2>4. Conversions!Calls(one) = Len(Conversions!Among(a, C))
    BY <1>2 DEF Conversions!Calls, C
  <2>5. p \in C => Conversions!Among(a, C) = a
    BY <2>1, <2>3
  <2>6. p \notin C => Conversions!Among(a, C) = e
    BY <2>1, <2>3
  <2> HIDE DEF a
  <2>7. QED
    BY <2>1, <2>2, <2>4, <2>5, <2>6
<1>6. st.next \in Nat
  BY DEF TranscoderState
<1>7. Conversions!gemini_parts(st, one) = Only(GeminiFrame(st, b))
  <2> DEFINE F(i) == IF one[i] = "text" THEN Conversions!Text
                     ELSE Conversions!tool_start_chunk(st.next + Conversions!Calls(SubSeq(one, 1, i - 1)))
             f == GeminiFrame(st, b)
  <2>1. Conversions!gemini_parts(st, one) = [i \in DOMAIN one |-> F(i)]
    BY DEF Conversions!gemini_parts
  <2> HIDE DEF one
  <2>2. st.next + Conversions!Calls(SubSeq(one, 1, 1 - 1)) = st.next
    <3> DEFINE z == SubSeq(one, 1, 1 - 1)
    <3>1. Conversions!Calls(z) = 0
      BY <1>3, <1>4
    <3> HIDE DEF z
    <3>2. st.next + Conversions!Calls(z) = st.next
      BY <1>6, <3>1
    <3>3. QED
      BY <3>2 DEF z
  <2>3. F(1) = f
    BY <1>1, <1>4, <2>2 DEF GeminiFrame
  <2> HIDE DEF F, f
  <2>4. [i \in DOMAIN one |-> F(i)] = [i \in {1} |-> f]
    BY <1>4, <2>3
  <2>5. <<f>> = [i \in {1} |-> f]
    BY <1>4
  <2>6. QED
    BY <2>1, <2>4, <2>5 DEF Only, f
<1>8. Conversions!gemini_parts(st, <<>>) = Nothing
  BY DEF Conversions!gemini_parts, Nothing
<1>9. QED
  BY <1>3, <1>5, <1>7, <1>8 DEF p

LEMMA GeminiChunked ==
  ASSUME NEW acc \in Transcoded, NEW b \in GeminiBlock, NEW r, r = Handled("gemini", acc, GeminiChunk(b)),
         NEW f, f = GeminiFrame(acc.st, b)
  PROVE  /\ r \in Transcoded /\ r.st.stop = acc.st.stop
         /\ f \in SentFrame /\ f.kind = IF b.type = "text" THEN "text" ELSE "tool"
         /\ r.out = IF acc.st.role THEN Append(acc.out, f) ELSE Append(Append(acc.out, Conversions!Role), f)
<1> DEFINE st == acc.st
           piece == GeminiPart(b)
           c == Conversions!Calls(<<piece>>)
           new == [st EXCEPT !.role = TRUE, !.next = @ + c]
           parts == Conversions!gemini_parts(st, <<piece>>)
           started == IF st.role THEN Nothing ELSE Only(Conversions!Role)
           ev == GeminiChunk(b)
<1>1. st \in TranscoderState /\ Conversions!Role \in SentFrame
  BY FramesAre DEF Transcoded
<1>2. parts = Only(f) /\ c \in Nat
  BY <1>1, GeminiPartsAre
<1>3. f \in SentFrame /\ f.kind = IF b.type = "text" THEN "text" ELSE "tool"
  BY <1>1, FramesAre DEF GeminiFrame, TranscoderState
<1>4. Becomes("gemini", acc, ev, new, started \o parts)
  <2>1. ev.error = FALSE /\ ev.finish = None /\ ev.usage = None /\ ev.parts = <<piece>>
    BY DEF GeminiChunk
  <2> HIDE DEF ev, piece
  <2>2. Conversions!HandleEvent("gemini", st, ev) = Conversions!gemini(st, ev)
    BY DEF Conversions!HandleEvent
  <2>3. Conversions!gemini(st, ev)
          = Conversions!Step([st EXCEPT !.role = TRUE, !.next = @ + c, !.stop = @, !.input = @, !.output = @,
                                        !.total = @], started \o parts)
    BY <2>1 DEF Conversions!gemini, Nothing, Only
  <2>4. [st EXCEPT !.role = TRUE, !.next = @ + c, !.stop = @, !.input = @, !.output = @, !.total = @] = new
    <3> DEFINE s == st
               bufs == {<<>>}
               maps == UNION {[D -> Nat] : D \in SUBSET Nat}
    <3>1. s \in [buf : bufs, input : Nat, output : Nat, total : Nat, stop : AllStops, role : BOOLEAN,
                 tools : maps, next : Nat, done : {FALSE}]
      BY <1>1 DEF TranscoderState
    <3> HIDE DEF s, bufs, maps, c
    <3>2. [s EXCEPT !.role = TRUE, !.next = @ + c, !.stop = @, !.input = @, !.output = @, !.total = @]
            = [s EXCEPT !.role = TRUE, !.next = @ + c]
      BY <3>1
    <3>3. QED
      BY <3>2 DEF s
  <2>5. QED
    BY <2>2, <2>3, <2>4 DEF Becomes
<1> HIDE DEF ev, parts, c, piece
<1>5. new \in TranscoderState /\ new.stop = st.stop
  <2> DEFINE bufs == {<<>>}
             maps == UNION {[D -> Nat] : D \in SUBSET Nat}
  <2>1. TranscoderState = [buf : bufs, input : Nat, output : Nat, total : Nat, stop : AllStops, role : BOOLEAN,
                      tools : maps, next : Nat, done : {FALSE}]
    BY DEF TranscoderState
  <2> HIDE DEF bufs, maps, st
  <2>2. st.next + c \in Nat
    BY <1>1, <1>2, <2>1
  <2>3. QED
    BY <1>1, <2>1, <2>2
<1> HIDE DEF new
<1>6. CASE st.role
  <2>1. Nothing \o Only(f) = Only(f)
    BY DEF Nothing, Only
  <2>2. Becomes("gemini", acc, ev, new, Only(f))
    BY <1>2, <1>4, <1>6, <2>1
  <2>3. Became("gemini", acc, ev, new, Append(acc.out, f))
    BY <1>3, <1>5, <2>2, HandledOne
  <2>4. QED
    BY <1>3, <1>5, <1>6, <2>3 DEF Became, ev
<1>7. CASE ~st.role
  <2>1. Only(Conversions!Role) \o Only(f) = Pair(Conversions!Role, f)
    BY TwoIs DEF Only, Pair
  <2>2. Becomes("gemini", acc, ev, new, Pair(Conversions!Role, f))
    BY <1>2, <1>4, <1>7, <2>1
  <2>3. Became("gemini", acc, ev, new, Append(Append(acc.out, Conversions!Role), f))
    BY <1>1, <1>3, <1>5, <2>2, HandledTwo
  <2>4. QED
    BY <1>3, <1>5, <1>7, <2>3 DEF Became, ev
<1>8. QED
  BY <1>6, <1>7

LEMMA GeminiTold ==
  ASSUME NEW acc \in Transcoded, NEW stop \in Conversions!GeminiStops, NEW used \in GeminiUsage,
         NEW r, r = Handled("gemini", acc, GeminiTail(stop, used)), NEW u, u = Conversions!usage_metadata(used)
  PROVE  /\ r \in Transcoded /\ r.st.stop = IF stop = None THEN acc.st.stop ELSE stop
         /\ r.st.input = 3 /\ r.st.output = 5 /\ r.st.total = u.total
         /\ u.prompt = 3 /\ u.candidates = 5 /\ u.total \in Nat /\ u.total > 0
         /\ r.out = IF acc.st.role THEN acc.out ELSE Append(acc.out, Conversions!Role)
<1> DEFINE st == acc.st
           total == u.total
           new == [st EXCEPT !.role = TRUE, !.next = @ + Conversions!Calls(<<>>),
                             !.stop = IF stop = None THEN @ ELSE stop,
                             !.input = 3, !.output = 5, !.total = total]
           started == IF st.role THEN Nothing ELSE Only(Conversions!Role)
           ev == GeminiTail(stop, used)
<1>1. st \in TranscoderState /\ Conversions!Role \in SentFrame /\ stop \in AllStops
  BY FramesAre DEF Transcoded, AllStops
<1>2. PICK t \in {None, 9} : used = [prompt |-> 3, candidates |-> 5, total |-> t]
  BY DEF GeminiUsage
<1>3. u = [prompt |-> 3, candidates |-> 5, total |-> IF t = None THEN 8 ELSE t]
  BY <1>2 DEF Conversions!usage_metadata
<1>4. total \in Nat /\ total > 0 /\ u.prompt = 3 /\ u.candidates = 5
  BY <1>2, <1>3
<1>5. used # None /\ u # None
  <2>1. \A v \in Nat \cup {None} : None # [prompt |-> 3, candidates |-> 5, total |-> v]
    BY ConversionsAssumption DEF Conversions!ConversionAssumption
  <2>2. (IF t = None THEN 8 ELSE t) \in Nat \cup {None} /\ t \in Nat \cup {None}
    BY <1>2
  <2>3. QED
    BY <1>2, <1>3, <2>1, <2>2
<1>6. Conversions!gemini_parts(st, <<>>) = Nothing /\ Conversions!Calls(<<>>) = 0
  <2>1. Conversions!Block("text", "t") \in GeminiBlock
    BY DEF GeminiBlock
  <2>2. QED
    BY <1>1, <2>1, GeminiPartsAre
<1>7. Becomes("gemini", acc, ev, new, started \o Nothing)
  <2>1. ev.error = FALSE /\ ev.finish = stop /\ ev.usage = used /\ ev.parts = <<>>
    BY DEF GeminiTail
  <2> HIDE DEF ev, total
  <2>2. Conversions!HandleEvent("gemini", st, ev) = Conversions!gemini(st, ev)
    BY DEF Conversions!HandleEvent
  <2>3. Conversions!gemini(st, ev) = Conversions!Step(new, started \o Nothing)
    BY <1>4, <1>5, <1>6, <2>1 DEF Conversions!gemini, Nothing, Only, total
  <2>4. QED
    BY <2>2, <2>3 DEF Becomes
<1> HIDE DEF ev, total
<1>8. /\ new \in TranscoderState /\ new.stop = (IF stop = None THEN st.stop ELSE stop)
      /\ new.input = 3 /\ new.output = 5 /\ new.total = total
  <2> DEFINE bufs == {<<>>}
             maps == UNION {[D -> Nat] : D \in SUBSET Nat}
             e == Conversions!Calls(<<>>)
             n == st.next + e
             s == IF stop = None THEN st.stop ELSE stop
  <2>1. TranscoderState = [buf : bufs, input : Nat, output : Nat, total : Nat, stop : AllStops, role : BOOLEAN,
                      tools : maps, next : Nat, done : {FALSE}]
    BY DEF TranscoderState
  <2>2. e \in Nat
    BY <1>6
  <2> HIDE DEF bufs, maps, st, e
  <2>3. n \in Nat /\ s \in AllStops
    BY <1>1, <2>1, <2>2
  <2>4. new = [st EXCEPT !.role = TRUE, !.next = n, !.stop = s, !.input = 3, !.output = 5, !.total = total]
    BY DEF e
  <2> HIDE DEF new, n, s
  <2>5. new \in TranscoderState /\ new.stop = s /\ new.input = 3 /\ new.output = 5 /\ new.total = total
    BY <1>1, <1>4, <2>1, <2>3, <2>4
  <2>6. QED
    BY <2>5 DEF s
<1> HIDE DEF new
<1>9. CASE st.role
  <2>1. Nothing \o Nothing = Nothing
    BY DEF Nothing
  <2>2. Becomes("gemini", acc, ev, new, Nothing)
    BY <1>7, <1>9, <2>1
  <2>3. Became("gemini", acc, ev, new, acc.out)
    BY <1>8, <2>2, HandledNone
  <2>4. QED
    BY <1>4, <1>8, <1>9, <2>3 DEF Became, ev, total
<1>10. CASE ~st.role
  <2> DEFINE f == Conversions!Role
  <2> HIDE DEF f
  <2>1. Only(f) \o Nothing = Only(f)
    BY DEF Nothing, Only
  <2>2. Becomes("gemini", acc, ev, new, Only(f))
    BY <1>7, <1>10, <2>1 DEF f
  <2>3. Became("gemini", acc, ev, new, Append(acc.out, f))
    BY <1>1, <1>8, <2>2, HandledOne DEF f
  <2>4. QED
    BY <1>4, <1>8, <1>10, <2>3 DEF Became, ev, total, f
<1>11. QED
  BY <1>9, <1>10

LEMMA GeminiHandles == Handles("gemini", GeminiSent)
<1> SUFFICES ASSUME NEW acc \in Transcoded, NEW ev \in GeminiSent
             PROVE  Handled("gemini", acc, ev) \in Transcoded
  BY DEF Handles
<1>1. CASE \E b \in GeminiBlock : ev = GeminiChunk(b)
  BY <1>1, GeminiChunked
<1>2. CASE \E stop \in Conversions!GeminiStops, used \in GeminiUsage : ev = GeminiTail(stop, used)
  BY <1>2, GeminiTold
<1>3. QED
  BY <1>1, <1>2 DEF GeminiSent

GeminiBegun(bs) == [i \in DOMAIN bs |-> GeminiChunk(bs[i])]

LEMMA GeminiBegunMore ==
  ASSUME NEW bs \in Seq(GeminiBlock)
  PROVE  /\ GeminiBegun(<<>>) = <<>>
         /\ GeminiBegun(bs) \in Seq(GeminiSent)
         /\ \A b \in GeminiBlock : GeminiBegun(Append(bs, b)) = Append(GeminiBegun(bs), GeminiChunk(b))
<1> DEFINE a == GeminiBegun(bs)
           k == Len(bs)
           X == GeminiSent
<1>1. k \in Nat /\ DOMAIN bs = 1..k /\ \A i \in 1..k : bs[i] \in GeminiBlock
  OBVIOUS
<1>2. \A b \in GeminiBlock : GeminiChunk(b) \in X
  BY DEF GeminiSent
<1> HIDE DEF X, k
<1>3. a \in Seq(X) /\ Len(a) = k /\ \A i \in 1..k : a[i] = GeminiChunk(bs[i])
  <2> DEFINE e == [i \in 1..k |-> GeminiChunk(bs[i])]
  <2>1. e \in [1..k -> X]
    BY <1>1, <1>2
  <2>2. a = e
    BY <1>1 DEF GeminiBegun
  <2>3. \A i \in 1..k : e[i] = GeminiChunk(bs[i])
    OBVIOUS
  <2> HIDE DEF e, a
  <2>4. QED
    BY <1>1, <2>1, <2>2, <2>3
<1>4. ASSUME NEW b \in GeminiBlock PROVE GeminiBegun(Append(bs, b)) = Append(a, GeminiChunk(b))
  <2> DEFINE t == Append(bs, b)
             c == GeminiBegun(t)
             x == GeminiChunk(b)
             d == Append(a, x)
             n == k + 1
  <2>1. DOMAIN t = 1..n /\ t[n] = b /\ \A i \in 1..k : t[i] = bs[i]
    BY <1>1 DEF k
  <2>2. x \in X
    BY <1>2
  <2>3. x = GeminiChunk(t[n])
    BY <2>1
  <2> HIDE DEF a, x
  <2>4. d = [i \in 1..n |-> d[i]] /\ d[n] = x /\ \A i \in 1..k : d[i] = a[i]
    BY <1>3, <2>2, AppendIs
  <2>5. \A i \in 1..n : i \in 1..k \/ i = n
    BY <1>1
  <2> HIDE DEF t, d, n
  <2>6. \A i \in 1..n : d[i] = GeminiChunk(t[i])
    BY <1>3, <2>1, <2>3, <2>4, <2>5
  <2>7. c = [i \in 1..n |-> GeminiChunk(t[i])]
    BY <2>1 DEF GeminiBegun
  <2>8. c = d
    BY <2>4, <2>6, <2>7
  <2>9. QED
    BY <2>8 DEF d, x, t
<1>5. GeminiBegun(<<>>) = <<>>
  BY DEF GeminiBegun
<1>6. QED
  BY <1>3, <1>4, <1>5 DEF X

\* What has been made of the first blocks of a Gemini answer.
GeminiSoFar(bs, acc) ==
  /\ acc \in Transcoded /\ acc.st.stop = None
  /\ Sends(acc.out, Len(Conversions!OfType(bs, {"text"})), Len(Conversions!OfType(bs, {"functionCall"})), 0)

LEMMA GeminiBlockMore ==
  ASSUME NEW bs \in Seq(GeminiBlock), NEW b \in GeminiBlock, NEW acc, GeminiSoFar(bs, acc),
         NEW r, r = Handled("gemini", acc, GeminiChunk(b))
  PROVE  GeminiSoFar(Append(bs, b), r)
<1> DEFINE t == Append(bs, b)
           k == Len(Conversions!OfType(bs, {"functionCall"}))
           x == Len(Conversions!OfType(bs, {"text"}))
           kk == Len(Conversions!OfType(t, {"functionCall"}))
           xx == Len(Conversions!OfType(t, {"text"}))
           f == GeminiFrame(acc.st, b)
           role == Conversions!Role
           out == IF acc.st.role THEN acc.out ELSE Append(acc.out, role)
<1>1. b.type \in {"text", "functionCall"}
  BY DEF GeminiBlock, Conversions!Block
<1>2. acc \in Transcoded /\ acc.st.stop = None /\ Sends(acc.out, x, k, 0)
  BY DEF GeminiSoFar
<1>3. ASSUME NEW types
      PROVE  /\ b.type \in types => Len(Conversions!OfType(t, types)) = Len(Conversions!OfType(bs, types)) + 1
             /\ b.type \notin types => Len(Conversions!OfType(t, types)) = Len(Conversions!OfType(bs, types))
  BY TypesMore
<1>4. /\ b.type = "functionCall" => kk = k + 1 /\ xx = x
      /\ b.type = "text" => xx = x + 1 /\ kk = k
  <2>1. b.type \in {"functionCall"} <=> b.type = "functionCall"
    OBVIOUS
  <2>2. b.type \in {"text"} <=> b.type = "text"
    OBVIOUS
  <2>3. QED
    BY <1>3, <2>1, <2>2
<1>5. /\ r \in Transcoded /\ r.st.stop = acc.st.stop
      /\ f \in SentFrame /\ f.kind = (IF b.type = "text" THEN "text" ELSE "tool")
      /\ r.out = IF acc.st.role THEN Append(acc.out, f) ELSE Append(Append(acc.out, role), f)
  BY <1>2, GeminiChunked
<1>6. role \in SentFrame /\ role.kind = "role"
  BY FramesAre
<1> HIDE DEF t, k, x, kk, xx, f, role
<1>7. Sends(Append(acc.out, role), x, k, 0)
  BY <1>2, <1>6, SendsMore
<1>8. Sends(out, x, k, 0) /\ r.out = Append(out, f)
  BY <1>2, <1>5, <1>7
<1> HIDE DEF out
<1>9. b.type = "text" => Sends(Append(out, f), x + 1, k, 0)
  BY <1>5, <1>8, SendsMore
<1>10. b.type = "functionCall" => Sends(Append(out, f), x, k + 1, 0)
  BY <1>5, <1>8, SendsMore
<1>11. Sends(r.out, xx, kk, 0)
  BY <1>1, <1>4, <1>8, <1>9, <1>10
<1>12. QED
  BY <1>2, <1>5, <1>11 DEF GeminiSoFar, t, kk, xx

GeminiMade(bs) == Conversions!handle("gemini", Conversions!Fresh, GeminiBegun(bs))

LEMMA GeminiAnswered ==
  ASSUME NEW bs \in Seq(GeminiBlock)
  PROVE  GeminiSoFar(bs, GeminiMade(bs))
<1> DEFINE X == GeminiBlock
           K == {s \in Seq(X) : GeminiSoFar(s, GeminiMade(s))}
           H(s) == Conversions!handle("gemini", Conversions!Fresh, s)
<1>1. /\ H(<<>>) = Started
      /\ \A s \in Seq(GeminiSent), ev \in GeminiSent : H(Append(s, ev)) = Handled("gemini", H(s), ev)
  BY GeminiHandles, HandleMore
<1>2. <<>> \in K
  <2>1. Started \in Transcoded /\ Started.st.stop = None /\ Started.out = <<>>
    BY StartedIs DEF Started, Conversions!Step, Conversions!Fresh
  <2>2. \A types : Len(Conversions!OfType(<<>>, types)) = 0
    BY TypesNone
  <2>3. GeminiSoFar(<<>>, Started)
    BY <2>1, <2>2, NothingSent DEF GeminiSoFar
  <2>4. GeminiMade(<<>>) = Started
    <3>1. GeminiBegun(<<>>) = <<>>
      BY DEF GeminiBegun
    <3>2. QED
      BY <1>1, <3>1 DEF GeminiMade
  <2>5. QED
    BY <2>3, <2>4
<1>3. \A s \in Seq(X), b \in X : s \in K => Append(s, b) \in K
  <2> SUFFICES ASSUME NEW s \in Seq(X), NEW b \in X, GeminiSoFar(s, GeminiMade(s))
               PROVE  Append(s, b) \in Seq(X) /\ GeminiSoFar(Append(s, b), GeminiMade(Append(s, b)))
    OBVIOUS
  <2> DEFINE p == GeminiBegun(s)
             x == GeminiChunk(b)
  <2>1. Append(s, b) \in Seq(X)
    OBVIOUS
  <2>2. p \in Seq(GeminiSent) /\ GeminiBegun(Append(s, b)) = Append(p, x)
    BY GeminiBegunMore
  <2>3. x \in GeminiSent
    BY DEF GeminiSent
  <2> HIDE DEF p, x, H
  <2>4. H(Append(p, x)) = Handled("gemini", H(p), x)
    BY <1>1, <2>2, <2>3
  <2>5. GeminiSoFar(Append(s, b), H(Append(p, x)))
    BY <2>4, GeminiBlockMore DEF GeminiMade, H, p, x
  <2>6. QED
    BY <2>1, <2>2, <2>5 DEF GeminiMade, H
<1> HIDE DEF K
<1>4. bs \in K
  BY <1>2, <1>3, SequencesAll
<1>5. QED
  BY <1>4 DEF K

LEMMA GeminiAgrees ==
  ASSUME NEW res \in Conversions!GeminiAnswers
  PROVE  /\ res.api = "gemini"
         /\ Agrees("gemini", Conversions!gemini_response(res),
                   Conversions!Assembled("gemini", Conversions!GeminiStream(res)))
<1> DEFINE X == GeminiBlock
<1>1. PICK bs \in Conversions!SeqOf(X, MaxBlocks), stop \in Conversions!GeminiStops, used \in GeminiUsage :
        res = [api |-> "gemini", blocks |-> bs, stop |-> stop, blocked |-> FALSE, usage |-> used]
  BY DEF Conversions!GeminiAnswers, GeminiBlock, GeminiUsage
<1>2. bs \in Seq(X)
  <2> HIDE DEF X
  <2>1. PICK m \in 0..MaxBlocks : bs \in [1..m -> X]
    BY <1>1 DEF Conversions!SeqOf
  <2>2. m \in Nat
    BY <2>1, ConversionsAssumption DEF Conversions!ConversionAssumption
  <2>3. QED
    BY <2>1, <2>2
<1> DEFINE head == GeminiBegun(bs)
           tail == GeminiTail(stop, used)
           acc == GeminiMade(bs)
           evs == Append(head, tail)
           r == Conversions!handle("gemini", Conversions!Fresh, evs)
           k == Len(Conversions!OfType(bs, {"functionCall"}))
           x == Len(Conversions!OfType(bs, {"text"}))
           whole == Conversions!gemini_response(res)
           u == Conversions!usage_metadata(used)
<1>3. GeminiSoFar(bs, acc)
  BY <1>2, GeminiAnswered
<1>4. head \in Seq(GeminiSent) /\ tail \in GeminiSent
  BY <1>1, <1>2, GeminiBegunMore DEF GeminiSent
<1>5. Conversions!GeminiStream(res) = evs
  <2>1. Conversions!GeminiStream(res) = head \o <<tail>>
    BY <1>1 DEF Conversions!GeminiStream, GeminiBegun, GeminiChunk, GeminiTail, GeminiPart
  <2> HIDE DEF head, tail
  <2>2. head \o <<tail>> = Append(head, tail)
    BY <1>4
  <2>3. QED
    BY <2>1, <2>2
<1> HIDE DEF X, head
<1>6. r = Handled("gemini", acc, tail)
  BY <1>4, GeminiHandles, HandleMore DEF GeminiMade, head
<1> HIDE DEF tail, acc, r, evs, u
<1>7. /\ r \in Transcoded /\ r.st.input = 3 /\ r.st.output = 5 /\ r.st.stop = stop /\ r.st.total = u.total
      /\ u.prompt = 3 /\ u.candidates = 5 /\ u.total \in Nat /\ u.total > 0 /\ Sends(r.out, x, k, 0)
  <2>1. acc \in Transcoded /\ acc.st.stop = None /\ Sends(acc.out, x, k, 0)
    BY <1>3 DEF GeminiSoFar
  <2>2. /\ r \in Transcoded /\ r.st.input = 3 /\ r.st.output = 5 /\ r.st.total = u.total
        /\ u.prompt = 3 /\ u.candidates = 5 /\ u.total \in Nat /\ u.total > 0
        /\ r.st.stop = (IF stop = None THEN acc.st.stop ELSE stop)
        /\ r.out = IF acc.st.role THEN acc.out ELSE Append(acc.out, Conversions!Role)
    BY <1>1, <1>6, <2>1, GeminiTold DEF tail, u
  <2> DEFINE f == Conversions!Role
  <2>3. f \in SentFrame /\ f.kind = "role"
    BY FramesAre
  <2> HIDE DEF f, x, k
  <2>4. Sends(Append(acc.out, f), x, k, 0)
    BY <2>1, <2>3, SendsMore
  <2>5. QED
    BY <2>1, <2>2, <2>4 DEF f
<1>8. /\ Len(whole.text) = x /\ Len(whole.calls) = k
      /\ whole.finish = Conversions!map_finish_reason(stop)
      /\ whole.usage = [prompt |-> u.prompt, completion |-> u.candidates, total |-> u.total]
  <2> DEFINE c == Conversions!OfType(bs, {"functionCall"})
  <2>1. whole = [text |-> Conversions!OfType(bs, {"text"}), calls |-> [i \in DOMAIN c |-> Conversions!call_id(i)],
                 finish |-> Conversions!map_finish_reason(stop),
                 usage |-> [prompt |-> u.prompt, completion |-> u.candidates, total |-> u.total]]
    BY <1>1 DEF Conversions!gemini_response, u
  <2>2. c \in Seq(X)
    BY <1>2, TypesOf DEF X
  <2> HIDE DEF c
  <2>3. Len([i \in DOMAIN c |-> Conversions!call_id(i)]) = Len(c)
    BY <2>2
  <2> HIDE DEF whole
  <2>4. QED
    BY <2>1, <2>3 DEF c
<1>9. /\ Conversions!FinalFrame("gemini", r.st).reason = Conversions!map_finish_reason(stop)
      /\ Conversions!FinalFrame("gemini", r.st).usage = [prompt |-> 3, completion |-> 5, total |-> u.total]
  BY <1>7 DEF Conversions!FinalFrame, Conversions!Frame
<1> HIDE DEF whole, k, x
<1>10. Agrees("gemini", whole, Conversions!Assembled("gemini", evs))
  <2>1. "gemini" # "anthropic"
    OBVIOUS
  <2>2. QED
    BY <1>7, <1>8, <1>9, <2>1, AssembledIs DEF r
<1>11. res.api = "gemini"
  BY <1>1
<1>12. QED
  BY <1>5, <1>10, <1>11 DEF whole

-----------------------------------------------------------------------------
\* The inductive invariant: a conversation of messages or an answer of a vendor, and what was made
\* of it is right.
ConversionsInv ==
  /\ reply = None => msgs \in Seq(Conversions!Messages)
  /\ reply # None => reply \in Conversions!AnthropicAnswers \cup Conversions!GeminiAnswers
  /\ converted # None /\ reply = None => RequestsRight(msgs, converted)
  /\ converted # None /\ reply # None => Agrees(reply.api, converted.whole, converted.stream)

LEMMA ConversionsInitially == FunctionsInit => ConversionsInv
<1> SUFFICES ASSUME FunctionsInit PROVE ConversionsInv
  OBVIOUS
<1>1. converted = None
  BY DEF FunctionsInit, NoMessage, Conversions!Init
<1>2. <<>> \in Seq(Conversions!Messages)
  OBVIOUS
<1>3. CASE NoMessage
  BY <1>1, <1>2, <1>3 DEF ConversionsInv, NoMessage
<1>4. CASE Conversions!Init
  <2> DEFINE X == Conversions!Messages
  <2>1. CASE msgs \in Conversions!SeqOf(X, MaxMessages) /\ reply = None
    <3>1. msgs \in Seq(X)
      <4> HIDE DEF X
      <4>1. PICK m \in 0..MaxMessages : msgs \in [1..m -> X]
        BY <2>1 DEF Conversions!SeqOf
      <4>2. m \in Nat
        BY <4>1, ConversionsAssumption DEF Conversions!ConversionAssumption
      <4>3. QED
        BY <4>1, <4>2
    <3>2. QED
      BY <1>1, <2>1, <3>1 DEF ConversionsInv
  <2>2. CASE msgs = <<>> /\ reply \in Conversions!AnthropicAnswers \cup Conversions!GeminiAnswers
    BY <1>1, <1>2, <2>2 DEF ConversionsInv
  <2>3. QED
    BY <1>4, <2>1, <2>2 DEF Conversions!Init
<1>5. QED
  BY <1>3, <1>4 DEF FunctionsInit

\* A conversion runs once, and is right whatever it converts.
LEMMA ConversionsKept == ConversionsInv /\ [FunctionsNext]_functionVars => ConversionsInv'
<1> SUFFICES ASSUME ConversionsInv, [FunctionsNext]_functionVars PROVE ConversionsInv'
  OBVIOUS
<1>1. CASE Conversions!Next
  <2>1. /\ UNCHANGED <<msgs, reply>>
        /\ reply = None =>
             converted' = [anthropic |-> Conversions!convert_messages(msgs),
                           gemini |-> Conversions!convert_contents(msgs)]
        /\ reply # None =>
             converted' = [whole |-> IF reply.api = "anthropic" THEN Conversions!anthropic_response(reply)
                                     ELSE Conversions!gemini_response(reply),
                           stream |-> Conversions!Assembled(reply.api,
                                        IF reply.api = "anthropic" THEN Conversions!AnthropicStream(reply)
                                        ELSE Conversions!GeminiStream(reply))]
    BY <1>1 DEF Conversions!Next, Conversions!Convert
  <2>2. CASE reply = None
    <3>1. RequestsRight(msgs, converted')
      BY <2>1, <2>2, AnthropicAll, GeminiAll DEF RequestsRight, ConversionsInv
    <3>2. QED
      BY <2>1, <2>2, <3>1 DEF ConversionsInv, RequestsRight
  <2>3. CASE reply # None
    <3>1. Agrees(reply.api, converted'.whole, converted'.stream)
      <4>1. CASE reply \in Conversions!AnthropicAnswers
        BY <2>1, <2>3, <4>1, AnthropicAgrees
      <4>2. CASE reply \in Conversions!GeminiAnswers
        <5>1. reply.api = "gemini" /\ "gemini" # "anthropic"
          BY <4>2, GeminiAgrees
        <5>2. QED
          BY <2>1, <2>3, <4>2, <5>1, GeminiAgrees
      <4>3. QED
        BY <2>3, <4>1, <4>2 DEF ConversionsInv
    <3>2. QED
      BY <2>1, <2>3, <3>1 DEF ConversionsInv, Agrees
  <2>4. QED
    BY <2>2, <2>3
<1>2. CASE UNCHANGED convertVars
  BY <1>2 DEF ConversionsInv, convertVars, RequestsRight, Agrees
<1>3. QED
  <2>1. CASE UNCHANGED functionVars
    BY <1>2, <2>1 DEF functionVars
  <2>2. CASE FunctionsNext
    BY <1>1, <1>2, <2>2 DEF FunctionsNext
  <2>3. QED
    BY <2>1, <2>2

LEMMA ConversionsFollow == ConversionsInv => ConversionIsFaithful
<1> SUFFICES ASSUME ConversionsInv PROVE ConversionIsFaithful
  OBVIOUS
<1>1. Conversions!Requested => RequestsRight(msgs, converted)
  BY DEF ConversionsInv, Conversions!Requested
<1>2. Conversions!StreamAgrees
  BY DEF ConversionsInv, Agrees, Conversions!StreamAgrees
<1>3. QED
  BY <1>1, <1>2, RequestsFaithful DEF ConversionIsFaithful

\* For any length of a conversation, any contents, functions and numbers of calls, and answers of
\* any length: a conversation reaches Anthropic and Gemini whole and in order, the results of a
\* round of calls together and under the names of the functions called, and an answer is the same
\* streamed or whole (convert_messages, convert_contents, the responses and the transcoders of
\* anthropic.rs and gemini.rs).
THEOREM ConversionAlwaysFaithful == FunctionsSpec => []ConversionIsFaithful
<1>1. ConversionsInv /\ UNCHANGED functionVars => ConversionsInv'
  BY ConversionsKept
<1>2. QED
  BY ConversionsInitially, ConversionsKept, ConversionsFollow, PTL DEF FunctionsSpec
=============================================================================
