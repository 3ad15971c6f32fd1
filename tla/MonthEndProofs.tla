---------------------------- MODULE MonthEndProofs ---------------------------
(* A month that is locked is closed: its row never changes again, and whoever *)
(* was answered with it has the row everybody sees.  And months divide time:  *)
(* every instant is in the bounds of exactly one, so that no call is missed   *)
(* or reconciled twice.  The report of a month is mailed once, and once more  *)
(* only for each delivery that was not recorded.                              *)
EXTENDS MCMonthEnd, FiniteSetTheorems, FunctionTheorems, TLAPS

----------------------------------------------------------------------------
(* Months                                                                  *)

LEMMA BoundsSpanMonth ==
  ASSUME NEW p, p[1] \in Nat, p[2] \in 1..12
  PROVE  /\ Start(p) = (12 * p[1] + p[2] - 1) * MonthTicks
         /\ Start(Following(p)) = (12 * p[1] + p[2]) * MonthTicks
<1>1. CASE p[2] = 12
  <2>1. Following(p)[1] = p[1] + 1 /\ Following(p)[2] = 1
    BY <1>1 DEF Following
  <2>2. 12 * (p[1] + 1) + 1 - 1 = 12 * p[1] + p[2]
    BY <1>1
  <2>3. QED
    BY <2>1, <2>2 DEF Start
<1>2. CASE p[2] # 12
  <2>1. Following(p)[1] = p[1] /\ Following(p)[2] = p[2] + 1
    BY <1>2 DEF Following
  <2>2. 12 * p[1] + (p[2] + 1) - 1 = 12 * p[1] + p[2]
    OBVIOUS
  <2>3. QED
    BY <2>1, <2>2 DEF Start
<1>3. QED
  BY <1>1, <1>2

LEMMA TimesMonotone ==
  ASSUME NEW a \in Nat, NEW b \in Nat, NEW c \in Nat, a <= b
  PROVE  a * c <= b * c
<1>1. b - a \in Nat /\ (b - a) * c \in Nat
  OBVIOUS
<1>2. b * c = a * c + (b - a) * c
  OBVIOUS
<1>3. QED
  BY <1>1, <1>2

LEMMA DivTwelve ==
  ASSUME NEW n \in Nat
  PROVE  n = 12 * (n \div 12) + (n % 12) /\ n \div 12 \in Nat /\ n % 12 \in 0..11
<1>1. n \div 12 \in Int /\ n % 12 \in 0..11
  OBVIOUS
<1>2. n = 12 * (n \div 12) + (n % 12)
  OBVIOUS
<1>3. n \div 12 >= 0
  BY <1>1, <1>2
<1>4. QED
  BY <1>1, <1>2, <1>3

\* An instant is in the bounds of a month exactly when that is the month it
\* falls in (period_bounds): no month overlaps the next, none leaves a gap.
THEOREM MonthsDivideTime ==
  ASSUME NEW p, p \in Nat \X (1..12), NEW t \in Nat
  PROVE  Within(t, period_bounds(p)) <=> PeriodAt(t) = p
<1> DEFINE y == p[1]
           m == p[2]
           k == 12 * y + m - 1
           q == t \div MonthTicks
<1>1. y \in Nat /\ m \in 1..12 /\ p = <<y, m>> /\ MonthTicks \in Nat \ {0}
  BY PeriodsAssumption
<1>2. k \in Nat /\ k \div 12 = y /\ k % 12 = m - 1
  BY <1>1
<1>3. q \in Nat /\ q * MonthTicks <= t /\ t < (q + 1) * MonthTicks
  BY <1>1
<1>4. Within(t, period_bounds(p)) <=> k * MonthTicks <= t /\ t < (k + 1) * MonthTicks
  <2>1. k + 1 = 12 * y + m
    BY <1>1
  <2>2. period_bounds(p) = [from |-> k * MonthTicks, to |-> (k + 1) * MonthTicks]
    BY <1>1, <2>1, BoundsSpanMonth DEF period_bounds
  <2>3. QED
    BY <2>2 DEF Within
<1> HIDE DEF q, k, y, m
<1>5. Within(t, period_bounds(p)) <=> q = k
  <2>1. ASSUME q < k PROVE ~(k * MonthTicks <= t)
    <3>1. (q + 1) * MonthTicks <= k * MonthTicks
      BY <1>1, <1>2, <1>3, <2>1, TimesMonotone
    <3>2. QED
      BY <1>1, <1>2, <1>3, <3>1
  <2>2. ASSUME k < q PROVE ~(t < (k + 1) * MonthTicks)
    <3>1. (k + 1) * MonthTicks <= q * MonthTicks
      BY <1>1, <1>2, <1>3, <2>2, TimesMonotone
    <3>2. QED
      BY <1>1, <1>2, <1>3, <3>1
  <2>3. QED
    BY <1>2, <1>3, <1>4, <2>1, <2>2
<1>6. PeriodAt(t) = p <=> q = k
  <2>1. PeriodAt(t) = <<q \div 12, (q % 12) + 1>>
    BY DEF PeriodAt, q
  <2>2. q = 12 * (q \div 12) + (q % 12) /\ q \div 12 \in Nat /\ q % 12 \in 0..11
    BY <1>3, DivTwelve
  <2>3. k = 12 * (k \div 12) + (k % 12)
    BY <1>2, DivTwelve
  <2>4. PeriodAt(t) = p <=> q \div 12 = k \div 12 /\ q % 12 = k % 12
    <3>1. PeriodAt(t) = p <=> q \div 12 = y /\ (q % 12) + 1 = m
      BY <1>1, <2>1
    <3>2. (q % 12) + 1 = m <=> q % 12 = m - 1
      BY <1>1, <2>2
    <3>3. QED
      BY <1>2, <3>1, <3>2
  <2>5. q = k => PeriodAt(t) = p
    BY <2>4
  <2>6. PeriodAt(t) = p => q = k
    <3>1. ASSUME PeriodAt(t) = p PROVE q = 12 * (k \div 12) + (k % 12)
      BY <2>2, <2>4, <3>1
    <3>2. QED
      BY <2>3, <3>1
  <2>7. QED
    BY <2>5, <2>6
<1>7. QED
  BY <1>5, <1>6

----------------------------------------------------------------------------
(* Locked rows                                                             *)

Functions ==
  /\ recs = [p \in DOMAIN recs |-> recs[p]] /\ answer = [c \in Clerk |-> answer[c]]
  /\ pos = [c \in Clerk |-> pos[c]] /\ job = [c \in Clerk |-> job[c]]

\* A request is about one month from its first step to its last; the row it
\* locks or reads again is there.
AboutMonths ==
  \A c \in Clerk :
    /\ pos[c] # "idle" => "period" \in DOMAIN job[c]
    /\ pos[c] \in {"lock", "reread"} => Exists(job[c].period)

SealingInv == Functions /\ AboutMonths /\ SealedAnswers

\* No row goes, and a locked one does not change.
Frozen ==
  /\ recs' = [p \in DOMAIN recs' |-> recs'[p]]
  /\ \A p \in DOMAIN recs : p \in DOMAIN recs' /\ (IsLocked(p) => recs'[p] = recs[p])

LEMMA StepFrozen == Functions /\ AboutMonths /\ [Next]_vars => Frozen
<1> SUFFICES ASSUME Functions, AboutMonths, [Next]_vars PROVE Frozen
  OBVIOUS
<1>1. ASSUME NEW c \in Clerk, Insert(c) PROVE Frozen
  BY <1>1 DEF Insert, Put, Functions, Frozen, IsLocked, Exists
<1>2. ASSUME NEW c \in Clerk, Update(c) PROVE Frozen
  BY <1>2 DEF Update, Put, Functions, Frozen, IsLocked, IsDraft, Exists
<1>3. ASSUME NEW c \in Clerk, Lock(c) PROVE Frozen
  BY <1>3 DEF Lock, LocksWhat, Functions, Frozen, IsLocked, IsDraft, Exists
<1>4. CASE UNCHANGED recs
  BY <1>4 DEF Functions, Frozen
<1>5. QED
  BY <1>1, <1>2, <1>3, <1>4
  DEF Next, TimePasses, Stamp, Commit, Generate, Totals, DetailRows, Reread, BeginLock, GetOne, vars

\* A request that does not answer.
LEMMA GotoSealing ==
  ASSUME SealingInv, NEW c \in Clerk, NEW s, NEW j, Goto(c, s, j), Frozen,
         \/ UNCHANGED answer
         \/ answer' = [answer EXCEPT ![c] = None],
         s # "idle" => "period" \in DOMAIN j,
         s \in {"lock", "reread"} => j.period \in DOMAIN recs'
  PROVE  SealingInv'
<1>1. Functions /\ AboutMonths /\ SealedAnswers
  BY DEF SealingInv
<1>2. pos'[c] = s /\ job'[c] = j /\ \A d \in Clerk \ {c} : pos'[d] = pos[d] /\ job'[d] = job[d]
  BY <1>1 DEF Goto, Functions
<1>3. \A d \in Clerk : answer'[d] = answer[d] \/ answer'[d] = None
  BY <1>1 DEF Functions
<1>4. Functions'
  BY <1>1 DEF Goto, Functions, Frozen
<1>5. AboutMonths'
  BY <1>1, <1>2 DEF AboutMonths, Exists, Frozen
<1>6. SealedAnswers'
  BY <1>1, <1>3 DEF SealedAnswers, Frozen, IsLocked, Exists
<1>7. QED
  BY <1>4, <1>5, <1>6 DEF SealingInv

\* A request that answers with a row that is the table's, or is not locked.
LEMMA ReplySealing ==
  ASSUME SealingInv, NEW c \in Clerk, NEW p, NEW r, Reply(c, p, r), Frozen,
         r.status = "Locked" => p \in DOMAIN recs' /\ recs'[p] = r
  PROVE  SealingInv'
<1>1. Functions /\ AboutMonths /\ SealedAnswers
  BY DEF SealingInv
<1>2. Goto(c, "idle", Idle) /\ answer' = [answer EXCEPT ![c] = [period |-> p, row |-> r]]
  BY DEF Reply
<1>3. pos'[c] = "idle" /\ \A d \in Clerk \ {c} : pos'[d] = pos[d] /\ job'[d] = job[d]
  BY <1>1, <1>2 DEF Goto, Functions
<1>4. /\ answer'[c] = [period |-> p, row |-> r]
      /\ \A d \in Clerk \ {c} : answer'[d] = answer[d]
  BY <1>1, <1>2 DEF Functions
<1>5. Functions'
  BY <1>1, <1>2 DEF Goto, Functions, Frozen
<1>6. AboutMonths'
  BY <1>1, <1>3 DEF AboutMonths, Exists, Frozen
<1>7. SealedAnswers'
  <2>1. ASSUME NEW d \in Clerk, answer'[d] # None, answer'[d].row.status = "Locked"
        PROVE  /\ answer'[d].period \in DOMAIN recs'
               /\ recs'[answer'[d].period] = answer'[d].row
    <3>1. CASE d = c
      BY <1>4, <2>1, <3>1
    <3>2. CASE d # c
      BY <1>1, <1>4, <2>1, <3>2 DEF SealedAnswers, Frozen, IsLocked, Exists
    <3>3. QED
      BY <3>1, <3>2
  <2>2. QED
    BY <2>1 DEF SealedAnswers, Exists
<1>8. QED
  BY <1>5, <1>6, <1>7 DEF SealingInv

LEMMA WritesSealing ==
  ASSUME SealingInv, Frozen, NEW c \in Clerk, Insert(c) \/ Update(c) \/ Lock(c)
  PROVE  SealingInv'
<1> DEFINE p == job[c].period
<1>1. Functions /\ "period" \in DOMAIN job[c] /\ (Lock(c) => Exists(p))
  BY DEF SealingInv, AboutMonths, Insert, Update, Lock
<1>2. \A q \in DOMAIN recs : q \in DOMAIN recs'
  BY DEF Frozen
<1>3. CASE Insert(c)
  <2>1. CASE ~Exists(p)
    <3>1. Reply(c, p, Drafted(job[c])) /\ Drafted(job[c]).status # "Locked"
      BY <1>3, <2>1 DEF Insert, Drafted
    <3>2. QED
      BY <3>1, ReplySealing
  <2>2. CASE Exists(p)
    <3>1. Goto(c, "idle", Idle) /\ answer' = [answer EXCEPT ![c] = None]
      BY <1>3, <2>2 DEF Insert, Refuse
    <3>2. QED
      BY <3>1, GotoSealing
  <2>3. QED
    BY <2>1, <2>2
<1>4. CASE Update(c)
  <2>1. CASE IsDraft(p)
    <3>1. Goto(c, "reread", job[c]) /\ UNCHANGED answer
      BY <1>4, <2>1 DEF Update
    <3>2. p \in DOMAIN recs'
      BY <1>2, <2>1 DEF IsDraft, Exists
    <3>3. QED
      BY <1>1, <3>1, <3>2, GotoSealing
  <2>2. CASE ~IsDraft(p)
    <3>1. Goto(c, "idle", Idle) /\ answer' = [answer EXCEPT ![c] = None]
      BY <1>4, <2>2 DEF Update, Refuse
    <3>2. QED
      BY <3>1, GotoSealing
  <2>3. QED
    BY <2>1, <2>2
<1>5. CASE Lock(c)
  <2>1. p \in DOMAIN recs'
    BY <1>1, <1>2, <1>5 DEF Exists
  <2>2. CASE LocksWhat(p)
    <3>1. Reply(c, p, recs'[p])
      BY <1>5, <2>2 DEF Lock
    <3>2. QED
      BY <2>1, <3>1, ReplySealing
  <2>3. CASE ~LocksWhat(p)
    <3>1. Goto(c, "reread", job[c]) /\ UNCHANGED answer
      BY <1>5, <2>3 DEF Lock
    <3>2. QED
      BY <1>1, <2>1, <3>1, GotoSealing
  <2>4. QED
    BY <2>2, <2>3
<1>6. QED
  BY <1>3, <1>4, <1>5

LEMMA ReadsSealing ==
  ASSUME SealingInv, Frozen, NEW c \in Clerk,
         \/ Generate(c) \/ Totals(c) \/ DetailRows(c) \/ Reread(c) \/ BeginLock(c) \/ GetOne(c)
  PROVE  SealingInv'
<1>1. Functions /\ UNCHANGED recs
  BY DEF SealingInv, Generate, Totals, DetailRows, Reread, BeginLock, GetOne
<1>3. CASE Generate(c)
  <2>1. PICK p \in Month :
          Goto(c, "totals", [period |-> p, exists |-> Exists(p), since |-> Len(logs)])
    BY <1>3 DEF Generate
  <2>2. UNCHANGED answer
    BY <1>3 DEF Generate
  <2>3. QED
    BY <2>1, <2>2, GotoSealing
<1>4. CASE BeginLock(c)
  <2>1. PICK p \in DOMAIN recs : Goto(c, "lock", [period |-> p, at |-> now])
    BY <1>4 DEF BeginLock
  <2>2. UNCHANGED answer
    BY <1>4 DEF BeginLock
  <2>3. QED
    BY <1>1, <2>1, <2>2, GotoSealing
<1>5. CASE Totals(c) \/ DetailRows(c)
  <2>1. UNCHANGED answer /\ pos[c] # "idle"
    BY <1>5 DEF Totals, DetailRows
  <2>2. "period" \in DOMAIN job[c]
    BY <2>1 DEF SealingInv, AboutMonths
  <2>3. PICK s, f, v : s \in {"detail", "write"} /\ Goto(c, s, With(job[c], f, v))
    BY <1>5 DEF Totals, DetailRows
  <2>4. "period" \in DOMAIN With(job[c], f, v)
    BY <2>2 DEF With
  <2>5. QED
    BY <2>1, <2>3, <2>4, GotoSealing
<1>6. CASE Reread(c)
  <2>1. Exists(job[c].period) /\ Reply(c, job[c].period, recs[job[c].period])
    BY <1>6 DEF Reread, SealingInv, AboutMonths
  <2>2. QED
    BY <1>1, <2>1, ReplySealing DEF Exists
<1>7. CASE GetOne(c)
  <2>1. PICK p \in DOMAIN recs : Reply(c, p, recs[p])
    BY <1>7 DEF GetOne
  <2>2. QED
    BY <1>1, <2>1, ReplySealing
<1>8. QED
  BY <1>3, <1>4, <1>5, <1>6, <1>7

LEMMA SealingInit == Init => SealingInv
<1> SUFFICES ASSUME Init PROVE SealingInv
  OBVIOUS
<1>1. Functions
  BY DEF Init, Functions
<1>2. AboutMonths /\ SealedAnswers
  BY DEF Init, AboutMonths, SealedAnswers
<1>3. QED
  BY <1>1, <1>2 DEF SealingInv

LEMMA SealingStep == SealingInv /\ [Next]_vars => SealingInv'
<1> SUFFICES ASSUME SealingInv, [Next]_vars PROVE SealingInv'
  OBVIOUS
<1>1. Frozen
  BY StepFrozen DEF SealingInv
<1>2. CASE UNCHANGED <<recs, pos, job, answer>>
  BY <1>2 DEF SealingInv, Functions, AboutMonths, SealedAnswers, Exists
<1>3. ASSUME NEW c \in Clerk,
             \/ Insert(c) \/ Update(c) \/ Lock(c)
             \/ Generate(c) \/ Totals(c) \/ DetailRows(c) \/ Reread(c) \/ BeginLock(c) \/ GetOne(c)
      PROVE  SealingInv'
  BY <1>1, <1>3, WritesSealing, ReadsSealing
<1>4. QED
  BY <1>2, <1>3 DEF Next, TimePasses, Stamp, Commit, vars

\* A locked row never changes again (LockedFrozen).
THEOREM LockedStaysFrozen == Spec => LockedFrozen
<1>1. Spec => []SealingInv
  BY SealingInit, SealingStep, PTL DEF Spec
<1>2. SealingInv /\ [Next]_vars =>
        [\A p \in DOMAIN recs : IsLocked(p) => p \in DOMAIN recs' /\ recs'[p] = recs[p]]_vars
  BY StepFrozen DEF SealingInv, Frozen
<1>3. QED
  BY <1>1, <1>2, PTL DEF Spec, LockedFrozen

\* An answer with a locked month is what everybody sees (SealedAnswers).
THEOREM AnswersStaySealed == Spec => []SealedAnswers
<1>1. SealingInv => SealedAnswers
  BY DEF SealingInv
<1>2. QED
  BY <1>1, SealingInit, SealingStep, PTL DEF Spec

----------------------------------------------------------------------------
(* Sums, as numbers of units                                               *)

LEMMA UnitsAre ==
  ASSUME NEW f
  PROVE  \A v : v \in Units(f) <=> \E x \in DOMAIN f : \E k \in 1..f[x] : v = <<x, k>>
<1>1. ASSUME NEW v, v \in Units(f)
      PROVE  \E x \in DOMAIN f : \E k \in 1..f[x] : v = <<x, k>>
  <2>1. PICK x \in DOMAIN f : v \in {x} \X (1..f[x])
    BY <1>1 DEF Units
  <2>2. QED
    BY <2>1
<1>2. ASSUME NEW v, NEW x \in DOMAIN f, NEW k \in 1..f[x], v = <<x, k>>
      PROVE  v \in Units(f)
  <2>1. v \in {x} \X (1..f[x])
    BY <1>2
  <2>2. QED
    BY <2>1 DEF Units
<1>3. QED
  BY <1>1, <1>2

LEMMA UnitsFinite ==
  ASSUME NEW S, IsFiniteSet(S), NEW f \in [S -> Nat]
  PROVE  IsFiniteSet(Units(f)) /\ SumOf(f) \in Nat
<1> DEFINE Pile == [x \in S |-> {x} \X (1..f[x])]
           Piles == {Pile[x] : x \in S}
<1>1. IsFiniteSet(Piles)
  <2>1. Pile \in Surjection(S, Piles)
    BY DEF Surjection
  <2>2. QED
    BY <2>1, FS_Surjection
<1>2. ASSUME NEW T \in Piles PROVE IsFiniteSet(T)
  <2>1. PICK x \in S : T = {x} \X (1..f[x])
    OBVIOUS
  <2>2. IsFiniteSet({x}) /\ IsFiniteSet(1..f[x])
    <3>1. f[x] \in Int /\ 1 \in Int
      OBVIOUS
    <3>2. IsFiniteSet(1..f[x])
      BY <3>1, FS_Interval
    <3>3. QED
      BY <3>2, FS_Singleton
  <2>3. IsFiniteSet({x} \X (1..f[x]))
    BY <2>2, FS_Product
  <2>4. QED
    BY <2>1, <2>3
<1>3. Units(f) = UNION Piles
  BY DEF Units
<1> HIDE DEF Piles
<1>4. IsFiniteSet(UNION Piles)
  BY <1>1, <1>2, FS_UNION
<1>5. QED
  BY <1>3, <1>4, FS_CardinalityType DEF SumOf

\* Fewer terms come to no more.
LEMMA FewerTerms ==
  ASSUME NEW T, IsFiniteSet(T), NEW S \in SUBSET T, NEW f \in [T -> Nat]
  PROVE  SumOf([x \in S |-> f[x]]) <= SumOf(f)
<1>1. Units([x \in S |-> f[x]]) \subseteq Units(f)
  BY DEF Units
<1>2. QED
  BY <1>1, UnitsFinite, FS_Subset DEF SumOf

\* A finite set counted by groups: the sizes of the groups add up to its own.
LEMMA CountedByGroups ==
  ASSUME NEW U, IsFiniteSet(U), NEW T, NEW h \in [U -> T]
  PROVE  SumOf([g \in T |-> Cardinality({u \in U : h[u] = g})]) = Cardinality(U)
<1> DEFINE F(g) == {u \in U : h[u] = g}
           size == [g \in T |-> Cardinality(F(g))]
           b == [g \in T |-> CHOOSE f : f \in Bijection(1..Cardinality(F(g)), F(g))]
           V == Units(size)
           phi == [v \in V |-> b[v[1]][v[2]]]
<1>1. ASSUME NEW g \in T
      PROVE  /\ IsFiniteSet(F(g)) /\ size[g] \in Nat
             /\ b[g] \in Bijection(1..size[g], F(g))
  <2>1. IsFiniteSet(F(g))
    BY FS_Subset
  <2>2. Cardinality(F(g)) \in Nat /\ ExistsBijection(1..Cardinality(F(g)), F(g))
    BY <2>1, FS_CardinalityType
  <2>3. \E f : f \in Bijection(1..Cardinality(F(g)), F(g))
    BY <2>2 DEF ExistsBijection
  <2>4. QED
    BY <2>1, <2>2, <2>3
<1>2. \A v : v \in V <=> \E g \in T : \E k \in 1..size[g] : v = <<g, k>>
  <2>1. DOMAIN size = T
    OBVIOUS
  <2> HIDE DEF size
  <2>2. QED
    BY <2>1, UnitsAre
<1> HIDE DEF size, b
<1>3. ASSUME NEW g \in T, NEW k \in 1..size[g]
      PROVE  b[g][k] \in U /\ h[b[g][k]] = g
  <2>1. b[g] \in [1..size[g] -> F(g)]
    BY <1>1 DEF Bijection, Injection
  <2>2. QED
    BY <2>1
<1>4. ASSUME NEW g \in T, NEW k \in 1..size[g], NEW m \in 1..size[g], b[g][k] = b[g][m]
      PROVE  k = m
  BY <1>1, <1>4 DEF Bijection, Injection, IsInjective
<1>5. ASSUME NEW u \in U PROVE \E g \in T : \E k \in 1..size[g] : b[g][k] = u
  <2>1. h[u] \in T /\ u \in F(h[u])
    OBVIOUS
  <2>2. QED
    BY <1>1, <2>1 DEF Bijection, Surjection
<1> HIDE DEF V
<1>6. phi \in Bijection(V, U)
  <2>1. \A v \in V : phi[v] \in U
    BY <1>2, <1>3
  <2>2. ASSUME NEW v \in V, NEW w \in V, phi[v] = phi[w] PROVE v = w
    <3>1. PICK g \in T : \E k \in 1..size[g] : v = <<g, k>>
      BY <1>2
    <3>2. PICK k \in 1..size[g] : v = <<g, k>>
      BY <3>1
    <3>3. PICK e \in T : \E m \in 1..size[e] : w = <<e, m>>
      BY <1>2
    <3>4. PICK m \in 1..size[e] : w = <<e, m>>
      BY <3>3
    <3>5. b[g][k] = b[e][m]
      BY <2>2, <3>2, <3>4
    <3>6. g = e
      BY <1>3, <3>5
    <3>7. QED
      BY <1>4, <3>2, <3>4, <3>5, <3>6
  <2>3. ASSUME NEW u \in U PROVE \E v \in V : phi[v] = u
    <3>1. PICK g \in T : \E k \in 1..size[g] : b[g][k] = u
      BY <1>5
    <3>2. PICK k \in 1..size[g] : b[g][k] = u
      BY <3>1
    <3>3. <<g, k>> \in V
      BY <1>2
    <3>4. phi[<<g, k>>] = u
      BY <3>2, <3>3
    <3>5. QED
      BY <3>3, <3>4
  <2>4. phi \in [V -> U]
    BY <2>1
  <2> HIDE DEF phi
  <2>5. QED
    BY <2>2, <2>3, <2>4 DEF Bijection, Injection, Surjection, IsInjective
<1>7. ExistsBijection(U, V)
  <2>1. ExistsBijection(V, U)
    BY <1>6 DEF ExistsBijection
  <2>2. QED
    BY <2>1, Fun_ExistsBijSymmetric
<1>8. Cardinality(V) = Cardinality(U)
  BY <1>7, FS_Bijection
<1>9. QED
  BY <1>8 DEF SumOf, V, size

\* The amounts f summed by the groups h puts them in.
Part(h, g) == {j \in DOMAIN h : h[j] = g}
ByGroup(f, h, T) == [g \in T |-> SumOf([i \in Part(h, g) |-> f[i]])]

\* Amounts summed by groups add up to their sum.
LEMMA SummedByGroups ==
  ASSUME NEW S, IsFiniteSet(S), NEW T, NEW h \in [S -> T], NEW f \in [S -> Nat]
  PROVE  SumOf(ByGroup(f, h, T)) = SumOf(f)
<1> DEFINE U == Units(f)
           k == [u \in U |-> h[u[1]]]
<1>1. IsFiniteSet(U)
  BY UnitsFinite
<1>2. \A u : u \in U <=> \E x \in S : \E n \in 1..f[x] : u = <<x, n>>
  BY UnitsAre
<1> HIDE DEF U
<1>3. \A u \in U : k[u] = h[u[1]] /\ k[u] \in T
  BY <1>2
<1>4. ASSUME NEW g \in T
      PROVE  Cardinality({u \in U : k[u] = g}) = SumOf([i \in {j \in S : h[j] = g} |-> f[i]])
  <2> DEFINE G == {j \in S : h[j] = g}
             e == [i \in G |-> f[i]]
  <2>1. \A u : u \in Units(e) <=> \E x \in G : \E n \in 1..f[x] : u = <<x, n>>
    <3>1. DOMAIN e = G /\ \A x \in G : e[x] = f[x]
      OBVIOUS
    <3> HIDE DEF e, G
    <3>2. QED
      BY <3>1, UnitsAre
  <2> HIDE DEF e
  <2>2. ASSUME NEW u, u \in Units(e) PROVE u \in U /\ k[u] = g
    <3>1. PICK x \in G : \E n \in 1..f[x] : u = <<x, n>>
      BY <2>1, <2>2
    <3>2. u \in U /\ u[1] = x /\ h[x] = g
      BY <1>2, <3>1
    <3>3. QED
      BY <1>3, <3>2
  <2>3. ASSUME NEW u \in U, k[u] = g PROVE u \in Units(e)
    <3>1. PICK x \in S : \E n \in 1..f[x] : u = <<x, n>>
      BY <1>2
    <3>2. h[x] = g
      BY <1>3, <2>3, <3>1
    <3>3. QED
      BY <2>1, <3>1, <3>2
  <2>4. {u \in U : k[u] = g} = Units(e)
    BY <2>2, <2>3
  <2>5. QED
    BY <2>4 DEF SumOf, e
<1>5. k \in [U -> T]
  BY <1>3
<1> HIDE DEF k
<1>6. SumOf([g \in T |-> Cardinality({u \in U : k[u] = g})]) = Cardinality(U)
  BY <1>1, <1>5, CountedByGroups
<1>7. [g \in T |-> Cardinality({u \in U : k[u] = g})] = ByGroup(f, h, T)
  BY <1>4 DEF ByGroup, Part
<1>8. QED
  BY <1>6, <1>7 DEF SumOf, U

----------------------------------------------------------------------------
(* Margin                                                                  *)

\* What is written of calls and rows: the log is a sequence of settled calls.
Settled(t) == [call : Calls, at : FirstTick..t]
Log == now \in FirstTick..LastTick /\ flying \subseteq Settled(now) /\ logs \in Seq(Settled(now))

LEMMA RowsFinite ==
  ASSUME Log, NEW n \in 0..Len(logs), NEW p
  PROVE  /\ Rows(n, p) \subseteq 1..Len(logs) /\ IsFiniteSet(Rows(n, p))
         /\ \A i \in Rows(n, p) : logs[i].call \in Calls /\ logs[i].at \in Nat
<1>1. Len(logs) \in Nat /\ n \in Int /\ 1 \in Int /\ n <= Len(logs)
  BY DEF Log
<1>2. \A i \in 1..Len(logs) : logs[i] \in Settled(now)
  BY DEF Log
<1>3. Rows(n, p) \subseteq 1..n
  BY DEF Rows
<1>4. IsFiniteSet(1..n)
  BY <1>1, FS_Interval
<1>5. IsFiniteSet(Rows(n, p))
  BY <1>3, <1>4, FS_Subset
<1>6. 1..n \subseteq 1..Len(logs)
  BY <1>1
<1>7. \A i \in 1..Len(logs) : logs[i].call \in Calls /\ logs[i].at \in Nat
  BY <1>2, ClosingAssumption DEF Settled, Log
<1>8. QED
  BY <1>3, <1>5, <1>6, <1>7

\* Columns by group add up to the whole.
LEMMA GroupsAddUp ==
  ASSUME NEW S, IsFiniteSet(S), \A i \in S : logs[i].call \in Calls, NEW dim
  PROVE  /\ SumOf([g \in Groups(S, dim) |-> Revenue(GroupOf(S, dim, g))]) = Revenue(S)
         /\ SumOf([g \in Groups(S, dim) |-> Cost(GroupOf(S, dim, g))]) = Cost(S)
         /\ SumOf([g \in Groups(S, dim) |-> Cardinality(GroupOf(S, dim, g))]) = Cardinality(S)
         /\ SumOf([g \in Groups(S, dim) |-> Cardinality(Costed(GroupOf(S, dim, g)))])
              = Cardinality(Costed(S))
<1> DEFINE T == Groups(S, dim)
           C == Costed(S)
           h == [i \in S |-> logs[i].call[dim]]
           hc == [i \in C |-> logs[i].call[dim]]
           f == [i \in S |-> logs[i].call.charged]
           fc == [i \in C |-> logs[i].call.cost]
<1>1. h \in [S -> T] /\ hc \in [C -> T]
  BY DEF Groups, Costed
<1>2. f \in [S -> Nat] /\ fc \in [C -> Nat]
  BY ClosingAssumption DEF Costed
<1>3. C \subseteq S /\ IsFiniteSet(C)
  <2>1. C \subseteq S
    BY DEF Costed
  <2>2. QED
    BY <2>1, FS_Subset
<1>4. ASSUME NEW g
      PROVE  GroupOf(S, dim, g) = Part(h, g) /\ Costed(GroupOf(S, dim, g)) = Part(hc, g)
  BY DEF GroupOf, Costed, Part
<1>5. [g \in T |-> Revenue(GroupOf(S, dim, g))] = ByGroup(f, h, T)
  <2>1. ASSUME NEW g PROVE [i \in GroupOf(S, dim, g) |-> logs[i].call.charged] = [i \in Part(h, g) |-> f[i]]
    BY <1>4 DEF Part
  <2>2. QED
    BY <2>1 DEF Revenue, ByGroup
<1>6. [g \in T |-> Cost(GroupOf(S, dim, g))] = ByGroup(fc, hc, T)
  <2>1. ASSUME NEW g
        PROVE  [i \in Costed(GroupOf(S, dim, g)) |-> logs[i].call.cost] = [i \in Part(hc, g) |-> fc[i]]
    BY <1>4 DEF Part
  <2>2. QED
    BY <2>1 DEF Cost, ByGroup
<1>7. Revenue(S) = SumOf(f) /\ Cost(S) = SumOf(fc)
  BY DEF Revenue, Cost
<1> HIDE DEF T, C, h, hc, f, fc
<1>8. SumOf(ByGroup(f, h, T)) = SumOf(f)
  BY <1>1, <1>2, SummedByGroups
<1>9. SumOf(ByGroup(fc, hc, T)) = SumOf(fc)
  BY <1>1, <1>2, <1>3, SummedByGroups
<1>10. SumOf([g \in T |-> Cardinality({j \in S : h[j] = g})]) = Cardinality(S)
  BY <1>1, CountedByGroups
<1>11. SumOf([g \in T |-> Cardinality({j \in C : hc[j] = g})]) = Cardinality(C)
  BY <1>1, <1>3, CountedByGroups
<1>12. /\ SumOf([g \in T |-> Revenue(GroupOf(S, dim, g))]) = Revenue(S)
       /\ SumOf([g \in T |-> Cost(GroupOf(S, dim, g))]) = Cost(S)
  BY <1>5, <1>6, <1>7, <1>8, <1>9
<1>13. /\ SumOf([g \in T |-> Cardinality(GroupOf(S, dim, g))]) = Cardinality(S)
       /\ SumOf([g \in T |-> Cardinality(Costed(GroupOf(S, dim, g)))]) = Cardinality(C)
  BY <1>1, <1>4, <1>10, <1>11 DEF Part
<1>14. QED
  BY <1>12, <1>13 DEF T, C

\* All have a known cost when none is missing: by counting, and in each group.
LEMMA CoveredByGroups ==
  ASSUME NEW S, IsFiniteSet(S), NEW dim
  PROVE  (\A g \in Groups(S, dim) : Cardinality(Costed(GroupOf(S, dim, g)))
                                      = Cardinality(GroupOf(S, dim, g)))
           <=> Cardinality(Costed(S)) = Cardinality(S)
<1>1. ASSUME NEW T \in SUBSET S PROVE Cardinality(Costed(T)) = Cardinality(T) <=> Costed(T) = T
  <2>1. IsFiniteSet(T) /\ Costed(T) \subseteq T
    BY FS_Subset DEF Costed
  <2>2. QED
    BY <2>1, FS_Subset
<1>2. \A g : GroupOf(S, dim, g) \subseteq S
  BY DEF GroupOf
<1>3. (\A g \in Groups(S, dim) : Costed(GroupOf(S, dim, g)) = GroupOf(S, dim, g))
        <=> Costed(S) = S
  <2>1. ASSUME Costed(S) = S, NEW g PROVE Costed(GroupOf(S, dim, g)) = GroupOf(S, dim, g)
    BY <2>1 DEF Costed, GroupOf
  <2>2. ASSUME \A g \in Groups(S, dim) : Costed(GroupOf(S, dim, g)) = GroupOf(S, dim, g),
               NEW i \in S
        PROVE  i \in Costed(S)
    <3>1. logs[i].call[dim] \in Groups(S, dim) /\ i \in GroupOf(S, dim, logs[i].call[dim])
      BY DEF Groups, GroupOf
    <3>2. i \in Costed(GroupOf(S, dim, logs[i].call[dim]))
      BY <2>2, <3>1
    <3>3. QED
      BY <3>2 DEF Costed
  <2>3. Costed(S) \subseteq S
    BY DEF Costed
  <2>4. QED
    BY <2>1, <2>2, <2>3
<1>4. QED
  BY <1>1, <1>2, <1>3

\* The margin is one figure of any log whatever: it takes no step to make it so.
LEMMA MarginIsOne == Log => MarginConsistent
<1> SUFFICES ASSUME Log, NEW p \in Month PROVE
       LET whole == compute_margin(p, None)
           total == whole.rows[None]
       IN /\ \A dim \in {"model", "channel"} :
               LET m == compute_margin(p, dim) IN
               /\ \A f \in {"revenue", "cost", "calls", "covered"} :
                    SumOf(Column(m.rows, f)) = total[f]
               /\ m.complete = whole.complete
          /\ SumOf(Column(tenants(p), "revenue")) = total.revenue
  BY DEF MarginConsistent
<1> DEFINE S == In(p)
<1>1. IsFiniteSet(S) /\ \A i \in S : logs[i].call \in Calls
  <2>1. Len(logs) \in 0..Len(logs)
    BY DEF Log
  <2>2. QED
    BY <2>1, RowsFinite DEF In
<1> HIDE DEF S
<1>2. /\ compute_margin(p, None).rows[None] = Cell(S)
      /\ compute_margin(p, None).complete <=> Cardinality(Costed(S)) = Cardinality(S)
  BY DEF compute_margin, Cells, Complete, Cell, S
<1>3. ASSUME NEW dim \in {"model", "channel"}
      PROVE  /\ \A f \in {"revenue", "cost", "calls", "covered"} :
                  SumOf(Column(compute_margin(p, dim).rows, f)) = Cell(S)[f]
             /\ compute_margin(p, dim).complete = compute_margin(p, None).complete
  <2>1. dim # None
    BY ClosingAssumption
  <2>2. /\ compute_margin(p, dim).rows = [g \in Groups(S, dim) |-> Cell(GroupOf(S, dim, g))]
        /\ compute_margin(p, dim).complete
             = \A g \in Groups(S, dim) : Cardinality(Costed(GroupOf(S, dim, g)))
                                           = Cardinality(GroupOf(S, dim, g))
    BY <2>1 DEF compute_margin, Cells, Complete, Cell, S
  <2>3. /\ Column(compute_margin(p, dim).rows, "revenue")
             = [g \in Groups(S, dim) |-> Revenue(GroupOf(S, dim, g))]
        /\ Column(compute_margin(p, dim).rows, "cost")
             = [g \in Groups(S, dim) |-> Cost(GroupOf(S, dim, g))]
        /\ Column(compute_margin(p, dim).rows, "calls")
             = [g \in Groups(S, dim) |-> Cardinality(GroupOf(S, dim, g))]
        /\ Column(compute_margin(p, dim).rows, "covered")
             = [g \in Groups(S, dim) |-> Cardinality(Costed(GroupOf(S, dim, g)))]
    BY <2>2 DEF Column, Cell
  <2>4. /\ Cell(S)["revenue"] = Revenue(S) /\ Cell(S)["cost"] = Cost(S)
        /\ Cell(S)["calls"] = Cardinality(S) /\ Cell(S)["covered"] = Cardinality(Costed(S))
    BY DEF Cell
  <2>5. \A f \in {"revenue", "cost", "calls", "covered"} :
          SumOf(Column(compute_margin(p, dim).rows, f)) = Cell(S)[f]
    BY <1>1, <2>3, <2>4, GroupsAddUp
  <2>6. compute_margin(p, dim).complete = compute_margin(p, None).complete
    BY <1>1, <1>2, <2>2, CoveredByGroups DEF compute_margin, Complete
  <2>7. QED
    BY <2>5, <2>6
<1>4. SumOf(Column(tenants(p), "revenue")) = Cell(S).revenue
  <2>1. Column(tenants(p), "revenue") = [g \in Groups(S, "org") |-> Revenue(GroupOf(S, "org", g))]
    BY DEF Column, tenants, Sums, S
  <2>2. QED
    BY <1>1, <2>1, GroupsAddUp DEF Cell
<1>5. QED
  BY <1>2, <1>3, <1>4

----------------------------------------------------------------------------
(* Rows and requests.  What is known of them is said of a log and a table     *)
(* given, so that it can be said of those of the next state.                  *)

RowsOf(l, n, p) == {i \in 1..n : Within(l[i].at, period_bounds(p))}
SumsOf(l, S) == [revenue |-> SumOf([i \in S |-> l[i].call.charged]), calls |-> Cardinality(S)]
\* t is the total of p after some prefix of l, of n calls or more.
TotalOf(l, t, p, n) == \E k \in n..Len(l) : t = SumsOf(l, RowsOf(l, k, p))
Covers(d, t) ==
  /\ t.revenue <= SumOf([m \in DOMAIN d |-> d[m].revenue])
  /\ t.calls <= SumOf([m \in DOMAIN d |-> d[m].calls])

Asking(j, l) ==
  {"period", "since"} \subseteq DOMAIN j /\ j.period \in Month /\ j.since \in 0..Len(l)
Telling(j, l) ==
  /\ Asking(j, l) /\ "total" \in DOMAIN j
  /\ j.total \in Numbers /\ TotalOf(l, j.total, j.period, j.since)
Detailed(j, l) == Telling(j, l) /\ Lines(j.detail) /\ Covers(j.detail, j.total)

\* A request at position s knows this much; job[c] is Idle only when it is.
Knows(s, j, l) ==
  /\ s = "idle" => j = Idle
  /\ s # "idle" => "at" \in DOMAIN j \/ "since" \in DOMAIN j
  /\ s = "totals" => Asking(j, l)
  /\ s = "detail" => Telling(j, l)
  /\ s = "write" => Detailed(j, l)
  /\ s = "lock" => j.at \in FirstTick..LastTick

\* A row r of period p, generated when there were n calls in the log.
Kept(p, r, n, l) ==
  /\ r = [status |-> r.status, total |-> r.total, detail |-> r.detail, locked_at |-> r.locked_at]
  /\ IsRow(r) /\ TotalOf(l, r.total, p, n) /\ Covers(r.detail, r.total)

Books ==
  /\ DOMAIN recs \subseteq Month /\ asked \in [Month -> 0..Len(logs)]
  /\ \A p \in DOMAIN recs : Kept(p, recs[p], asked[p], logs)
Requests ==
  /\ pos \in [Clerk -> {"idle", "totals", "detail", "write", "reread", "lock"}]
  /\ \A c \in Clerk : Knows(pos[c], job[c], logs)
Answers == DOMAIN answer = Clerk /\ \A c \in Clerk : answer[c] # None => IsRow(answer[c].row)

BooksInv == Log /\ Books /\ Requests /\ Answers

\* A log that has grown says of its past what it said before.
Grown(l, m) == Len(l) \in Nat /\ Len(m) \in Nat /\ Len(l) <= Len(m) /\ \A i \in 1..Len(l) : m[i] = l[i]

LEMMA TotalStays ==
  ASSUME NEW l, NEW m, Grown(l, m), NEW n \in Nat, NEW t, NEW p, TotalOf(l, t, p, n)
  PROVE  TotalOf(m, t, p, n)
<1>1. PICK k \in n..Len(l) : t = SumsOf(l, RowsOf(l, k, p))
  BY DEF TotalOf
<1>2. k \in n..Len(m) /\ 1..k \subseteq 1..Len(l)
  BY DEF Grown
<1>3. RowsOf(m, k, p) = RowsOf(l, k, p) /\ RowsOf(l, k, p) \subseteq 1..Len(l)
  BY <1>2 DEF RowsOf, Grown
<1>4. [i \in RowsOf(l, k, p) |-> m[i].call.charged] = [i \in RowsOf(l, k, p) |-> l[i].call.charged]
  BY <1>3 DEF Grown
<1>5. SumsOf(m, RowsOf(m, k, p)) = SumsOf(l, RowsOf(l, k, p))
  BY <1>3, <1>4 DEF SumsOf
<1>6. QED
  BY <1>1, <1>2, <1>5 DEF TotalOf

LEMMA KnowledgeStays ==
  ASSUME NEW l, NEW m, Grown(l, m), NEW s, NEW j, Knows(s, j, l)
  PROVE  Knows(s, j, m)
<1>1. Asking(j, l) => Asking(j, m)
  BY DEF Asking, Grown
<1>2. Telling(j, l) => Telling(j, m)
  <2>1. Asking(j, l) => j.since \in Nat
    BY DEF Asking, Grown
  <2>2. QED
    BY <1>1, <2>1, TotalStays DEF Telling
<1>3. Detailed(j, l) => Detailed(j, m)
  BY <1>2 DEF Detailed
<1>4. QED
  BY <1>1, <1>2, <1>3 DEF Knows

LEMMA LogsOfMore ==
  ASSUME NEW A, NEW B, A \subseteq B, NEW l \in Seq(A)
  PROVE  l \in Seq(B)
OBVIOUS

\* The log only grows, by whole settlements.
LEMMA LogStep ==
  ASSUME Log, [Next]_vars
  PROVE  Log' /\ Grown(logs, logs')
<1> USE DEF Log
<1>1. FirstTick \in Nat /\ LastTick \in Nat /\ Len(logs) \in Nat
  BY ClosingAssumption
<1>2. CASE TimePasses
  <2>1. now \in Nat /\ now' = now + 1 /\ now' \in FirstTick..LastTick /\ UNCHANGED <<flying, logs>>
    BY <1>1, <1>2 DEF TimePasses
  <2>2. Settled(now) \subseteq Settled(now')
    BY <1>1, <2>1 DEF Settled
  <2>3. logs \in Seq(Settled(now'))
    BY <2>2, LogsOfMore
  <2>4. QED
    BY <1>1, <2>1, <2>2, <2>3 DEF Grown
<1>3. CASE Stamp
  <2>1. PICK c \in Calls \ Begun : flying' = flying \cup {[call |-> c, at |-> now]}
    BY <1>3 DEF Stamp
  <2>2. UNCHANGED <<now, logs>>
    BY <1>3 DEF Stamp
  <2>3. now \in FirstTick..now
    BY <1>1
  <2>4. [call |-> c, at |-> now] \in Settled(now)
    BY <2>3 DEF Settled
  <2>5. QED
    BY <1>1, <2>1, <2>2, <2>4 DEF Grown
<1>4. CASE Commit
  <2>1. PICK f \in flying : flying' = flying \ {f} /\ logs' = Append(logs, f)
    BY <1>4 DEF Commit
  <2>2. UNCHANGED now /\ f \in Settled(now)
    BY <1>4 DEF Commit
  <2>3. logs' \in Seq(Settled(now)) /\ Len(logs') = Len(logs) + 1
        /\ \A i \in 1..Len(logs) : logs'[i] = logs[i]
    BY <2>1, <2>2
  <2>4. QED
    BY <1>1, <2>1, <2>2, <2>3 DEF Grown
<1>5. CASE UNCHANGED <<now, flying, logs>>
  BY <1>1, <1>5 DEF Grown
<1>6. QED
  BY <1>2, <1>3, <1>4, <1>5
  DEF Next, Generate, Totals, DetailRows, Insert, Update, Reread, BeginLock, Lock, GetOne, vars

\* What the other requests know and the other rows say, they still do.
LEMMA OthersStay ==
  ASSUME BooksInv, Grown(logs, logs')
  PROVE  /\ \A c \in Clerk : Knows(pos[c], job[c], logs')
         /\ \A p \in DOMAIN recs : Kept(p, recs[p], asked[p], logs')
         /\ 0..Len(logs) \subseteq 0..Len(logs')
<1>1. \A c \in Clerk : Knows(pos[c], job[c], logs')
  BY KnowledgeStays DEF BooksInv, Requests
<1>2. \A p \in DOMAIN recs : Kept(p, recs[p], asked[p], logs')
  <2>1. \A p \in DOMAIN recs : asked[p] \in Nat /\ Kept(p, recs[p], asked[p], logs)
    BY DEF BooksInv, Books, Grown
  <2>2. QED
    BY <2>1, TotalStays DEF Kept
<1>3. QED
  BY <1>1, <1>2 DEF Grown

\* A request that goes on, or ends without an answer.
LEMMA GotoBooks ==
  ASSUME BooksInv, Functions, Grown(logs, logs'), NEW c \in Clerk, NEW s, NEW j, Goto(c, s, j),
         s \in {"idle", "totals", "detail", "write", "reread", "lock"}, Knows(s, j, logs')
  PROVE  Requests'
<1>1. pos'[c] = s /\ job'[c] = j /\ \A d \in Clerk \ {c} : pos'[d] = pos[d] /\ job'[d] = job[d]
  BY DEF Goto, Functions
<1>2. \A d \in Clerk : Knows(pos'[d], job'[d], logs')
  BY <1>1, OthersStay
<1>3. pos' \in [Clerk -> {"idle", "totals", "detail", "write", "reread", "lock"}]
  BY DEF BooksInv, Requests, Goto
<1>4. QED
  BY <1>2, <1>3 DEF Requests

\* A request that ends with an answer.
LEMMA ReplyBooks ==
  ASSUME BooksInv, Functions, Grown(logs, logs'), NEW c \in Clerk, NEW p, NEW r, Reply(c, p, r), IsRow(r)
  PROVE  Requests' /\ Answers'
<1>1. Requests'
  <2>1. Goto(c, "idle", Idle) /\ Knows("idle", Idle, logs')
    BY DEF Reply, Knows
  <2>2. QED
    BY <2>1, GotoBooks
<1>2. Answers'
  <2>1. answer'[c] = [period |-> p, row |-> r] /\ \A d \in Clerk \ {c} : answer'[d] = answer[d]
    BY DEF Reply, Functions
  <2>2. DOMAIN answer' = Clerk
    BY DEF Reply, BooksInv, Answers
  <2>3. QED
    BY <2>1, <2>2 DEF BooksInv, Answers
<1>3. QED
  BY <1>1, <1>2

\* The sums over any calls of the log are numbers.
LEMMA SumsAreNumbers ==
  ASSUME NEW S, IsFiniteSet(S), \A i \in S : logs[i].call \in Calls
  PROVE  Sums(S) \in Numbers
<1> DEFINE f == [i \in S |-> logs[i].call.charged]
<1>1. f \in [S -> Nat]
  BY ClosingAssumption
<1> HIDE DEF f
<1>2. SumOf(f) \in Nat /\ Cardinality(S) \in Nat
  BY <1>1, UnitsFinite, FS_CardinalityType
<1>3. QED
  BY <1>2 DEF Sums, Revenue, Numbers, f

\* The detail read of a month has a line for every model of its calls and
\* covers any total of that month read before.
LEMMA DetailIsFull ==
  ASSUME Log, NEW p, NEW k \in 0..Len(logs)
  PROVE  Lines(Detail(In(p))) /\ Covers(Detail(In(p)), Sums(Rows(k, p)))
<1> DEFINE S == In(p)
           K == Rows(k, p)
           d == Detail(S)
<1>1. IsFiniteSet(S) /\ (\A i \in S : logs[i].call \in Calls) /\ K \subseteq S
  <2>1. Len(logs) \in 0..Len(logs) /\ 1..k \subseteq 1..Len(logs)
    BY DEF Log
  <2>2. QED
    BY <2>1, RowsFinite DEF In, Rows
<1> HIDE DEF S, K
<1>2. DOMAIN d = Groups(S, "model") /\ \A m \in DOMAIN d : d[m] = Sums(GroupOf(S, "model", m))
  BY DEF Detail
<1>3. Lines(d)
  <2>1. \A m \in DOMAIN d : IsFiniteSet(GroupOf(S, "model", m)) /\ GroupOf(S, "model", m) \subseteq S
    BY <1>1, FS_Subset DEF GroupOf
  <2>2. \A m \in DOMAIN d : Sums(GroupOf(S, "model", m)) \in Numbers
    BY <1>1, <2>1, SumsAreNumbers
  <2>3. DOMAIN d \subseteq {c.model : c \in Calls}
    BY <1>1, <1>2 DEF Groups
  <2> HIDE DEF d
  <2>4. QED
    BY <1>2, <2>2, <2>3 DEF Lines
<1>4. /\ [m \in DOMAIN d |-> d[m].revenue] = [m \in Groups(S, "model") |-> Revenue(GroupOf(S, "model", m))]
      /\ [m \in DOMAIN d |-> d[m].calls] = [m \in Groups(S, "model") |-> Cardinality(GroupOf(S, "model", m))]
  BY <1>2 DEF Sums
<1> HIDE DEF d
<1>5. /\ SumOf([m \in DOMAIN d |-> d[m].revenue]) = Revenue(S)
      /\ SumOf([m \in DOMAIN d |-> d[m].calls]) = Cardinality(S)
  BY <1>1, <1>4, GroupsAddUp
<1>6. Revenue(K) <= Revenue(S) /\ Cardinality(K) <= Cardinality(S)
  <2> DEFINE f == [i \in S |-> logs[i].call.charged]
  <2>1. f \in [S -> Nat] /\ Revenue(S) = SumOf(f) /\ [i \in K |-> f[i]] = [i \in K |-> logs[i].call.charged]
    BY <1>1, ClosingAssumption DEF Revenue
  <2> HIDE DEF f
  <2>2. SumOf([i \in K |-> f[i]]) <= SumOf(f)
    BY <1>1, <2>1, FewerTerms
  <2>3. QED
    BY <1>1, <2>1, <2>2, FS_Subset DEF Revenue
<1>7. Sums(K).revenue = Revenue(K) /\ Sums(K).calls = Cardinality(K)
  BY DEF Sums
<1>8. Covers(d, Sums(K))
  BY <1>5, <1>6, <1>7 DEF Covers
<1>9. QED
  BY <1>3, <1>8 DEF d, S, K

\* What a request reads of the log.
LEMMA ReadsBooks ==
  ASSUME BooksInv, Functions, NEW c \in Clerk, Generate(c) \/ Totals(c) \/ DetailRows(c) \/ BeginLock(c)
  PROVE  Requests' /\ UNCHANGED <<recs, asked, answer, logs>>
<1>1. UNCHANGED <<recs, asked, answer, logs, now>> /\ Grown(logs, logs') /\ Len(logs) \in Nat /\ Log
  BY DEF Generate, Totals, DetailRows, BeginLock, Grown, BooksInv, Log
<1>2. CASE Generate(c)
  <2>1. PICK p \in Month :
          Goto(c, "totals", [period |-> p, exists |-> Exists(p), since |-> Len(logs)])
    BY <1>2 DEF Generate
  <2>2. Knows("totals", [period |-> p, exists |-> Exists(p), since |-> Len(logs)], logs')
    BY <1>1 DEF Knows, Asking
  <2>3. QED
    BY <1>1, <2>1, <2>2, GotoBooks
<1>3. CASE Totals(c)
  <2> DEFINE t == Sums(In(job[c].period))
             j == With(job[c], "total", t)
  <2>1. Goto(c, "detail", j) /\ Asking(job[c], logs)
    BY <1>3 DEF Totals, BooksInv, Requests, Knows
  <2>2. /\ {"period", "since", "total"} \subseteq DOMAIN j
        /\ j.period = job[c].period /\ j.since = job[c].since /\ j.total = t
    BY <2>1, <1>3 DEF With, Asking
  <2>3. t \in Numbers /\ t = SumsOf(logs, RowsOf(logs, Len(logs), job[c].period))
    <3>1. Len(logs) \in 0..Len(logs)
      BY <1>1
    <3>2. QED
      BY <1>1, <3>1, RowsFinite, SumsAreNumbers DEF In, Sums, Revenue, Rows, SumsOf, RowsOf
  <2>4. TotalOf(logs, t, job[c].period, job[c].since)
    BY <1>1, <2>1, <2>3 DEF TotalOf, Asking
  <2> HIDE DEF t, j
  <2>5. Knows("detail", j, logs')
    BY <1>1, <2>1, <2>2, <2>3, <2>4 DEF Knows, Telling, Asking
  <2>6. QED
    BY <1>1, <2>1, <2>5, GotoBooks
<1>4. CASE DetailRows(c)
  <2> DEFINE d == Detail(In(job[c].period))
             j == With(job[c], "detail", d)
  <2>1. Goto(c, "write", j) /\ Telling(job[c], logs)
    BY <1>4 DEF DetailRows, BooksInv, Requests, Knows
  <2>2. /\ {"period", "since", "total"} \subseteq DOMAIN j
        /\ j.period = job[c].period /\ j.since = job[c].since
        /\ j.total = job[c].total /\ j.detail = d
    BY <2>1 DEF With, Telling, Asking
  <2>3. Lines(d) /\ Covers(d, job[c].total)
    <3>1. PICK k \in job[c].since..Len(logs) :
            job[c].total = SumsOf(logs, RowsOf(logs, k, job[c].period))
      BY <2>1 DEF Telling, TotalOf
    <3>2. k \in 0..Len(logs)
      BY <1>1, <2>1 DEF Telling, Asking
    <3>3. job[c].total = Sums(Rows(k, job[c].period))
      BY <3>1 DEF Sums, Revenue, Rows, SumsOf, RowsOf
    <3>4. QED
      BY <1>1, <3>2, <3>3, DetailIsFull
  <2> HIDE DEF d, j
  <2>4. Knows("write", j, logs')
    BY <1>1, <2>1, <2>2, <2>3 DEF Knows, Detailed, Telling, Asking
  <2>5. QED
    BY <1>1, <2>1, <2>4, GotoBooks
<1>5. CASE BeginLock(c)
  <2>1. PICK p \in DOMAIN recs : Goto(c, "lock", [period |-> p, at |-> now])
    BY <1>5 DEF BeginLock
  <2>2. Knows("lock", [period |-> p, at |-> now], logs')
    BY <1>1 DEF Knows, Log
  <2>3. QED
    BY <1>1, <2>1, <2>2, GotoBooks
<1>6. QED
  BY <1>1, <1>2, <1>3, <1>4, <1>5

\* What a request writes and answers.
LEMMA DraftKept ==
  ASSUME NEW j, NEW l, Detailed(j, l)
  PROVE  IsRow(Drafted(j)) /\ Kept(j.period, Drafted(j), j.since, l)
  BY DEF Detailed, Telling, Drafted, IsRow, Kept

\* lock writes the status and the instant, and nothing else of the row.
LEMMA SealedRow ==
  ASSUME NEW r, NEW t,
         r = [status |-> r.status, total |-> r.total, detail |-> r.detail, locked_at |-> r.locked_at]
  PROVE  Sealed(r, t)
           = [status |-> "Locked", total |-> r.total, detail |-> r.detail, locked_at |-> t]
<1> DEFINE e == Sealed(r, t)
<1>1. DOMAIN r = {"status", "total", "detail", "locked_at"}
  OBVIOUS
<1>2. e = [f \in DOMAIN r |-> IF f = "locked_at" THEN t ELSE IF f = "status" THEN "Locked" ELSE r[f]]
  BY <1>1 DEF Sealed
<1> HIDE DEF e
<1>3. QED
  BY <1>1, <1>2 DEF e

LEMMA PutBooks ==
  ASSUME BooksInv, Functions, NEW c \in Clerk, pos[c] = "write", Put(c, Drafted(job[c])), UNCHANGED logs
  PROVE  Books' /\ IsRow(Drafted(job[c]))
<1>1. Detailed(job[c], logs) /\ job[c].period \in Month /\ job[c].since \in 0..Len(logs)
  BY DEF BooksInv, Requests, Knows, Detailed, Telling, Asking
<1>2. Kept(job[c].period, Drafted(job[c]), job[c].since, logs) /\ IsRow(Drafted(job[c]))
  BY <1>1, DraftKept
<1>3. /\ DOMAIN recs' = DOMAIN recs \cup {job[c].period}
      /\ recs'[job[c].period] = Drafted(job[c])
      /\ \A p \in DOMAIN recs \ {job[c].period} : recs'[p] = recs[p]
  BY DEF Put
<1>4. /\ asked' \in [Month -> 0..Len(logs)] /\ asked'[job[c].period] = job[c].since
      /\ \A p \in Month \ {job[c].period} : asked'[p] = asked[p]
  BY <1>1 DEF Put, BooksInv, Books
<1>5. \A p \in DOMAIN recs' : Kept(p, recs'[p], asked'[p], logs)
  BY <1>2, <1>3, <1>4 DEF BooksInv, Books
<1>6. QED
  BY <1>1, <1>2, <1>3, <1>4, <1>5 DEF BooksInv, Books

LEMMA WritesBooks ==
  ASSUME BooksInv, SealingInv, NEW c \in Clerk,
         Insert(c) \/ Update(c) \/ Lock(c) \/ Reread(c) \/ GetOne(c)
  PROVE  Books' /\ Requests' /\ Answers'
<1> DEFINE p == job[c].period
<1>1. /\ Functions /\ Grown(logs, logs') /\ UNCHANGED logs
      /\ (Lock(c) => Exists(p)) /\ (Reread(c) => Exists(p))
  BY DEF SealingInv, AboutMonths, Insert, Update, Lock, Reread, GetOne, Grown, BooksInv, Log
<1>2. \A q \in DOMAIN recs : Kept(q, recs[q], asked[q], logs) /\ IsRow(recs[q])
  BY DEF BooksInv, Books, Kept
<1>3. UNCHANGED <<recs, asked>> => Books'
  BY <1>1 DEF BooksInv, Books
<1>4. UNCHANGED answer => Answers'
  BY DEF BooksInv, Answers
<1>5. ASSUME Refuse(c) PROVE Requests' /\ Answers'
  <2>1. Goto(c, "idle", Idle) /\ Knows("idle", Idle, logs')
    BY <1>5 DEF Refuse, Knows
  <2>2. Answers'
    BY <1>5 DEF Refuse, BooksInv, Answers
  <2>3. QED
    BY <1>1, <2>1, <2>2, GotoBooks
<1>6. ASSUME Goto(c, "reread", job[c]), pos[c] # "idle" PROVE Requests'
  <2>1. Knows("reread", job[c], logs')
    BY <1>1, <1>6 DEF BooksInv, Requests, Knows
  <2>2. QED
    BY <1>1, <1>6, <2>1, GotoBooks
<1>7. CASE Insert(c)
  <2>1. CASE ~Exists(p)
    <3>1. Put(c, Drafted(job[c])) /\ Reply(c, p, Drafted(job[c])) /\ pos[c] = "write"
      BY <1>7, <2>1 DEF Insert
    <3>2. Books' /\ IsRow(Drafted(job[c]))
      BY <1>1, <3>1, PutBooks
    <3>3. QED
      BY <1>1, <3>1, <3>2, ReplyBooks
  <2>2. CASE Exists(p)
    BY <1>3, <1>5, <1>7, <2>2 DEF Insert
  <2>3. QED
    BY <2>1, <2>2
<1>8. CASE Update(c)
  <2>1. CASE IsDraft(p)
    <3>1. Put(c, Drafted(job[c])) /\ Goto(c, "reread", job[c]) /\ UNCHANGED answer /\ pos[c] = "write"
      BY <1>8, <2>1 DEF Update
    <3>2. Books'
      BY <1>1, <3>1, PutBooks
    <3>3. QED
      BY <1>4, <1>6, <3>1, <3>2
  <2>2. CASE ~IsDraft(p)
    BY <1>3, <1>5, <1>8, <2>2 DEF Update
  <2>3. QED
    BY <2>1, <2>2
<1>9. CASE Lock(c)
  <2>1. CASE LocksWhat(p)
    <3>1. /\ recs' = [recs EXCEPT ![p] = Sealed(@, job[c].at)] /\ Reply(c, p, recs'[p])
          /\ UNCHANGED asked /\ p \in DOMAIN recs /\ job[c].at \in FirstTick..LastTick
      BY <1>1, <1>9, <2>1 DEF Lock, Exists, BooksInv, Requests, Knows
    <3>2. recs'[p] = Sealed(recs[p], job[c].at) /\ \A q \in DOMAIN recs \ {p} : recs'[q] = recs[q]
      BY <1>1, <3>1 DEF Functions
    <3>3. Kept(p, Sealed(recs[p], job[c].at), asked[p], logs) /\ IsRow(Sealed(recs[p], job[c].at))
      <4>1. Kept(p, recs[p], asked[p], logs)
        BY <1>2, <3>1
      <4>2. Sealed(recs[p], job[c].at)
              = [status |-> "Locked", total |-> recs[p].total, detail |-> recs[p].detail,
                 locked_at |-> job[c].at]
        BY <4>1, SealedRow DEF Kept
      <4>3. recs[p].total \in Numbers /\ Lines(recs[p].detail)
            /\ TotalOf(logs, recs[p].total, p, asked[p]) /\ Covers(recs[p].detail, recs[p].total)
        BY <4>1 DEF Kept, IsRow
      <4> HIDE DEF p
      <4>4. QED
        BY <3>1, <4>2, <4>3 DEF Kept, IsRow
    <3>4. Books'
      BY <1>1, <1>2, <3>1, <3>2, <3>3 DEF BooksInv, Books, Functions
    <3>5. QED
      BY <1>1, <3>1, <3>2, <3>3, <3>4, ReplyBooks
  <2>2. CASE ~LocksWhat(p)
    BY <1>3, <1>4, <1>6, <1>9, <2>2 DEF Lock
  <2>3. QED
    BY <2>1, <2>2
<1>10. CASE Reread(c)
  <2>1. Reply(c, p, recs[p]) /\ UNCHANGED <<recs, asked>> /\ IsRow(recs[p])
    BY <1>1, <1>2, <1>10 DEF Reread, Exists
  <2>2. QED
    BY <1>1, <1>3, <2>1, ReplyBooks
<1>11. CASE GetOne(c)
  <2>1. PICK q \in DOMAIN recs : Reply(c, q, recs[q])
    BY <1>11 DEF GetOne
  <2>2. UNCHANGED <<recs, asked>> /\ IsRow(recs[q])
    BY <1>2, <1>11 DEF GetOne
  <2>3. QED
    BY <1>1, <1>3, <2>1, <2>2, ReplyBooks
<1>12. QED
  BY <1>7, <1>8, <1>9, <1>10, <1>11

LEMMA BooksInit == Init => BooksInv
<1> SUFFICES ASSUME Init PROVE BooksInv
  OBVIOUS
<1>1. Log
  BY ClosingAssumption DEF Init, Log
<1>2. DOMAIN recs = {} /\ Len(logs) = 0
  BY DEF Init
<1>3. Books
  BY <1>2 DEF Init, Books
<1>4. Requests /\ Answers
  BY DEF Init, Requests, Knows, Answers
<1>5. QED
  BY <1>1, <1>3, <1>4 DEF BooksInv

LEMMA BooksStep == BooksInv /\ SealingInv /\ [Next]_vars => BooksInv'
<1> SUFFICES ASSUME BooksInv, SealingInv, [Next]_vars PROVE BooksInv'
  OBVIOUS
<1>1. Log' /\ Grown(logs, logs') /\ Functions
  BY LogStep DEF BooksInv, SealingInv
<1>2. CASE TimePasses \/ Stamp \/ Commit \/ UNCHANGED vars
  <2>1. UNCHANGED <<recs, asked, pos, job, answer>>
    BY <1>2 DEF TimePasses, Stamp, Commit, vars
  <2>2. Books' /\ Requests' /\ Answers'
    BY <1>1, <2>1, OthersStay DEF BooksInv, Books, Requests, Answers
  <2>3. QED
    BY <1>1, <2>2 DEF BooksInv
<1>3. ASSUME NEW c \in Clerk, Generate(c) \/ Totals(c) \/ DetailRows(c) \/ BeginLock(c)
      PROVE  BooksInv'
  <2>1. Requests' /\ UNCHANGED <<recs, asked, answer, logs>>
    BY <1>1, <1>3, ReadsBooks
  <2>2. Books' /\ Answers'
    BY <2>1 DEF BooksInv, Books, Answers
  <2>3. QED
    BY <1>1, <2>1, <2>2 DEF BooksInv
<1>4. ASSUME NEW c \in Clerk, Insert(c) \/ Update(c) \/ Lock(c) \/ Reread(c) \/ GetOne(c)
      PROVE  BooksInv'
  BY <1>1, <1>4, WritesBooks DEF BooksInv
<1>5. QED
  BY <1>2, <1>3, <1>4 DEF Next

LEMMA BooksHold == BooksInv => TypeOK /\ TotalsWereTrue /\ DetailCoversTotal /\ MarginConsistent
<1> SUFFICES ASSUME BooksInv PROVE TypeOK /\ TotalsWereTrue /\ DetailCoversTotal /\ MarginConsistent
  OBVIOUS
<1>1. Log /\ Books /\ Requests /\ Answers
  BY DEF BooksInv
<1>2. TypeOK
  <2>1. /\ \A f \in flying : f.call \in Calls /\ f.at \in FirstTick..now
        /\ \A i \in DOMAIN logs : logs[i].call \in Calls /\ logs[i].at \in FirstTick..now
    <3>1. \A i \in DOMAIN logs : logs[i] \in Settled(now)
      BY <1>1 DEF Log
    <3>2. QED
      BY <1>1, <3>1 DEF Log, Settled
  <2>2. \A c \in Clerk : (job[c] = Idle) = (pos[c] = "idle")
    BY <1>1 DEF Requests, Knows, Idle
  <2>3. QED
    BY <1>1, <2>1, <2>2 DEF TypeOK, Log, Books, Requests, Answers, Kept
<1>3. TotalsWereTrue
  <2>1. ASSUME NEW p \in DOMAIN recs
        PROVE  \E k \in asked[p]..Len(logs) :
                 recs[p].total = Sums({i \in 1..k : PeriodAt(logs[i].at) = p})
    <3>1. PICK k \in asked[p]..Len(logs) : recs[p].total = SumsOf(logs, RowsOf(logs, k, p))
      BY <1>1 DEF Books, Kept, TotalOf
    <3>2. p \in Nat \X (1..12) /\ asked[p] \in 0..Len(logs) /\ Len(logs) \in Nat
      BY <1>1, ClosingAssumption DEF Books, ValidPeriod, Log
    <3>3. k \in 0..Len(logs) /\ 1..k \subseteq 1..Len(logs)
      BY <3>2
    <3>4. \A i \in 1..k : logs[i].at \in Nat
      <4>1. \A i \in 1..k : logs[i] \in Settled(now)
        BY <1>1, <3>3 DEF Log
      <4>2. QED
        BY <1>1, <4>1, ClosingAssumption DEF Log, Settled
    <3>5. RowsOf(logs, k, p) = {i \in 1..k : PeriodAt(logs[i].at) = p}
      BY <3>2, <3>4, MonthsDivideTime DEF RowsOf
    <3>6. QED
      BY <3>1, <3>5 DEF Sums, SumsOf, Revenue
  <2>2. QED
    BY <2>1 DEF TotalsWereTrue
<1>4. DetailCoversTotal
  BY <1>1 DEF DetailCoversTotal, Books, Kept, Covers
<1>5. QED
  BY <1>1, <1>2, <1>3, <1>4, MarginIsOne

\* The books are true (BooksAreTrue): totals, detail, margin, locked answers.
THEOREM BooksAlwaysTrue == Spec => []BooksAreTrue
<1>1. Spec => []SealingInv
  BY SealingInit, SealingStep, PTL DEF Spec
<1>2. Spec => []BooksInv
  BY <1>1, BooksInit, BooksStep, PTL DEF Spec
<1>3. BooksInv /\ SealingInv => BooksAreTrue
  BY BooksHold DEF BooksAreTrue, SealingInv
<1>4. QED
  BY <1>1, <1>2, <1>3, PTL

----------------------------------------------------------------------------
(* The mail loop: reports delivered, losses and what cron_state says.      *)

LEMMA PeriodsAre ==
  ASSUME NEW t \in Nat
  PROVE  PeriodAt(t) \in Nat \X (1..12)
<1>1. t \div MonthTicks \in Nat
  BY PeriodsAssumption
<1>2. QED
  BY <1>1, DivTwelve DEF PeriodAt

\* A month is an interval of time.
LEMMA MonthsInOrder ==
  ASSUME NEW r \in Nat, NEW s \in Nat, NEW t \in Nat, r <= s, s <= t, PeriodAt(r) = PeriodAt(t)
  PROVE  PeriodAt(s) = PeriodAt(t)
<1> DEFINE p == PeriodAt(t)
           start == period_bounds(p).from
           end == period_bounds(p).to
<1>1. p \in Nat \X (1..12)
  BY PeriodsAre
<1>2. start \in Int /\ end \in Int
  <2>1. p[1] \in Nat /\ p[2] \in 1..12 /\ MonthTicks \in Nat
    BY <1>1, PeriodsAssumption
  <2> HIDE DEF p
  <2>2. Start(p) \in Int /\ Start(Following(p)) \in Int
    BY <2>1, BoundsSpanMonth
  <2>3. QED
    BY <2>2 DEF period_bounds
<1>3. \A u \in Nat : (start <= u /\ u < end) <=> PeriodAt(u) = p
  BY <1>1, MonthsDivideTime DEF Within
<1> HIDE DEF p, start, end
<1>4. start <= r /\ t < end
  BY <1>3 DEF p
<1>5. start <= s /\ s < end
  BY <1>2, <1>4
<1>6. QED
  BY <1>3, <1>5 DEF p

MailsOf(ms, m) == {x \in ms : x.by = "cron" /\ x.due = m}
LostOf(ls, m) == {l \in ls : l.month = m}

\* The loop's state, with the clock of the tick.
LoopTypes ==
  /\ cronNow \in CronFirst..CronLast /\ looked \in (CronFirst..cronNow) \cup {None}
  /\ cronPos \in {"asleep", "send", "record", "down"}
  /\ IF cronPos \in {"asleep", "down"} THEN cronJob = None
     ELSE cronJob \in [at : CronFirst..cronNow, sent : BOOLEAN]
  /\ cronPos = "send" => ~cronJob.sent
  /\ last \in (CronFirst..cronNow) \cup {None}
  /\ faults \in 0..MaxFaults /\ manual \in 0..MaxManual
TableTypes ==
  /\ IsFiniteSet(mails) /\ IsFiniteSet(lost)
  /\ \A x \in mails : x.at \in CronFirst..cronNow /\ x.by \in {"cron", "hand"} /\ Cron!Mailable
  /\ \A l \in lost : l.fault \in Nat /\ l.fault < faults

\* The tick's clock is not before the recorded one; a report is sent in a month
\* that is not recorded.
Ahead ==
  cronPos \in {"send", "record"} /\ last # None =>
    /\ last <= cronJob.at
    /\ cronPos = "send" => Cron!MonthOf(last) # Cron!MonthOf(cronJob.at)

\* A month after the recorded one, of which no mail waits to be recorded.
Unsent(t) ==
  /\ last # None => last < t /\ Cron!MonthOf(last) # Cron!MonthOf(t)
  /\ cronJob # None /\ cronJob.sent => Cron!MonthOf(cronJob.at) # Cron!MonthOf(t)
Counts ==
  \A t \in CronFirst..CronLast :
    LET delivered == Cardinality(MailsOf(mails, Cron!MonthOf(t)))
        losses == Cardinality(LostOf(lost, Cron!MonthOf(t)))
    IN delivered <= losses + 1 /\ (Unsent(t) => delivered <= losses)

RecordedSent ==
  ~DryRun =>
    /\ last # None => MailsOf(mails, Cron!MonthOf(last)) # {}
    /\ cronPos = "record" => MailsOf(mails, Cron!MonthOf(cronJob.at)) # {}

CronInv == LoopTypes /\ TableTypes /\ Ahead /\ Counts /\ RecordedSent

LEMMA CronConstants ==
  /\ CronFirst \in Nat /\ CronLast \in Nat /\ CronFirst <= CronLast /\ MaxFaults \in Nat /\ MaxManual \in Nat
  /\ None \notin Nat /\ None \notin [at : CronFirst..CronLast, sent : BOOLEAN]
  /\ DryRun \in BOOLEAN /\ HasSmtp \in BOOLEAN /\ HasRecipients \in BOOLEAN
BY CronAssumption DEF Cron!ReportCronAssumption

LEMMA CronMonths ==
  ASSUME NEW t \in Nat
  PROVE  /\ Cron!MonthOf(t) = PeriodAt(t + CstAhead) /\ t + CstAhead \in Nat
BY PeriodsAssumption DEF Cron!MonthOf, Cron!cst, Cron!PeriodAt, PeriodAt

LEMMA CronMonthsInOrder ==
  ASSUME NEW r \in Nat, NEW s \in Nat, NEW t \in Nat, r <= s, s <= t, Cron!MonthOf(r) = Cron!MonthOf(t)
  PROVE  Cron!MonthOf(s) = Cron!MonthOf(t)
<1>1. CstAhead \in Nat
  BY PeriodsAssumption
<1>2. r + CstAhead <= s + CstAhead /\ s + CstAhead <= t + CstAhead
  BY <1>1
<1>3. QED
  BY <1>2, CronMonths, MonthsInOrder

\* One delivery is at most one mail more for its month, and none for others.
LEMMA OneDelivery ==
  ASSUME NEW ms, IsFiniteSet(ms), NEW x
  PROVE  /\ IsFiniteSet(ms \cup {x})
         /\ \A m : IF x.by = "cron" /\ x.due = m
                   THEN /\ Cardinality(MailsOf(ms \cup {x}, m)) <= Cardinality(MailsOf(ms, m)) + 1
                        /\ MailsOf(ms \cup {x}, m) # {}
                   ELSE MailsOf(ms \cup {x}, m) = MailsOf(ms, m)
         /\ \A m : MailsOf(ms, m) \subseteq MailsOf(ms \cup {x}, m)
                   /\ Cardinality(MailsOf(ms, m)) \in Nat /\ Cardinality(MailsOf(ms \cup {x}, m)) \in Nat
<1>1. IsFiniteSet(ms \cup {x})
  BY FS_AddElement
<1>2. ASSUME NEW m PROVE /\ IsFiniteSet(MailsOf(ms, m)) /\ Cardinality(MailsOf(ms, m)) \in Nat
                         /\ MailsOf(ms, m) \subseteq MailsOf(ms \cup {x}, m)
                         /\ Cardinality(MailsOf(ms \cup {x}, m)) \in Nat
  <2>1. MailsOf(ms, m) \subseteq ms /\ MailsOf(ms \cup {x}, m) \subseteq ms \cup {x}
        /\ MailsOf(ms, m) \subseteq MailsOf(ms \cup {x}, m)
    BY DEF MailsOf
  <2>2. QED
    BY <1>1, <2>1, FS_Subset, FS_CardinalityType
<1>3. ASSUME NEW m, x.by = "cron" /\ x.due = m
      PROVE  /\ Cardinality(MailsOf(ms \cup {x}, m)) <= Cardinality(MailsOf(ms, m)) + 1
             /\ MailsOf(ms \cup {x}, m) # {}
  <2>1. MailsOf(ms \cup {x}, m) = MailsOf(ms, m) \cup {x}
    BY <1>3 DEF MailsOf
  <2>2. Cardinality(MailsOf(ms, m) \cup {x}) =
          IF x \in MailsOf(ms, m) THEN Cardinality(MailsOf(ms, m)) ELSE Cardinality(MailsOf(ms, m)) + 1
    BY <1>2, FS_AddElement
  <2> DEFINE k == Cardinality(MailsOf(ms, m))
             n == Cardinality(MailsOf(ms, m) \cup {x})
  <2>3. k \in Nat /\ (n = k \/ n = k + 1)
    BY <1>2, <2>2
  <2> HIDE DEF k, n
  <2>4. n <= k + 1
    BY <2>3
  <2>5. MailsOf(ms \cup {x}, m) # {}
    BY <2>1
  <2>6. QED
    BY <2>1, <2>4, <2>5 DEF k, n
<1>4. ASSUME NEW m, ~(x.by = "cron" /\ x.due = m) PROVE MailsOf(ms \cup {x}, m) = MailsOf(ms, m)
  BY <1>4 DEF MailsOf
<1>5. QED
  BY <1>1, <1>2, <1>3, <1>4

\* A loss counts once: no other has the number of its fault.
LEMMA LossTaken ==
  ASSUME LoopTypes, TableTypes, NEW m0, lost' = lost \cup {[month |-> m0, fault |-> faults]}
  PROVE  /\ IsFiniteSet(lost') /\ Cardinality(LostOf(lost', m0)) = Cardinality(LostOf(lost, m0)) + 1
         /\ \A m : m # m0 => LostOf(lost', m) = LostOf(lost, m)
<1> DEFINE l0 == [month |-> m0, fault |-> faults]
<1>1. l0.month = m0 /\ l0.fault = faults /\ lost' = lost \cup {l0}
  OBVIOUS
<1> HIDE DEF l0
<1>2. IsFiniteSet(lost) /\ faults \in Nat /\ \A l \in lost : l.fault \in Nat /\ l.fault < faults
  BY CronConstants DEF TableTypes, LoopTypes
<1>3. l0 \notin lost
  BY <1>1, <1>2
<1>4. IsFiniteSet(lost')
  BY <1>1, <1>2, FS_AddElement
<1>5. Cardinality(LostOf(lost', m0)) = Cardinality(LostOf(lost, m0)) + 1
  <2>1. LostOf(lost', m0) = LostOf(lost, m0) \cup {l0} /\ l0 \notin LostOf(lost, m0)
    BY <1>1, <1>3 DEF LostOf
  <2>2. IsFiniteSet(LostOf(lost, m0))
    <3>1. LostOf(lost, m0) \subseteq lost
      BY DEF LostOf
    <3>2. QED
      BY <1>2, <3>1, FS_Subset
  <2>3. QED
    BY <2>1, <2>2, FS_AddElement
<1>6. ASSUME NEW m, m # m0 PROVE LostOf(lost', m) = LostOf(lost, m)
  BY <1>1, <1>6 DEF LostOf
<1>7. QED
  BY <1>4, <1>5, <1>6

LEMMA CronInit == Cron!Init => CronInv
<1> SUFFICES ASSUME Cron!Init PROVE CronInv
  OBVIOUS
<1>1. LoopTypes /\ TableTypes /\ Ahead /\ RecordedSent
  BY CronConstants, FS_EmptySet DEF Cron!Init, LoopTypes, TableTypes, Ahead, RecordedSent
<1>2. ASSUME NEW m PROVE Cardinality(MailsOf(mails, m)) = 0 /\ Cardinality(LostOf(lost, m)) = 0
  <2>1. MailsOf(mails, m) = {} /\ LostOf(lost, m) = {}
    BY DEF Cron!Init, MailsOf, LostOf
  <2>2. QED
    BY <2>1, FS_EmptySet
<1>3. Counts
  BY <1>2 DEF Counts
<1>4. QED
  BY <1>1, <1>3 DEF CronInv

\* Steps that deliver and lose nothing.
LEMMA CountsStay ==
  ASSUME Counts, UNCHANGED <<mails, lost>>,
         \A t \in CronFirst..CronLast : Unsent(t)' => Unsent(t)
  PROVE  Counts'
BY DEF Counts

LEMMA TimeKeeps ==
  ASSUME CronInv, Cron!TimePasses
  PROVE  CronInv'
<1>1. /\ cronNow' = cronNow + 1 /\ cronNow < CronLast /\ cronNow \in Nat
      /\ UNCHANGED <<looked, cronPos, cronJob, last, mails, faults, manual, lost>>
  BY CronConstants DEF Cron!TimePasses, CronInv, LoopTypes
<1>2. CronFirst..cronNow \subseteq CronFirst..cronNow' /\ cronNow' \in CronFirst..CronLast
  BY <1>1, CronConstants DEF CronInv, LoopTypes
<1>3. LoopTypes'
  BY <1>1, <1>2 DEF CronInv, LoopTypes
<1>4. TableTypes'
  BY <1>1, <1>2 DEF CronInv, TableTypes
<1>5. Ahead' /\ RecordedSent' /\ Counts'
  BY <1>1, CountsStay DEF CronInv, Ahead, RecordedSent, Unsent
<1>6. QED
  BY <1>3, <1>4, <1>5 DEF CronInv

LEMMA LookKeeps ==
  ASSUME CronInv, Cron!Look
  PROVE  CronInv'
<1>1. /\ cronPos = "asleep" /\ cronJob = None /\ looked' = cronNow
      /\ UNCHANGED <<cronNow, last, mails, faults, manual, lost>>
      /\ \/ UNCHANGED <<cronPos, cronJob>>
         \/ /\ cronPos' = "send" /\ cronJob' = [at |-> cronNow, sent |-> FALSE]
            /\ last # None => Cron!MonthOf(last) # Cron!MonthOf(cronNow)
  BY DEF Cron!Look, CronInv, LoopTypes, Cron!should_send, Cron!sent_this_month
<1>2. cronNow \in CronFirst..cronNow /\ cronNow \in Nat
  BY CronConstants DEF CronInv, LoopTypes
<1>3. LoopTypes'
  <2>1. CASE UNCHANGED <<cronPos, cronJob>>
    BY <1>1, <1>2, <2>1 DEF CronInv, LoopTypes
  <2>2. CASE cronPos' = "send" /\ cronJob' = [at |-> cronNow, sent |-> FALSE]
    <3>1. cronJob' \in [at : CronFirst..cronNow, sent : BOOLEAN] /\ ~cronJob'.sent
      BY <1>2, <2>2
    <3>2. QED
      BY <1>1, <1>2, <2>2, <3>1 DEF CronInv, LoopTypes
  <2>3. QED
    BY <1>1, <2>1, <2>2
<1>4. TableTypes' /\ RecordedSent'
  BY <1>1 DEF CronInv, TableTypes, RecordedSent
<1>5. Ahead'
  <2>1. last # None => last \in Nat /\ last <= cronNow
    BY CronConstants DEF CronInv, LoopTypes
  <2>2. QED
    BY <1>1, <2>1 DEF CronInv, Ahead
<1>6. Counts'
  <2>1. \A t \in CronFirst..CronLast : Unsent(t)' => Unsent(t)
    BY <1>1 DEF Unsent
  <2>2. QED
    BY <1>1, <2>1, CountsStay DEF CronInv
<1>7. QED
  BY <1>3, <1>4, <1>5, <1>6 DEF CronInv

\* Where a report may be sent for the loop, its month is not sent yet.
LEMMA SendsUnsent ==
  ASSUME CronInv, cronPos = "send"
  PROVE  cronJob.at \in CronFirst..CronLast /\ Unsent(cronJob.at)
<1>1. cronJob \in [at : CronFirst..cronNow, sent : BOOLEAN] /\ ~cronJob.sent /\ cronNow \in CronFirst..CronLast
  BY DEF CronInv, LoopTypes
<1>2. cronJob.at \in CronFirst..CronLast /\ cronJob.at \in Nat
  BY <1>1, CronConstants
<1>3. ASSUME last # None PROVE last < cronJob.at /\ Cron!MonthOf(last) # Cron!MonthOf(cronJob.at)
  <2>1. last \in Nat /\ last <= cronJob.at /\ Cron!MonthOf(last) # Cron!MonthOf(cronJob.at)
    BY <1>3, CronConstants DEF CronInv, LoopTypes, Ahead
  <2>2. last # cronJob.at
    BY <2>1
  <2>3. QED
    BY <1>2, <2>1, <2>2
<1>4. QED
  BY <1>1, <1>2, <1>3 DEF Unsent

\* A report delivered for the loop: recorded next, or lost at once.
LEMMA DeliveryCounts ==
  ASSUME CronInv, cronPos = "send", NEW x, x.by = "cron", x.due = Cron!MonthOf(cronJob.at),
         mails' = mails \cup {x}, last' = last,
         \/ lost' = lost /\ cronJob' # None /\ cronJob'.sent /\ cronJob'.at = cronJob.at
         \/ lost' = lost \cup {[month |-> Cron!MonthOf(cronJob.at), fault |-> faults]} /\ cronJob' = None
  PROVE  Counts' /\ IsFiniteSet(mails') /\ IsFiniteSet(lost')
<1> DEFINE m0 == Cron!MonthOf(cronJob.at)
           D(ms, t) == Cardinality(MailsOf(ms, Cron!MonthOf(t)))
           L(ls, t) == Cardinality(LostOf(ls, Cron!MonthOf(t)))
<1>1. cronJob.at \in CronFirst..CronLast /\ Unsent(cronJob.at) /\ faults \in Nat
  BY SendsUnsent, CronConstants DEF CronInv, LoopTypes
<1>2. /\ IsFiniteSet(mails') /\ IsFiniteSet(lost) /\ \A l \in lost : l.fault \in Nat /\ l.fault < faults
      /\ \A t : D(mails, t) \in Nat /\ D(mails', t) \in Nat
                /\ IF Cron!MonthOf(t) = m0 THEN D(mails', t) <= D(mails, t) + 1 ELSE D(mails', t) = D(mails, t)
  <2>1. IsFiniteSet(mails) /\ IsFiniteSet(lost) /\ \A l \in lost : l.fault \in Nat /\ l.fault < faults
    BY DEF CronInv, TableTypes
  <2>2. /\ IsFiniteSet(mails \cup {x})
        /\ \A m : IF x.by = "cron" /\ x.due = m
                  THEN /\ Cardinality(MailsOf(mails \cup {x}, m)) <= Cardinality(MailsOf(mails, m)) + 1
                       /\ MailsOf(mails \cup {x}, m) # {}
                  ELSE MailsOf(mails \cup {x}, m) = MailsOf(mails, m)
        /\ \A m : /\ Cardinality(MailsOf(mails, m)) \in Nat
                  /\ Cardinality(MailsOf(mails \cup {x}, m)) \in Nat
    BY <2>1, OneDelivery
  <2>3. ASSUME NEW t
        PROVE  /\ D(mails, t) \in Nat /\ D(mails', t) \in Nat
               /\ IF Cron!MonthOf(t) = m0 THEN D(mails', t) <= D(mails, t) + 1 ELSE D(mails', t) = D(mails, t)
    <3> DEFINE m == Cron!MonthOf(t)
    <3> HIDE DEF m
    <3>1. m = m0 => x.by = "cron" /\ x.due = m
      OBVIOUS
    <3>2. m # m0 => x.due # m
      OBVIOUS
    <3>3. /\ Cardinality(MailsOf(mails, m)) \in Nat /\ Cardinality(MailsOf(mails', m)) \in Nat
          /\ m = m0 => Cardinality(MailsOf(mails', m)) <= Cardinality(MailsOf(mails, m)) + 1
          /\ m # m0 => MailsOf(mails', m) = MailsOf(mails, m)
      BY <2>2, <3>1, <3>2
    <3>4. QED
      BY <3>3 DEF m
  <2>4. QED
    BY <2>1, <2>2, <2>3
<1>3. ASSUME NEW m PROVE Cardinality(LostOf(lost, m)) \in Nat
  <2>1. LostOf(lost, m) \subseteq lost
    BY DEF LostOf
  <2>2. QED
    BY <1>2, <2>1, FS_Subset, FS_CardinalityType
<1>4. D(mails, cronJob.at) <= L(lost, cronJob.at)
  BY <1>1 DEF CronInv, Counts
<1>5. ASSUME NEW t \in CronFirst..CronLast
      PROVE  /\ D(mails, t) <= L(lost, t) + 1 /\ (Unsent(t) => D(mails, t) <= L(lost, t))
             /\ Cron!MonthOf(t) = m0 => D(mails, t) <= L(lost, t)
             /\ L(lost, t) \in Nat
  <2>1. D(mails, t) <= L(lost, t) + 1 /\ (Unsent(t) => D(mails, t) <= L(lost, t))
    BY DEF CronInv, Counts
  <2>2. Cron!MonthOf(t) = m0 => D(mails, t) = D(mails, cronJob.at) /\ L(lost, t) = L(lost, cronJob.at)
    OBVIOUS
  <2>3. QED
    BY <1>3, <1>4, <2>1, <2>2
<1>6. ASSUME NEW t \in CronFirst..CronLast, Cron!MonthOf(t) # m0, Unsent(t)' PROVE Unsent(t)
  BY <1>6 DEF Unsent, CronInv, LoopTypes
<1>7. CASE lost' = lost /\ cronJob' # None /\ cronJob'.sent /\ cronJob'.at = cronJob.at
  <2>1. ASSUME NEW t \in CronFirst..CronLast
        PROVE  D(mails', t) <= L(lost', t) + 1 /\ (Unsent(t)' => D(mails', t) <= L(lost', t))
    <3>1. CASE Cron!MonthOf(t) = m0
      <4>1. ~Unsent(t)'
        BY <1>7, <3>1 DEF Unsent
      <4>2. D(mails', t) <= D(mails, t) + 1 /\ D(mails, t) <= L(lost, t) /\ D(mails, t) \in Nat
            /\ D(mails', t) \in Nat /\ L(lost, t) \in Nat /\ lost' = lost
        BY <1>2, <1>5, <1>7, <3>1
      <4> HIDE DEF D, L
      <4>3. D(mails', t) <= L(lost', t) + 1
        BY <4>2
      <4>4. QED
        BY <4>1, <4>3
    <3>2. CASE Cron!MonthOf(t) # m0
      <4>1. D(mails', t) = D(mails, t) /\ lost' = lost
        BY <1>2, <1>7, <3>2
      <4>2. QED
        BY <1>5, <1>6, <3>2, <4>1
    <3>3. QED
      BY <3>1, <3>2
  <2>2. QED
    BY <1>2, <1>7, <2>1 DEF Counts
<1>8. CASE lost' = lost \cup {[month |-> m0, fault |-> faults]} /\ cronJob' = None
  <2>1. /\ IsFiniteSet(lost') /\ Cardinality(LostOf(lost', m0)) = Cardinality(LostOf(lost, m0)) + 1
        /\ \A m : m # m0 => LostOf(lost', m) = LostOf(lost, m)
    BY <1>8, LossTaken DEF CronInv
  <2>2. ASSUME NEW t \in CronFirst..CronLast
        PROVE  D(mails', t) <= L(lost', t) + 1 /\ (Unsent(t)' => D(mails', t) <= L(lost', t))
    <3>1. CASE Cron!MonthOf(t) = m0
      <4>1. /\ D(mails', t) <= D(mails, t) + 1 /\ D(mails, t) <= L(lost, t) /\ D(mails, t) \in Nat
            /\ D(mails', t) \in Nat /\ L(lost, t) \in Nat /\ L(lost', t) = L(lost, t) + 1
        BY <1>2, <1>5, <2>1, <3>1
      <4> HIDE DEF D, L
      <4>2. QED
        BY <4>1
    <3>2. CASE Cron!MonthOf(t) # m0
      <4>1. D(mails', t) = D(mails, t) /\ L(lost', t) = L(lost, t)
        BY <1>2, <2>1, <3>2
      <4>2. QED
        BY <1>5, <1>6, <3>2, <4>1
    <3>3. QED
      BY <3>1, <3>2
  <2>3. QED
    BY <1>2, <2>1, <2>2 DEF Counts
<1>9. QED
  BY <1>7, <1>8

\* What was delivered and is not recorded counts as lost; nothing was, nothing is.
LEMMA LossCounts ==
  ASSUME CronInv, mails' = mails, last' = last, cronJob' = None, lost' = lost \cup Cron!Losing
  PROVE  Counts' /\ IsFiniteSet(lost')
<1> DEFINE m0 == Cron!MonthOf(cronJob.at)
           D(ms, t) == Cardinality(MailsOf(ms, Cron!MonthOf(t)))
           L(ls, t) == Cardinality(LostOf(ls, Cron!MonthOf(t)))
<1>1. CASE cronJob # None /\ cronJob.sent
  <2>1. lost' = lost \cup {[month |-> m0, fault |-> faults]}
    BY <1>1 DEF Cron!Losing
  <2>2. /\ IsFiniteSet(lost')
        /\ Cardinality(LostOf(lost', m0)) = Cardinality(LostOf(lost, m0)) + 1
        /\ \A m : m # m0 => LostOf(lost', m) = LostOf(lost, m)
    BY <2>1, LossTaken DEF CronInv
  <2>3. ASSUME NEW m PROVE Cardinality(MailsOf(mails, m)) \in Nat /\ Cardinality(LostOf(lost, m)) \in Nat
    <3>1. MailsOf(mails, m) \subseteq mails /\ LostOf(lost, m) \subseteq lost
      BY DEF MailsOf, LostOf
    <3>2. IsFiniteSet(MailsOf(mails, m)) /\ IsFiniteSet(LostOf(lost, m))
      BY <3>1, FS_Subset DEF CronInv, TableTypes
    <3>3. QED
      BY <3>2, FS_CardinalityType
  <2>4. ASSUME NEW t \in CronFirst..CronLast
        PROVE  D(mails', t) <= L(lost', t) + 1 /\ (Unsent(t)' => D(mails', t) <= L(lost', t))
    <3>1. D(mails, t) <= L(lost, t) + 1 /\ (Unsent(t) => D(mails, t) <= L(lost, t))
      BY DEF CronInv, Counts
    <3>2. /\ Cron!MonthOf(t) = m0 => L(lost', t) = L(lost, t) + 1
          /\ Cron!MonthOf(t) # m0 => L(lost', t) = L(lost, t)
          /\ L(lost, t) \in Nat /\ D(mails, t) \in Nat /\ D(mails', t) = D(mails, t)
      BY <2>2, <2>3
    <3>3. Cron!MonthOf(t) # m0 /\ Unsent(t)' => Unsent(t)
      BY DEF Unsent
    <3> HIDE DEF D, L, m0
    <3>4. QED
      BY <3>1, <3>2, <3>3
  <2>5. QED
    BY <2>2, <2>4 DEF Counts
<1>2. CASE ~(cronJob # None /\ cronJob.sent)
  <2>1. lost' = lost
    BY <1>2 DEF Cron!Losing
  <2>2. \A t \in CronFirst..CronLast : Unsent(t)' => Unsent(t)
    BY <1>2 DEF Unsent
  <2>3. QED
    BY <2>1, <2>2, CountsStay DEF CronInv, TableTypes
<1>3. QED
  BY <1>1, <1>2

\* Later faults than those that counted.
LEMMA FaultsGrow ==
  ASSUME LoopTypes, TableTypes, Cron!Fault
  PROVE  /\ faults' \in 0..MaxFaults /\ faults < faults'
         /\ \A l \in lost : l.fault \in Nat /\ l.fault < faults'
<1>1. faults \in Nat /\ faults' = faults + 1 /\ faults < MaxFaults /\ MaxFaults \in Nat
  BY CronConstants DEF Cron!Fault, LoopTypes
<1>2. ASSUME NEW l \in lost PROVE l.fault \in Nat /\ l.fault < faults'
  <2>1. l.fault \in Nat /\ l.fault < faults
    BY DEF TableTypes
  <2>2. QED
    BY <1>1, <2>1
<1>3. QED
  BY <1>1, <1>2

\* The loop is asleep or down without a clock of its own.
LEMMA RestKeeps ==
  ASSUME CronInv, cronPos' \in {"asleep", "down"}, cronJob' = None,
         looked' = looked \/ looked' = None \/ looked' = cronNow,
         UNCHANGED <<cronNow, manual>>, last' \in (CronFirst..cronNow) \cup {None}, faults' \in 0..MaxFaults
  PROVE  LoopTypes' /\ Ahead'
<1>1. cronNow \in CronFirst..cronNow
  BY CronConstants DEF CronInv, LoopTypes
<1>2. QED
  BY <1>1 DEF CronInv, LoopTypes, Ahead

LEMMA MailIs ==
  ASSUME NEW m, NEW by
  PROVE  /\ Cron!Mail(m, by).by = by /\ Cron!Mail(m, by).due = m
         /\ Cron!Mail(m, by).at = cronNow
BY DEF Cron!Mail

LEMMA SendKeeps ==
  ASSUME CronInv, Cron!Send
  PROVE  CronInv'
<1> DEFINE m0 == Cron!MonthOf(cronJob.at)
           x == Cron!Mail(m0, "cron")
<1>1. /\ cronPos = "send" /\ UNCHANGED <<cronNow, looked, last, faults, manual, lost>>
      /\ IF Cron!Mailable THEN mails' = mails \cup {x} ELSE mails' = mails
      /\ IF DryRun \/ Cron!Mailable
         THEN cronPos' = "record" /\ cronJob' = [cronJob EXCEPT !.sent = Cron!Mailable]
         ELSE cronPos' = "asleep" /\ cronJob' = None
  BY DEF Cron!Send
<1>2. /\ cronJob \in [at : CronFirst..cronNow, sent : BOOLEAN] /\ ~cronJob.sent
      /\ cronNow \in CronFirst..cronNow /\ Cron!Mailable \in BOOLEAN /\ cronNow \in CronFirst..CronLast
  BY <1>1, CronConstants DEF CronInv, LoopTypes, Cron!Mailable
<1>3. x.by = "cron" /\ x.due = m0 /\ x.at = cronNow
  BY MailIs
<1> HIDE DEF x
<1>4. CASE Cron!Mailable
  <2>1. cronJob' \in [at : CronFirst..cronNow, sent : BOOLEAN] /\ cronJob'.at = cronJob.at /\ cronJob'.sent
    BY <1>1, <1>2, <1>4
  <2>2. cronJob' # None /\ cronPos' = "record" /\ mails' = mails \cup {x} /\ lost' = lost
    <3>1. cronJob' \in [at : CronFirst..CronLast, sent : BOOLEAN]
      BY <1>2, <2>1, CronConstants
    <3>2. QED
      BY <1>1, <1>4, <3>1, CronConstants
  <2>3. Counts' /\ IsFiniteSet(mails') /\ IsFiniteSet(lost')
    BY <1>1, <1>3, <2>1, <2>2, DeliveryCounts
  <2>4. LoopTypes'
    BY <1>1, <2>1, <2>2 DEF CronInv, LoopTypes
  <2>5. TableTypes'
    BY <1>1, <1>2, <1>3, <1>4, <2>2, <2>3 DEF CronInv, TableTypes, Cron!Mailable
  <2>6. Ahead'
    BY <1>1, <2>1, <2>2 DEF CronInv, Ahead
  <2>7. RecordedSent'
    <3>1. MailsOf(mails', m0) # {} /\ \A m : MailsOf(mails, m) \subseteq MailsOf(mails', m)
      BY <1>3, <2>2 DEF MailsOf
    <3>2. QED
      BY <1>1, <2>1, <2>2, <3>1 DEF CronInv, RecordedSent
  <2>8. QED
    BY <2>3, <2>4, <2>5, <2>6, <2>7 DEF CronInv
<1>5. CASE ~Cron!Mailable
  <2>1. mails' = mails /\ lost' = lost
    BY <1>1, <1>5
  <2>2. CASE DryRun
    <3>1. cronJob' \in [at : CronFirst..cronNow, sent : BOOLEAN] /\ cronJob'.at = cronJob.at /\ ~cronJob'.sent
          /\ cronPos' = "record"
      BY <1>1, <1>2, <1>5, <2>2
    <3>2. LoopTypes' /\ TableTypes' /\ Ahead' /\ RecordedSent'
      BY <1>1, <2>1, <2>2, <3>1 DEF CronInv, LoopTypes, TableTypes, Ahead, RecordedSent, Cron!Mailable
    <3>3. \A t \in CronFirst..CronLast : Unsent(t)' => Unsent(t)
      BY <1>1, <1>2, <3>1 DEF Unsent
    <3>4. QED
      BY <2>1, <3>2, <3>3, CountsStay DEF CronInv
  <2>3. CASE ~DryRun
    <3>1. cronPos' = "asleep" /\ cronJob' = None
      BY <1>1, <1>5, <2>3
    <3>2. LoopTypes' /\ Ahead'
      BY <1>1, <3>1, RestKeeps DEF CronInv, LoopTypes
    <3>3. TableTypes' /\ RecordedSent'
      BY <1>1, <2>1, <3>1 DEF CronInv, TableTypes, RecordedSent, Cron!Mailable
    <3>4. \A t \in CronFirst..CronLast : Unsent(t)' => Unsent(t)
      BY <1>1, <1>2, <3>1 DEF Unsent
    <3>5. QED
      BY <2>1, <3>2, <3>3, <3>4, CountsStay DEF CronInv
  <2>4. QED
    BY <2>2, <2>3
<1>6. QED
  BY <1>4, <1>5

LEMMA SendFailsKeeps ==
  ASSUME CronInv, Cron!SendFails
  PROVE  CronInv'
<1> DEFINE m0 == Cron!MonthOf(cronJob.at)
           x == Cron!Mail(m0, "cron")
<1>1. /\ cronPos = "send" /\ Cron!Fault /\ cronPos' = "asleep" /\ cronJob' = None /\ looked' = None
      /\ UNCHANGED <<cronNow, last, manual>>
      /\ \/ UNCHANGED <<mails, lost>>
         \/ /\ Cron!Mailable /\ mails' = mails \cup {x}
            /\ lost' = lost \cup {[month |-> m0, fault |-> faults]}
  BY DEF Cron!SendFails
<1>2. /\ faults' \in 0..MaxFaults /\ faults < faults'
      /\ \A l \in lost : l.fault \in Nat /\ l.fault < faults'
  BY <1>1, FaultsGrow DEF CronInv
<1>3. LoopTypes' /\ Ahead'
  BY <1>1, <1>2, RestKeeps DEF CronInv, LoopTypes
<1>4. x.by = "cron" /\ x.due = m0 /\ x.at = cronNow
  BY MailIs
<1> HIDE DEF x
<1>5. cronNow \in CronFirst..cronNow /\ faults \in Nat
  BY CronConstants DEF CronInv, LoopTypes
<1>6. CASE UNCHANGED <<mails, lost>>
  <2>1. TableTypes' /\ RecordedSent'
    BY <1>1, <1>2, <1>6 DEF CronInv, TableTypes, RecordedSent, Cron!Mailable
  <2>2. ~cronJob.sent
    BY <1>1 DEF CronInv, LoopTypes
  <2>3. \A t \in CronFirst..CronLast : Unsent(t)' => Unsent(t)
    BY <1>1, <2>2 DEF Unsent
  <2>4. QED
    BY <1>3, <1>6, <2>1, <2>3, CountsStay DEF CronInv
<1>7. CASE /\ Cron!Mailable /\ mails' = mails \cup {x}
           /\ lost' = lost \cup {[month |-> m0, fault |-> faults]}
  <2>1. Counts' /\ IsFiniteSet(mails') /\ IsFiniteSet(lost')
    BY <1>1, <1>4, <1>7, DeliveryCounts
  <2>2. ASSUME NEW l \in lost' PROVE l.fault \in Nat /\ l.fault < faults'
    <3>1. CASE l \in lost
      BY <1>2, <3>1
    <3>2. CASE l = [month |-> m0, fault |-> faults]
      <4>1. l.fault = faults
        BY <3>2
      <4>2. QED
        BY <1>2, <1>5, <4>1
    <3>3. QED
      BY <1>7, <3>1, <3>2
  <2>3. TableTypes'
    <3>1. ASSUME NEW y \in mails' PROVE y.at \in CronFirst..cronNow /\ y.by \in {"cron", "hand"} /\ Cron!Mailable
      BY <1>4, <1>5, <1>7 DEF CronInv, TableTypes
    <3>2. cronNow' = cronNow /\ (Cron!Mailable' <=> Cron!Mailable)
      BY <1>1 DEF Cron!Mailable
    <3>3. QED
      BY <2>1, <2>2, <3>1, <3>2 DEF TableTypes
  <2>4. RecordedSent'
    <3>1. \A m : MailsOf(mails, m) \subseteq MailsOf(mails', m)
      BY <1>7 DEF MailsOf
    <3>2. QED
      BY <1>1, <3>1 DEF CronInv, RecordedSent
  <2>5. QED
    BY <1>3, <2>1, <2>3, <2>4 DEF CronInv
<1>8. QED
  BY <1>1, <1>6, <1>7

LEMMA RecordKeeps ==
  ASSUME CronInv, Cron!Record
  PROVE  CronInv'
<1>1. /\ cronPos = "record" /\ last' = cronJob.at /\ cronPos' = "asleep" /\ cronJob' = None
      /\ UNCHANGED <<cronNow, looked, mails, faults, manual, lost>>
  BY DEF Cron!Record
<1>2. cronJob \in [at : CronFirst..cronNow, sent : BOOLEAN]
  BY <1>1 DEF CronInv, LoopTypes
<1>3. LoopTypes' /\ Ahead'
  <2>1. last' \in (CronFirst..cronNow) \cup {None} /\ faults' \in 0..MaxFaults
    BY <1>1, <1>2 DEF CronInv, LoopTypes
  <2>2. QED
    BY <1>1, <2>1, RestKeeps
<1>4. TableTypes' /\ RecordedSent'
  <2>1. last' # None
    BY <1>1, <1>2, CronConstants DEF CronInv, LoopTypes
  <2>2. QED
    BY <1>1, <2>1 DEF CronInv, TableTypes, RecordedSent, Cron!Mailable
<1>5. Counts'
  <2>1. ASSUME NEW t \in CronFirst..CronLast, Unsent(t)' PROVE Unsent(t)
    <3> DEFINE r == cronJob.at
    <3>1. t \in Nat /\ r \in Nat /\ r # None
      BY <1>2, CronConstants DEF CronInv, LoopTypes
    <3>2. r < t /\ Cron!MonthOf(r) # Cron!MonthOf(t)
      BY <1>1, <2>1, <3>1 DEF Unsent
    <3>3. last # None => last \in Nat /\ last <= r
      BY <1>1, CronConstants DEF CronInv, LoopTypes, Ahead
    <3> HIDE DEF r
    <3>4. ASSUME last # None PROVE last < t /\ Cron!MonthOf(last) # Cron!MonthOf(t)
      <4>1. last \in Nat /\ last <= r /\ r <= t /\ last < t
        BY <3>1, <3>2, <3>3, <3>4
      <4>2. Cron!MonthOf(last) = Cron!MonthOf(t) => Cron!MonthOf(r) = Cron!MonthOf(t)
        BY <3>1, <4>1, CronMonthsInOrder
      <4>3. QED
        BY <3>2, <4>1, <4>2
    <3>5. QED
      BY <3>2, <3>4 DEF Unsent, r
  <2>2. QED
    BY <1>1, <2>1, CountsStay DEF CronInv
<1>6. QED
  BY <1>3, <1>4, <1>5 DEF CronInv

\* A failure after the sending: in the write to cron_state, or a crash anywhere.
LEMMA LossKeeps ==
  ASSUME CronInv, Cron!Fault, cronPos' \in {"asleep", "down"}, cronJob' = None,
         looked' = looked \/ looked' = None, lost' = lost \cup Cron!Losing,
         UNCHANGED <<cronNow, last, mails, manual>>
  PROVE  CronInv'
<1>1. /\ faults' \in 0..MaxFaults /\ faults < faults'
      /\ \A l \in lost : l.fault \in Nat /\ l.fault < faults'
  BY FaultsGrow DEF CronInv
<1>2. LoopTypes' /\ Ahead'
  BY <1>1, RestKeeps DEF CronInv, LoopTypes
<1>3. Counts' /\ IsFiniteSet(lost')
  BY LossCounts
<1>4. ASSUME NEW l \in lost' PROVE l.fault \in Nat /\ l.fault < faults'
  <2>1. CASE l \in lost
    BY <1>1, <2>1
  <2>2. CASE l = [month |-> Cron!MonthOf(cronJob.at), fault |-> faults]
    <3>1. l.fault = faults /\ faults \in Nat
      BY <2>2, CronConstants DEF CronInv, LoopTypes
    <3>2. QED
      BY <1>1, <3>1
  <2>3. QED
    BY <2>1, <2>2 DEF Cron!Losing
<1>5. TableTypes' /\ RecordedSent'
  BY <1>3, <1>4 DEF CronInv, TableTypes, RecordedSent, Cron!Mailable
<1>6. QED
  BY <1>2, <1>3, <1>5 DEF CronInv

LEMMA RestartKeeps ==
  ASSUME CronInv, Cron!Restart
  PROVE  CronInv'
<1>1. /\ cronPos = "down" /\ cronPos' = "asleep" /\ looked' = None
      /\ UNCHANGED <<cronNow, cronJob, last, mails, faults, manual, lost>>
  BY DEF Cron!Restart
<1>2. LoopTypes' /\ Ahead'
  BY <1>1 DEF CronInv, LoopTypes, Ahead
<1>3. TableTypes' /\ RecordedSent'
  BY <1>1 DEF CronInv, TableTypes, RecordedSent, Cron!Mailable
<1>4. \A t \in CronFirst..CronLast : Unsent(t)' => Unsent(t)
  BY <1>1 DEF Unsent
<1>5. QED
  BY <1>1, <1>2, <1>3, <1>4, CountsStay DEF CronInv

\* A report by hand is no delivery of the loop's.
LEMMA EmailTestKeeps ==
  ASSUME CronInv, Cron!EmailTest
  PROVE  CronInv'
<1> DEFINE x == Cron!Mail(Cron!MonthOf(cronNow), "hand")
<1>1. /\ manual < MaxManual /\ manual' = manual + 1
      /\ IF Cron!Mailable THEN mails' = mails \cup {x} ELSE mails' = mails
      /\ UNCHANGED <<cronNow, looked, cronPos, cronJob, last, faults, lost>>
  BY DEF Cron!EmailTest
<1>2. x.by = "hand" /\ x.at = cronNow
  BY MailIs
<1> HIDE DEF x
<1>3. manual' \in 0..MaxManual /\ cronNow \in CronFirst..cronNow
  BY <1>1, CronConstants DEF CronInv, LoopTypes
<1>4. LoopTypes' /\ Ahead'
  BY <1>1, <1>3 DEF CronInv, LoopTypes, Ahead
<1>5. IsFiniteSet(mails') /\ \A m : MailsOf(mails', m) = MailsOf(mails, m)
  <2>1. IsFiniteSet(mails)
    BY DEF CronInv, TableTypes
  <2>2. CASE mails' = mails \cup {x}
    BY <1>2, <2>1, <2>2, FS_AddElement DEF MailsOf
  <2>3. QED
    BY <1>1, <2>1, <2>2 DEF MailsOf
<1>6. TableTypes'
  BY <1>1, <1>2, <1>3, <1>5 DEF CronInv, TableTypes, Cron!Mailable
<1>7. RecordedSent'
  BY <1>1, <1>5 DEF CronInv, RecordedSent
<1>8. Counts'
  <2>1. ASSUME NEW t \in CronFirst..CronLast PROVE Unsent(t)' <=> Unsent(t)
    BY <1>1 DEF Unsent
  <2>2. QED
    BY <1>1, <1>5, <2>1 DEF CronInv, Counts
<1>9. QED
  BY <1>4, <1>6, <1>7, <1>8 DEF CronInv

LEMMA CronSteps ==
  ASSUME CronInv, Cron!Next \/ UNCHANGED cronVars
  PROVE  CronInv'
<1>1. CASE Cron!TimePasses
  BY <1>1, TimeKeeps
<1>2. CASE Cron!Look
  BY <1>2, LookKeeps
<1>3. CASE Cron!Send
  BY <1>3, SendKeeps
<1>4. CASE Cron!SendFails
  BY <1>4, SendFailsKeeps
<1>5. CASE Cron!Record
  BY <1>5, RecordKeeps
<1>6. CASE Cron!RecordFails
  BY <1>6, LossKeeps DEF Cron!RecordFails
<1>7. CASE Cron!Crash
  BY <1>7, LossKeeps DEF Cron!Crash
<1>8. CASE Cron!Restart
  BY <1>8, RestartKeeps
<1>9. CASE Cron!EmailTest
  BY <1>9, EmailTestKeeps
<1>10. CASE UNCHANGED cronVars
  BY <1>10 DEF cronVars, CronInv, LoopTypes, TableTypes, Ahead, Counts, Unsent, RecordedSent, Cron!Mailable
<1>11. QED
  BY <1>1, <1>2, <1>3, <1>4, <1>5, <1>6, <1>7, <1>8, <1>9, <1>10 DEF Cron!Next

\* The instance's Cardinality is the library's.
LEMMA CronCardinality == \A S : Cron!Cardinality(S) = Cardinality(S)
BY DEF Cron!Cardinality, Cardinality

LEMMA CronInvMeans == CronInv => MailsAreRecorded
<1> SUFFICES ASSUME CronInv PROVE MailsAreRecorded
  OBVIOUS
<1>1. \A m : Cron!ByCron(m) = MailsOf(mails, m)
  BY DEF Cron!ByCron, MailsOf
<1>2. Cron!TypeOK
  <2>1. ASSUME cronPos \notin {"asleep", "down"} PROVE cronJob # None /\ cronJob.at \in CronFirst..cronNow
    <3>1. cronJob \in [at : CronFirst..cronNow, sent : BOOLEAN]
      BY <2>1 DEF CronInv, LoopTypes
    <3>2. cronJob \in [at : CronFirst..CronLast, sent : BOOLEAN]
      BY <3>1, CronConstants DEF CronInv, LoopTypes
    <3>3. QED
      BY <3>1, <3>2, CronConstants
  <2>2. cronPos \in {"asleep", "down"} => cronJob = None
    BY DEF CronInv, LoopTypes
  <2>3. (cronJob = None) = (cronPos \in {"asleep", "down"})
    BY <2>1, <2>2
  <2>4. cronJob # None => cronJob.at \in CronFirst..cronNow /\ (cronPos = "send" => ~cronJob.sent)
    BY <2>1, <2>2 DEF CronInv, LoopTypes
  <2>5. QED
    BY <2>3, <2>4 DEF CronInv, LoopTypes, TableTypes, Cron!TypeOK
<1>3. Cron!RecordedIsSent
  BY <1>1 DEF CronInv, RecordedSent, Cron!RecordedIsSent
<1>4. Cron!DuplicatesAreLosses
  <2>1. ASSUME NEW t \in CronFirst..CronLast
        PROVE  Cardinality(Cron!ByCron(Cron!MonthOf(t)))
                 <= 1 + Cardinality({l \in lost : l.month = Cron!MonthOf(t)})
    <3> DEFINE d == Cardinality(MailsOf(mails, Cron!MonthOf(t)))
               n == Cardinality(LostOf(lost, Cron!MonthOf(t)))
    <3>1. d <= n + 1
      BY DEF CronInv, Counts
    <3>2. n \in Nat /\ d \in Nat
      <4>1. LostOf(lost, Cron!MonthOf(t)) \subseteq lost /\ MailsOf(mails, Cron!MonthOf(t)) \subseteq mails
        BY DEF LostOf, MailsOf
      <4>2. QED
        BY <4>1, FS_Subset, FS_CardinalityType DEF CronInv, TableTypes
    <3> HIDE DEF d, n
    <3>3. d <= 1 + n
      BY <3>1, <3>2
    <3>4. QED
      BY <1>1, <3>3 DEF d, n, LostOf
  <2>2. ASSUME NEW m \in Cron!Months
        PROVE  Cardinality(Cron!ByCron(m)) <= 1 + Cardinality({l \in lost : l.month = m})
    <3>1. PICK t \in CronFirst..CronLast : m = Cron!MonthOf(t)
      BY DEF Cron!Months
    <3>2. QED
      BY <2>1, <3>1
  <2>3. QED
    BY <2>2, CronCardinality DEF Cron!DuplicatesAreLosses
<1>5. QED
  BY <1>2, <1>3, <1>4 DEF MailsAreRecorded

\* Whatever failures, crashes and reports by hand there are, cron_state names a
\* month only after its report was delivered (or in a dry run, which delivers
\* none), and a month's report goes out again only once for each delivery that a
\* failure or crash kept out of cron_state (the loop of email_cron.rs); months
\* are those of the clock the tick began with, for every schedule and every span
\* of time.
THEOREM MailsAlwaysRecorded == MonthEndSpec => []MailsAreRecorded
<1>1. MonthEndInit => CronInv
  BY CronInit DEF MonthEndInit
<1>2. CronInv /\ [MonthEndNext]_allVars => CronInv'
  BY CronSteps DEF MonthEndNext, allVars
<1>3. CronInv => MailsAreRecorded
  BY CronInvMeans
<1>4. QED
  BY <1>1, <1>2, <1>3, PTL DEF MonthEndSpec
=============================================================================
