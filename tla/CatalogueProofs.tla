--------------------------- MODULE CatalogueProofs ---------------------------
(* Whatever requests cross each other, no row refers to a row that is gone,   *)
(* and a delete takes along only what was inserted after it had counted.  A   *)
(* price gets a version above those its request could see, and what a group   *)
(* pays follows from the table in whatever order its rows are returned.  And  *)
(* what the gateway computes from such tables (MCFunctions): the price of a   *)
(* call, and the order in which the channels of its model are tried.          *)
EXTENDS MCCatalogue, MCFunctions, SequenceTheorems, FiniteSetTheorems, WellFoundedInduction, TLAPS

(* CountsHold is about handlers that have found nothing so far; that a        *)
(* handler about to delete is one of them, with nothing left to count, and    *)
(* that a row's references are looked at when it is inserted and swept when   *)
(* it is deleted, is all it takes.                                            *)

Functions ==
  /\ pos = [h \in Handler |-> pos[h]] /\ target = [h \in Handler |-> target[h]]
  /\ counts = [h \in Handler |-> counts[h]] /\ blocked = [h \in Handler |-> blocked[h]]
  /\ draft = [h \in Handler |-> draft[h]] /\ lookups = [h \in Handler |-> lookups[h]]
  /\ since = [h \in Handler |-> since[h]]

Clear ==
  \A h \in Handler :
    /\ pos[h] # "count" => ~blocked[h]
    /\ pos[h] = "delete" => counts[h] = <<>>

ReferringKinds == {"route", "price", "membership", "key", "wallet", "order"}
CountsAreSeqs == \A h \in Handler : counts[h] \in Seq(ReferringKinds)

CatalogInv == Functions /\ Clear /\ CountsAreSeqs /\ ReferencesExist /\ CountsHold

LEMMA CountedIsSeq == \A p \in Parent : Counted(p) \in Seq(ReferringKinds)
<1>1. /\ CountedOfModel \in Seq(ReferringKinds) /\ CountedOfChannel \in Seq(ReferringKinds)
      /\ CountedOfGroup \in Seq(ReferringKinds) /\ CountedOfOrg \in Seq(ReferringKinds)
  BY DEF CountedOfModel, CountedOfChannel, CountedOfGroup, CountedOfOrg, ReferringKinds
<1>2. QED
  BY <1>1 DEF Parent, Counted

LEMMA HeadOrTail ==
  ASSUME NEW s \in Seq(ReferringKinds), s # <<>>, NEW k, Contains(s, k), ~Contains(Tail(s), k)
  PROVE  k = Head(s)
<1>1. PICK i \in 1..Len(s) : s[i] = k
  BY DEF Contains
<1>2. ASSUME i # 1 PROVE FALSE
  <2>1. i - 1 \in 1..Len(Tail(s)) /\ Tail(s)[i - 1] = s[i]
    BY <1>2
  <2>2. QED
    BY <1>1, <2>1 DEF Contains
<1>3. QED
  BY <1>1, <1>2

----------------------------------------------------------------------------

LEMMA CatalogInit == Init => CatalogInv
<1> SUFFICES ASSUME Init PROVE CatalogInv
  OBVIOUS
<1>1. Functions
  BY DEF Init, Functions
<1>2. Clear /\ CountsAreSeqs
  BY DEF Init, Clear, CountsAreSeqs
<1>3. ReferencesExist /\ CountsHold
  BY DEF Init, ReferencesExist, CountsHold
<1>4. QED
  BY <1>1, <1>2, <1>3 DEF CatalogInv

\* A handler that answers leaves the others as they are.
LEMMA IdleKeeps ==
  ASSUME CatalogInv, NEW h \in Handler, Idle(h), rows' \subseteq rows, ReferencesExist'
  PROVE  CatalogInv'
<1>1. Functions'
  BY DEF CatalogInv, Functions, Idle
<1>2. pos'[h] = "idle" /\ ~blocked'[h] /\ counts'[h] = <<>>
  BY DEF CatalogInv, Functions, Idle
<1>3. \A g \in Handler \ {h} :
        /\ pos'[g] = pos[g] /\ target'[g] = target[g] /\ counts'[g] = counts[g]
        /\ blocked'[g] = blocked[g] /\ since'[g] = since[g]
  BY DEF CatalogInv, Functions, Idle
<1>4. Clear' /\ CountsAreSeqs'
  <2>1. <<>> \in Seq(ReferringKinds)
    OBVIOUS
  <2>2. QED
    BY <1>2, <1>3, <2>1 DEF CatalogInv, Clear, CountsAreSeqs
<1>5. CountsHold'
  <2>1. ASSUME NEW g \in Handler, NEW r \in rows', pos'[g] \in {"count", "delete"}, ~blocked'[g],
               Guarded(target'[g], r), ~Contains(counts'[g], r.draft.kind)
        PROVE  r.id \in since'[g]
    BY <1>2, <1>3, <2>1 DEF CatalogInv, CountsHold
  <2>2. QED
    BY <2>1 DEF CountsHold, Guarded, RefersTo
<1>6. QED
  BY <1>1, <1>4, <1>5 DEF CatalogInv

LEMMA FindKeeps ==
  ASSUME CatalogInv, NEW h \in Handler, NEW p \in Parent, Find(h, p)
  PROVE  CatalogInv'
<1>1. Functions' /\ ReferencesExist'
  BY DEF CatalogInv, Functions, Find, ReferencesExist
<1>2. pos'[h] = "count" /\ target'[h] = p /\ counts'[h] = Counted(p)
  BY DEF CatalogInv, Functions, Find
<1>3. \A g \in Handler \ {h} :
        pos'[g] = pos[g] /\ target'[g] = target[g] /\ counts'[g] = counts[g]
  BY DEF CatalogInv, Functions, Find
<1>4. UNCHANGED <<rows, blocked, since>>
  BY DEF Find
<1>5. Clear' /\ CountsAreSeqs'
  BY <1>2, <1>3, <1>4, CountedIsSeq DEF CatalogInv, Clear, CountsAreSeqs
<1>6. CountsHold'
  <2>1. ASSUME NEW g \in Handler, NEW r \in rows, pos'[g] \in {"count", "delete"}, ~blocked[g],
               Guarded(target'[g], r), ~Contains(counts'[g], r.draft.kind)
        PROVE  r.id \in since[g]
    <3>1. CASE g = h
      BY <1>2, <2>1, <3>1 DEF Guarded
    <3>2. CASE g # h
      BY <1>3, <2>1, <3>2 DEF CatalogInv, CountsHold
    <3>3. QED
      BY <3>1, <3>2
  <2>2. QED
    BY <1>4, <2>1 DEF CountsHold, Guarded, RefersTo
<1>7. QED
  BY <1>1, <1>5, <1>6 DEF CatalogInv

LEMMA CountKeeps ==
  ASSUME CatalogInv, NEW h \in Handler, Count(h)
  PROVE  CatalogInv'
<1>1. Functions' /\ ReferencesExist'
  BY DEF CatalogInv, Functions, Count, ReferencesExist
<1>2. /\ pos[h] = "count" /\ counts[h] # <<>> /\ counts'[h] = Tail(counts[h])
      /\ blocked'[h] = (blocked[h] \/ Referring(target[h], Head(counts[h])) # {})
  BY DEF CatalogInv, Functions, Count
<1>3. \A g \in Handler \ {h} : counts'[g] = counts[g] /\ blocked'[g] = blocked[g]
  BY DEF CatalogInv, Functions, Count
<1>4. UNCHANGED <<rows, pos, target, since>>
  BY DEF Count
<1>5. counts[h] \in Seq(ReferringKinds) /\ Tail(counts[h]) \in Seq(ReferringKinds)
  <2>1. counts[h] \in Seq(ReferringKinds)
    BY DEF CatalogInv, CountsAreSeqs
  <2>2. QED
    BY <1>2, <2>1, HeadTailProperties
<1>6. Clear' /\ CountsAreSeqs'
  BY <1>2, <1>3, <1>4, <1>5 DEF CatalogInv, Clear, CountsAreSeqs
<1>7. CountsHold'
  <2>1. ASSUME NEW g \in Handler, NEW r \in rows, pos[g] \in {"count", "delete"}, ~blocked'[g],
               Guarded(target[g], r), ~Contains(counts'[g], r.draft.kind)
        PROVE  r.id \in since[g]
    <3>1. CASE g # h
      BY <1>3, <2>1, <3>1 DEF CatalogInv, CountsHold
    <3>2. CASE g = h /\ ~Contains(counts[h], r.draft.kind)
      BY <1>2, <2>1, <3>2 DEF CatalogInv, CountsHold
    <3>3. CASE g = h /\ Contains(counts[h], r.draft.kind)
      <4>1. r.draft.kind = Head(counts[h])
        BY <1>2, <1>5, <2>1, <3>3, HeadOrTail
      <4>2. r \in Referring(target[h], Head(counts[h]))
        BY <2>1, <3>3, <4>1 DEF Referring, Guarded
      <4>3. QED
        BY <1>2, <2>1, <3>3, <4>2
    <3>4. QED
      BY <3>1, <3>2, <3>3
  <2>2. QED
    BY <1>4, <2>1 DEF CountsHold, Guarded, RefersTo
<1>8. QED
  BY <1>1, <1>6, <1>7 DEF CatalogInv

LEMMA JudgeKeeps ==
  ASSUME CatalogInv, NEW h \in Handler, Judge(h)
  PROVE  CatalogInv'
<1>1. CASE blocked[h]
  <2>1. Idle(h) /\ rows' \subseteq rows /\ ReferencesExist'
    BY <1>1 DEF Judge, CatalogInv, ReferencesExist
  <2>2. QED
    BY <2>1, IdleKeeps
<1>2. CASE ~blocked[h]
  <2>1. /\ pos[h] = "count" /\ counts[h] = <<>> /\ pos' = [pos EXCEPT ![h] = "delete"]
        /\ UNCHANGED <<parents, rows, target, counts, blocked, draft, lookups, since>>
    BY <1>2 DEF Judge
  <2>2. Functions' /\ ReferencesExist' /\ Clear' /\ CountsAreSeqs'
    BY <1>2, <2>1 DEF CatalogInv, Functions, ReferencesExist, Clear, CountsAreSeqs
  <2>3. \A g \in Handler : pos'[g] \in {"count", "delete"} => pos[g] \in {"count", "delete"}
    BY <2>1 DEF CatalogInv, Functions
  <2>4. CountsHold'
    BY <2>1, <2>3 DEF CatalogInv, CountsHold, Guarded, RefersTo
  <2>5. QED
    BY <2>2, <2>4 DEF CatalogInv
<1>3. QED
  BY <1>1, <1>2

LEMMA DeleteKeeps ==
  ASSUME CatalogInv, NEW h \in Handler, Delete(h)
  PROVE  CatalogInv'
<1>1. Idle(h) /\ rows' \subseteq rows
  BY DEF Delete
<1>2. ReferencesExist'
  BY DEF CatalogInv, Delete, Swept, RefersTo, ReferencesExist
<1>3. QED
  BY <1>1, <1>2, IdleKeeps

LEMMA LookupsKeep ==
  ASSUME CatalogInv, NEW h \in Handler,
         (\E d \in Drafts : Propose(h, d)) \/ Lookup(h) \/ CheckDuplicate(h)
  PROVE  CatalogInv'
<1>1. ReferencesExist' /\ rows' \subseteq rows
  BY DEF CatalogInv, ReferencesExist, Propose, Lookup, CheckDuplicate
<1>2. \/ Idle(h)
      \/ /\ \E s \in {"lookup", "insert"} : pos' = [pos EXCEPT ![h] = s]
         /\ draft' = [g \in Handler |-> draft'[g]] /\ lookups' = [g \in Handler |-> lookups'[g]]
         /\ UNCHANGED <<target, counts, blocked, since>>
      \/ /\ UNCHANGED <<pos, target, counts, blocked, draft, since>>
         /\ lookups' = [g \in Handler |-> lookups'[g]]
  BY DEF CatalogInv, Functions, Propose, Lookup, CheckDuplicate
<1>3. CASE Idle(h)
  BY <1>1, <1>3, IdleKeeps
<1>4. CASE ~Idle(h)
  <2>1. /\ \A g \in Handler :
             \/ pos'[g] = pos[g]
             \/ pos[g] # "count" /\ pos'[g] \in {"lookup", "insert"}
        /\ UNCHANGED <<rows, target, counts, blocked, since>>
    BY <1>2, <1>4 DEF CatalogInv, Functions, Propose, Lookup, CheckDuplicate
  <2>2. Functions'
    BY <1>2, <1>4 DEF CatalogInv, Functions
  <2>3. Clear' /\ CountsAreSeqs'
    BY <2>1 DEF CatalogInv, Clear, CountsAreSeqs
  <2>4. CountsHold'
    BY <2>1 DEF CatalogInv, CountsHold, Guarded, RefersTo
  <2>5. QED
    BY <1>1, <2>2, <2>3, <2>4 DEF CatalogInv
<1>5. QED
  BY <1>3, <1>4

LEMMA InsertKeeps ==
  ASSUME CatalogInv, NEW h \in Handler, Insert(h)
  PROVE  CatalogInv'
<1> DEFINE d == draft[h]
           ok == d.refs \subseteq parents /\ Unique(d) /\ nextId <= MaxRows
           new == [id |-> nextId, draft |-> d]
<1>1. /\ pos[h] = "insert" /\ pos' = [pos EXCEPT ![h] = "idle"]
      /\ rows' = IF ok THEN (rows \ Replaced(d)) \cup {new} ELSE rows
      /\ since' = [g \in Handler |->
            IF g = h THEN {} ELSE IF ok /\ Uncounted(g, d) THEN since[g] \cup {nextId} ELSE since[g]]
      /\ draft' = [draft EXCEPT ![h] = None]
      /\ UNCHANGED <<parents, target, counts, blocked, lookups>>
  BY DEF Insert
<1>2. new.id = nextId /\ new.draft = d
  OBVIOUS
<1> HIDE DEF new, ok, d
<1>3. Functions'
  BY <1>1 DEF CatalogInv, Functions
<1>4. ReferencesExist'
  BY <1>1, <1>2 DEF CatalogInv, ReferencesExist, ok
<1>5. pos'[h] = "idle" /\ \A g \in Handler \ {h} : pos'[g] = pos[g]
  BY <1>1 DEF CatalogInv, Functions
<1>6. CountsAreSeqs'
  BY <1>1 DEF CatalogInv, CountsAreSeqs
<1>7. CountsHold'
  <2>1. ASSUME NEW g \in Handler, NEW r \in rows', pos'[g] \in {"count", "delete"}, ~blocked[g],
               Guarded(target[g], r), ~Contains(counts[g], r.draft.kind)
        PROVE  r.id \in since'[g]
    <3>1. g # h /\ pos[g] \in {"count", "delete"}
      BY <1>5, <2>1
    <3>2. CASE r \in rows
      <4>1. r.id \in since[g]
        BY <2>1, <3>1, <3>2 DEF CatalogInv, CountsHold
      <4>2. QED
        BY <1>1, <3>1, <4>1
    <3>3. CASE r \notin rows
      <4>1. ok /\ r = new
        BY <1>1, <2>1, <3>3
      <4>2. Uncounted(g, d)
        BY <1>2, <2>1, <3>1, <4>1 DEF Uncounted, Guarded, RefersTo
      <4>3. QED
        BY <1>1, <1>2, <3>1, <4>1, <4>2
    <3>4. QED
      BY <3>2, <3>3
  <2>2. QED
    BY <1>1, <2>1 DEF CountsHold, Guarded, RefersTo
<1>8. Clear'
  BY <1>1, <1>5 DEF CatalogInv, Clear
<1>9. QED
  BY <1>3, <1>4, <1>6, <1>7, <1>8 DEF CatalogInv

LEMMA CatalogStep == CatalogInv /\ [Next]_vars => CatalogInv'
<1> SUFFICES ASSUME CatalogInv, [Next]_vars PROVE CatalogInv'
  OBVIOUS
<1>1. CASE UNCHANGED vars
  BY <1>1 DEF CatalogInv, Functions, Clear, CountsAreSeqs, ReferencesExist, CountsHold, Guarded,
              RefersTo, vars, handlerVars
<1>2. ASSUME NEW r \in rows, RemoveRow(r) PROVE CatalogInv'
  BY <1>2 DEF CatalogInv, Functions, Clear, CountsAreSeqs, ReferencesExist, CountsHold, Guarded,
              RefersTo, RemoveRow, handlerVars
<1>3. ASSUME NEW h \in Handler,
             \/ \E p \in Parent : Find(h, p)
             \/ Count(h) \/ Judge(h) \/ Delete(h)
             \/ \E d \in Drafts : Propose(h, d)
             \/ Lookup(h) \/ CheckDuplicate(h) \/ Insert(h)
      PROVE  CatalogInv'
  BY <1>3, FindKeeps, CountKeeps, JudgeKeeps, DeleteKeeps, LookupsKeep, InsertKeeps
<1>4. QED
  BY <1>1, <1>2, <1>3 DEF Next

\* No create and no delete leaves a row whose reference is gone
\* (ReferencesExist): the foreign keys behind the handlers of gateway, pricing
\* and identity, for any number of requests.
THEOREM ReferencesAlwaysExist == Spec => []ReferencesExist
<1>1. CatalogInv => ReferencesExist
  BY DEF CatalogInv
<1>2. QED
  BY <1>1, CatalogInit, CatalogStep, PTL DEF Spec

\* A table that a delete handler has counted without a hit holds only rows that
\* were inserted since (CountsHold).
THEOREM CountsAlwaysHold == Spec => []CountsHold
<1>1. CatalogInv => CountsHold
  BY DEF CatalogInv
<1>2. QED
  BY <1>1, CatalogInit, CatalogStep, PTL DEF Spec

\* A delete takes along only rows inserted after it had counted their table
\* (SweepsOnlyUncounted).
THEOREM DeletesSweepOnlyUncounted == Spec => SweepsOnlyUncounted
<1> DEFINE Sweep == parents' # parents =>
             \E h \in Handler :
               /\ pos[h] = "delete" /\ parents' = parents \ {target[h]}
               /\ \A r \in rows \ rows' : Guarded(target[h], r) => r.id \in since[h]
<1>1. CatalogInv /\ [Next]_vars => [Sweep]_vars
  <2> SUFFICES ASSUME CatalogInv, Next, parents' # parents
               PROVE  \E h \in Handler :
                        /\ pos[h] = "delete" /\ parents' = parents \ {target[h]}
                        /\ \A r \in rows \ rows' : Guarded(target[h], r) => r.id \in since[h]
    OBVIOUS
  <2>1. PICK h \in Handler : Delete(h)
    BY DEF Next, Find, Count, Judge, Propose, Lookup, CheckDuplicate, Insert, RemoveRow
  <2>2. pos[h] = "delete" /\ parents' = parents \ {target[h]} /\ ~blocked[h] /\ counts[h] = <<>>
    BY <2>1 DEF Delete, CatalogInv, Clear
  <2>3. \A r \in rows : ~Contains(counts[h], r.draft.kind)
    BY <2>2 DEF Contains
  <2>4. \A r \in rows : Guarded(target[h], r) => r.id \in since[h]
    BY <2>2, <2>3 DEF CatalogInv, CountsHold
  <2>5. QED
    BY <2>2, <2>4
<1>2. QED
  BY <1>1, CatalogInit, CatalogStep, PTL DEF Spec, SweepsOnlyUncounted

----------------------------------------------------------------------------
(* The types.  What a handler has left to count is the end of its list of    *)
(* tables; one that looks up or inserts has a draft.                          *)

Drafted ==
  \A h \in Handler : pos[h] \in {"lookup", "insert"} => draft[h] \in Drafts

TablesInv == CatalogInv /\ TypeOK /\ Drafted

\* A suffix, position by position from the end.
LEMMA SuffixByPlaces ==
  ASSUME NEW s \in Seq(ReferringKinds), NEW t \in Seq(ReferringKinds)
  PROVE  IsSuffix(s, t) <=>
           /\ Len(s) <= Len(t)
           /\ \A i \in 1..Len(s) : s[Len(s) - i + 1] = t[Len(t) - i + 1]
<1>1. Reverse(s) \in Seq(ReferringKinds) /\ Len(Reverse(s)) = Len(s)
      /\ \A i \in 1..Len(s) : Reverse(s)[i] = s[Len(s) - i + 1]
  BY DEF Reverse
<1>2. Reverse(t) \in Seq(ReferringKinds) /\ Len(Reverse(t)) = Len(t)
      /\ \A i \in 1..Len(t) : Reverse(t)[i] = t[Len(t) - i + 1]
  BY DEF Reverse
<1>3. ASSUME Len(s) <= Len(t)
      PROVE  SubSeq(Reverse(s), 1, Len(s)) = SubSeq(Reverse(t), 1, Len(s)) <=>
               \A i \in 1..Len(s) : s[Len(s) - i + 1] = t[Len(t) - i + 1]
  <2> DEFINE S == Reverse(s)
             T == Reverse(t)
             n == Len(s)
  <2>1. n \in Nat /\ n <= Len(T) /\ n = Len(S) /\ S \in Seq(ReferringKinds) /\ T \in Seq(ReferringKinds)
    BY <1>1, <1>2, <1>3
  <2>2. \A i \in 1..n : S[i] = s[n - i + 1] /\ T[i] = t[Len(t) - i + 1]
    BY <1>1, <1>2, <1>3
  <2> HIDE DEF S, T
  <2>3. SubSeq(S, 1, n) = [i \in 1..n |-> S[i]] /\ SubSeq(T, 1, n) = [i \in 1..n |-> T[i]]
    BY <2>1
  <2>4. SubSeq(S, 1, n) = SubSeq(T, 1, n) <=> \A i \in 1..n : S[i] = T[i]
    <3>1. ASSUME SubSeq(S, 1, n) = SubSeq(T, 1, n), NEW i \in 1..n PROVE S[i] = T[i]
      <4>1. [j \in 1..n |-> S[j]] = [j \in 1..n |-> T[j]]
        BY <2>3, <3>1
      <4>2. [j \in 1..n |-> S[j]][i] = [j \in 1..n |-> T[j]][i]
        BY <4>1
      <4>3. QED
        BY <4>2
    <3>2. QED
      BY <2>3, <3>1
  <2>5. QED
    BY <2>2, <2>4 DEF S, T
<1>4. QED
  BY <1>1, <1>2, <1>3 DEF IsSuffix, IsPrefix

\* The whole list is its own end, and so is what follows its head.
LEMMA SuffixesShrink ==
  /\ \A t \in Seq(ReferringKinds) : IsSuffix(t, t)
  /\ \A s, t \in Seq(ReferringKinds) : s # <<>> /\ IsSuffix(s, t) => IsSuffix(Tail(s), t)
<1>1. ASSUME NEW t \in Seq(ReferringKinds) PROVE IsSuffix(t, t)
  BY SuffixByPlaces
<1>2. ASSUME NEW s \in Seq(ReferringKinds), NEW t \in Seq(ReferringKinds), s # <<>>, IsSuffix(s, t)
      PROVE  IsSuffix(Tail(s), t)
  <2>1. /\ Tail(s) \in Seq(ReferringKinds) /\ Len(Tail(s)) = Len(s) - 1 /\ Len(s) \in Nat \ {0}
        /\ \A i \in 1..Len(Tail(s)) : Tail(s)[i] = s[i + 1]
    BY <1>2
  <2>2. Len(s) <= Len(t) /\ \A i \in 1..Len(s) : s[Len(s) - i + 1] = t[Len(t) - i + 1]
    BY <1>2, SuffixByPlaces
  <2>3. ASSUME NEW i \in 1..Len(Tail(s))
        PROVE  Tail(s)[Len(Tail(s)) - i + 1] = t[Len(t) - i + 1]
    <3>1. Len(Tail(s)) - i + 1 \in 1..Len(Tail(s)) /\ i \in 1..Len(s)
          /\ Len(Tail(s)) - i + 1 + 1 = Len(s) - i + 1
      BY <2>1
    <3>2. QED
      BY <2>1, <2>2, <3>1
  <2>4. Len(Tail(s)) <= Len(t)
    <3>1. Len(t) \in Nat
      BY LenProperties
    <3>2. QED
      BY <2>1, <2>2, <3>1
  <2>5. QED
    BY <2>1, <2>3, <2>4, SuffixByPlaces
<1>3. QED
  BY <1>1, <1>2

LEMMA TablesInit == Init => TablesInv
<1> SUFFICES ASSUME Init PROVE TablesInv
  OBVIOUS
<1>1. TypeOK
  BY CatalogAssumption DEF CatalogAssumption, Init, TypeOK
<1>2. Drafted
  BY DEF Init, Drafted
<1>3. QED
  BY <1>1, <1>2, CatalogInit DEF TablesInv

\* A handler that answers keeps the types, when the tables do.
LEMMA IdleKeepsTypes ==
  ASSUME TablesInv, NEW h \in Handler, Idle(h),
         parents' \subseteq parents, rows' \subseteq rows, nextId' = nextId
  PROVE  TypeOK' /\ Drafted'
<1>1. parents' \subseteq Parent /\ rows' \subseteq Row /\ nextId' \in 1..(MaxRows + 1)
  BY DEF TablesInv, TypeOK
<1>2. /\ pos' \in [Handler -> {"idle", "count", "delete", "lookup", "insert"}]
      /\ target' \in [Handler -> Parent \cup {None}]
      /\ blocked' \in [Handler -> BOOLEAN]
      /\ draft' \in [Handler -> Drafts \cup {None}]
      /\ lookups' \in [Handler -> SUBSET Parent]
      /\ since' \in [Handler -> SUBSET (1..MaxRows)]
  BY DEF TablesInv, TypeOK, Idle
<1>3. pos'[h] = "idle" /\ target'[h] = None
  BY DEF TablesInv, TypeOK, Idle
<1>4. \A g \in Handler \ {h} :
        /\ pos'[g] = pos[g] /\ target'[g] = target[g] /\ counts'[g] = counts[g]
        /\ draft'[g] = draft[g]
  BY DEF TablesInv, TypeOK, CatalogInv, Functions, Idle
<1>5. \A g \in Handler : pos'[g] \in {"count", "delete"} <=> target'[g] # None
  BY <1>3, <1>4 DEF TablesInv, TypeOK
<1>6. \A g \in Handler : pos'[g] \in {"count", "delete"} => IsSuffix(counts'[g], Counted(target'[g]))
  BY <1>3, <1>4 DEF TablesInv, TypeOK
<1>7. Drafted'
  BY <1>3, <1>4 DEF TablesInv, Drafted
<1>8. QED
  BY <1>1, <1>2, <1>5, <1>6, <1>7 DEF TypeOK, Counted

LEMMA DeleteKeepsTypes ==
  ASSUME TablesInv, NEW h \in Handler,
         (\E p \in Parent : Find(h, p)) \/ Count(h) \/ Judge(h) \/ Delete(h)
  PROVE  TypeOK' /\ Drafted'
<1>1. ASSUME NEW p \in Parent, Find(h, p) PROVE TypeOK' /\ Drafted'
  <2>1. pos'[h] = "count" /\ target'[h] = p /\ counts'[h] = Counted(p) /\ p # None
    BY <1>1, CatalogAssumption DEF CatalogAssumption, TablesInv, TypeOK, CatalogInv, Functions, Find
  <2>2. \A g \in Handler \ {h} :
          pos'[g] = pos[g] /\ target'[g] = target[g] /\ counts'[g] = counts[g]
    BY <1>1 DEF TablesInv, TypeOK, CatalogInv, Functions, Find
  <2>3. IsSuffix(counts'[h], Counted(target'[h]))
    BY <2>1, CountedIsSeq, SuffixesShrink
  <2>4. /\ \A g \in Handler : pos'[g] \in {"count", "delete"} <=> target'[g] # None
        /\ \A g \in Handler : pos'[g] \in {"count", "delete"} => IsSuffix(counts'[g], Counted(target'[g]))
    BY <2>1, <2>2, <2>3 DEF TablesInv, TypeOK
  <2>5. /\ pos' \in [Handler -> {"idle", "count", "delete", "lookup", "insert"}]
        /\ target' \in [Handler -> Parent \cup {None}]
        /\ UNCHANGED <<parents, rows, nextId, blocked, draft, lookups, since>>
    BY <1>1 DEF TablesInv, TypeOK, Find
  <2>6. Drafted'
    BY <2>1, <2>2, <2>5 DEF TablesInv, Drafted
  <2>7. QED
    BY <2>4, <2>5, <2>6 DEF TablesInv, TypeOK, Counted
<1>2. ASSUME Count(h) PROVE TypeOK' /\ Drafted'
  <2>1. pos[h] = "count" /\ counts[h] # <<>> /\ counts'[h] = Tail(counts[h])
    BY <1>2 DEF TablesInv, CatalogInv, Functions, Count
  <2>2. \A g \in Handler \ {h} : counts'[g] = counts[g]
    BY <1>2 DEF TablesInv, CatalogInv, Functions, Count
  <2>3. blocked' \in [Handler -> BOOLEAN]
        /\ UNCHANGED <<parents, rows, nextId, pos, target, draft, lookups, since>>
    BY <1>2 DEF TablesInv, TypeOK, Count
  <2>4. IsSuffix(counts'[h], Counted(target[h]))
    <3>1. target[h] \in Parent /\ IsSuffix(counts[h], Counted(target[h]))
      BY <2>1 DEF TablesInv, TypeOK
    <3>2. counts[h] \in Seq(ReferringKinds) /\ Counted(target[h]) \in Seq(ReferringKinds)
      BY <3>1, CountedIsSeq DEF TablesInv, CatalogInv, CountsAreSeqs
    <3>3. QED
      BY <2>1, <3>1, <3>2, SuffixesShrink
  <2>5. \A g \in Handler : pos'[g] \in {"count", "delete"} => IsSuffix(counts'[g], Counted(target'[g]))
    BY <2>2, <2>3, <2>4 DEF TablesInv, TypeOK
  <2>6. QED
    BY <2>3, <2>5 DEF TablesInv, TypeOK, Drafted, Counted
<1>3. ASSUME Judge(h) PROVE TypeOK' /\ Drafted'
  <2>1. CASE blocked[h]
    BY <1>3, <2>1, IdleKeepsTypes DEF Judge
  <2>2. CASE ~blocked[h]
    <3>1. pos[h] = "count" /\ pos' = [pos EXCEPT ![h] = "delete"]
          /\ UNCHANGED <<parents, rows, nextId, target, counts, blocked, draft, lookups, since>>
      BY <1>3, <2>2 DEF Judge
    <3>2. \A g \in Handler : /\ pos'[g] \in {"count", "delete"} <=> pos[g] \in {"count", "delete"}
                             /\ pos'[g] \in {"lookup", "insert"} => pos[g] \in {"lookup", "insert"}
      BY <3>1 DEF TablesInv, TypeOK
    <3>3. QED
      BY <3>1, <3>2 DEF TablesInv, TypeOK, Drafted, Counted
  <2>3. QED
    BY <2>1, <2>2
<1>4. ASSUME Delete(h) PROVE TypeOK' /\ Drafted'
  BY <1>4, IdleKeepsTypes DEF Delete
<1>5. QED
  BY <1>1, <1>2, <1>3, <1>4

LEMMA DraftsArePairs == \A d \in Drafts : d.refs \subseteq Parent
<1>1. \A d \in RouteDrafts : d.refs \subseteq Parent
  BY DEF RouteDrafts, Parent
<1>2. \A d \in PriceDrafts : d.refs \subseteq Parent
  BY DEF PriceDrafts, Parent
<1>3. \A d \in MembershipDrafts : d.refs \subseteq Parent
  BY DEF MembershipDrafts, Parent
<1>4. \A d \in AccountDrafts : d.refs \subseteq Parent
  BY DEF AccountDrafts, Parent
<1>5. QED
  BY <1>1, <1>2, <1>3, <1>4 DEF Drafts

LEMMA CreateKeepsTypes ==
  ASSUME TablesInv, NEW h \in Handler,
         (\E d \in Drafts : Propose(h, d)) \/ Lookup(h) \/ CheckDuplicate(h) \/ Insert(h)
  PROVE  TypeOK' /\ Drafted'
<1>1. ASSUME NEW d \in Drafts, Propose(h, d) PROVE TypeOK' /\ Drafted'
  <2>1. /\ pos[h] = "idle" /\ pos'[h] = "lookup" /\ draft'[h] = d
        /\ \A g \in Handler \ {h} : pos'[g] = pos[g] /\ draft'[g] = draft[g]
    BY <1>1 DEF TablesInv, TypeOK, Propose
  <2>2. /\ pos' \in [Handler -> {"idle", "count", "delete", "lookup", "insert"}]
        /\ draft' \in [Handler -> Drafts \cup {None}]
        /\ UNCHANGED <<parents, rows, nextId, target, counts, blocked, since>>
    BY <1>1 DEF TablesInv, TypeOK, Propose
  <2>3. lookups' \in [Handler -> SUBSET Parent]
    BY <1>1, DraftsArePairs DEF TablesInv, TypeOK, Propose
  <2>4. \A g \in Handler : pos'[g] \in {"count", "delete"} <=> pos[g] \in {"count", "delete"}
    BY <2>1
  <2>5. Drafted'
    BY <2>1 DEF TablesInv, Drafted
  <2>6. QED
    BY <2>2, <2>3, <2>4, <2>5 DEF TablesInv, TypeOK, Counted
<1>2. ASSUME Lookup(h) PROVE TypeOK' /\ Drafted'
  <2>1. CASE Idle(h)
    BY <1>2, <2>1, IdleKeepsTypes DEF Lookup
  <2>2. CASE ~Idle(h)
    <3>1. PICK p \in lookups[h] : lookups' = [lookups EXCEPT ![h] = @ \ {p}]
      BY <1>2, <2>2 DEF Lookup
    <3>2. UNCHANGED <<parents, rows, nextId, pos, target, counts, blocked, draft, since>>
      BY <1>2, <2>2 DEF Lookup
    <3>3. lookups' \in [Handler -> SUBSET Parent]
      BY <3>1 DEF TablesInv, TypeOK
    <3>4. QED
      BY <3>2, <3>3 DEF TablesInv, TypeOK, Drafted, Counted
  <2>3. QED
    BY <2>1, <2>2
<1>3. ASSUME CheckDuplicate(h) PROVE TypeOK' /\ Drafted'
  <2>1. CASE Idle(h)
    BY <1>3, <2>1, IdleKeepsTypes DEF CheckDuplicate
  <2>2. CASE ~Idle(h)
    <3>1. pos[h] = "lookup" /\ pos' = [pos EXCEPT ![h] = "insert"]
          /\ UNCHANGED <<parents, rows, nextId, target, counts, blocked, draft, lookups, since>>
      BY <1>3, <2>2 DEF CheckDuplicate
    <3>2. \A g \in Handler : /\ pos'[g] \in {"count", "delete"} <=> pos[g] \in {"count", "delete"}
                             /\ pos'[g] \in {"lookup", "insert"} => pos[g] \in {"lookup", "insert"}
      BY <3>1 DEF TablesInv, TypeOK
    <3>3. QED
      BY <3>1, <3>2 DEF TablesInv, TypeOK, Drafted, Counted
  <2>3. QED
    BY <2>1, <2>2
<1>4. ASSUME Insert(h) PROVE TypeOK' /\ Drafted'
  <2> DEFINE d == draft[h]
             ok == d.refs \subseteq parents /\ Unique(d) /\ nextId <= MaxRows
             new == [id |-> nextId, draft |-> d]
  <2>1. /\ pos[h] = "insert" /\ pos' = [pos EXCEPT ![h] = "idle"]
        /\ rows' = IF ok THEN (rows \ Replaced(d)) \cup {new} ELSE rows
        /\ nextId' = IF ok THEN nextId + 1 ELSE nextId
        /\ since' = [g \in Handler |->
              IF g = h THEN {} ELSE IF ok /\ Uncounted(g, d) THEN since[g] \cup {nextId} ELSE since[g]]
        /\ draft' = [draft EXCEPT ![h] = None]
        /\ UNCHANGED <<parents, target, counts, blocked, lookups>>
    BY <1>4 DEF Insert
  <2>2. nextId \in 1..(MaxRows + 1) /\ MaxRows \in Nat /\ (ok => nextId \in 1..MaxRows)
    BY CatalogAssumption DEF CatalogAssumption, TablesInv, TypeOK
  <2>3. ok => new \in Row
    <3>1. d \in Drafts
      BY <2>1 DEF TablesInv, Drafted
    <3>2. QED
      BY <2>2, <3>1 DEF Row
  <2> HIDE DEF d, ok, new
  <2>4. rows' \subseteq Row
    BY <2>1, <2>3 DEF TablesInv, TypeOK
  <2>5. nextId' \in 1..(MaxRows + 1)
    BY <2>1, <2>2
  <2>6. since' \in [Handler -> SUBSET (1..MaxRows)]
    BY <2>1, <2>2 DEF TablesInv, TypeOK
  <2>7. /\ pos' \in [Handler -> {"idle", "count", "delete", "lookup", "insert"}]
        /\ draft' \in [Handler -> Drafts \cup {None}]
    BY <2>1 DEF TablesInv, TypeOK
  <2>8. /\ \A g \in Handler \ {h} : pos'[g] = pos[g] /\ draft'[g] = draft[g]
        /\ pos'[h] = "idle"
    BY <2>1 DEF TablesInv, TypeOK
  <2>9. \A g \in Handler : pos'[g] \in {"count", "delete"} <=> pos[g] \in {"count", "delete"}
    BY <2>1, <2>8
  <2>10. Drafted'
    BY <2>8 DEF TablesInv, Drafted
  <2>11. QED
    BY <2>1, <2>4, <2>5, <2>6, <2>7, <2>9, <2>10 DEF TablesInv, TypeOK, Counted
<1>5. QED
  BY <1>1, <1>2, <1>3, <1>4

LEMMA TablesStep == TablesInv /\ [Next]_vars => TablesInv'
<1> SUFFICES ASSUME TablesInv, [Next]_vars PROVE TablesInv'
  OBVIOUS
<1>1. CatalogInv'
  BY CatalogStep DEF TablesInv
<1>2. CASE UNCHANGED vars
  BY <1>1, <1>2 DEF TablesInv, TypeOK, Drafted, Counted, vars, handlerVars
<1>3. ASSUME NEW r \in rows, RemoveRow(r) PROVE TablesInv'
  <2>1. rows' \subseteq rows
    BY <1>3 DEF RemoveRow
  <2>2. QED
    BY <1>1, <1>3, <2>1 DEF TablesInv, TypeOK, Drafted, Counted, RemoveRow, handlerVars
<1>4. ASSUME NEW h \in Handler,
             \/ \E p \in Parent : Find(h, p)
             \/ Count(h) \/ Judge(h) \/ Delete(h)
             \/ \E d \in Drafts : Propose(h, d)
             \/ Lookup(h) \/ CheckDuplicate(h) \/ Insert(h)
      PROVE  TablesInv'
  BY <1>1, <1>4, DeleteKeepsTypes, CreateKeepsTypes DEF TablesInv
<1>5. QED
  BY <1>2, <1>3, <1>4 DEF Next

\* TablesHold, what the runs check of the tables that administration edits
\* (types, references with a target, counts without a hit): for any number of
\* models, channels, groups, organisations and requests of gateway, pricing and
\* identity.
THEOREM TablesAlwaysHold == Spec => []TablesHold
<1>1. TablesInv => TablesHold
  BY DEF TablesInv, CatalogInv, TablesHold
<1>2. QED
  BY <1>1, TablesInit, TablesStep, PTL DEF Spec

----------------------------------------------------------------------------
(* The price table.                                                        *)

\* A new row has the highest id, and a version that is not above it.
BookTypes ==
  /\ Book!TypeOK /\ IsFiniteSet(book)
  /\ \A p \in book : p.version <= p.id
  /\ DOMAIN bookDraft = BookHandler /\ DOMAIN before = BookHandler /\ DOMAIN bookPos = BookHandler

\* A request about to insert knows a version above all that it has seen of its tier.
InsertKnows(h) ==
  /\ bookPos[h] = "version" => bookDraft[h] # None
  /\ bookPos[h] # "idle" => Book!validate_window(bookDraft[h].from, bookDraft[h].to)
  /\ \A i \in before[h] : i < bookId
  /\ bookPos[h] = "insert" =>
       /\ bookDraft[h].version <= bookId
       /\ \A q \in book : q.id \in before[h] /\ Book!SameTier(q, bookDraft[h])
                            => q.version < bookDraft[h].version

BookInv == BookTypes /\ \A h \in BookHandler : InsertKnows(h)

LEMMA BookConstants ==
  /\ MaxPrices \in Nat /\ MaxEdits \in Nat /\ MaxUnits \in Nat /\ MaxTime \in Nat \ {0}
  /\ None \notin BookGroup /\ None \notin Book!Row /\ None \notin Book!Draft
BY BookAssumption DEF Book!PriceBookAssumption

\* A set of numbers below a bound has a greatest.
LEMMA GreatestExists ==
  ASSUME NEW b \in Nat, NEW S \in SUBSET (0..b), S # {}
  PROVE  \E m \in S : \A x \in S : x <= m
<1> DEFINE T == {n \in Nat : b - n \in S}
<1>1. \A x \in S : b - x \in T
  OBVIOUS
<1>2. T # {} /\ T \subseteq Nat
  BY <1>1
<1>3. PICK n \in T : \A k \in T : ~(<<k, n>> \in OpToRel(<, Nat))
  BY <1>2, NatLessThanWellFounded, WFMin
<1>4. b - n \in S /\ n \in Nat
  OBVIOUS
<1>5. ASSUME NEW x \in S PROVE x <= b - n
  <2>1. b - x \in T /\ b - x \in Nat /\ x \in Nat
    BY <1>1
  <2>2. ~(b - x < n)
    BY <1>3, <1>4, <2>1 DEF OpToRel
  <2>3. QED
    BY <1>4, <2>1, <2>2
<1>6. QED
  BY <1>4, <1>5

LEMMA BookMax ==
  ASSUME NEW b \in Nat, NEW S \in SUBSET (0..b), S # {}
  PROVE  Book!Max(S) \in S /\ \A x \in S : x <= Book!Max(S)
<1>1. \E m \in S : \A x \in S : m >= x
  BY GreatestExists
<1>2. QED
  BY <1>1 DEF Book!Max

LEMMA HighestBounds ==
  ASSUME NEW b \in Nat, NEW tier, \A p \in tier : p.version \in 0..b
  PROVE  /\ Book!Highest(tier) \in 0..b
         /\ \A p \in tier : p.version <= Book!Highest(tier)
<1>1. CASE tier = {}
  BY <1>1 DEF Book!Highest
<1>2. CASE tier # {}
  <2> DEFINE S == {p.version : p \in tier}
  <2>1. S \in SUBSET (0..b) /\ S # {}
    BY <1>2
  <2>2. Book!Highest(tier) = Book!Max(S)
    BY <1>2 DEF Book!Highest
  <2> HIDE DEF S
  <2>3. Book!Max(S) \in S /\ \A x \in S : x <= Book!Max(S)
    BY <2>1, BookMax
  <2>4. \A p \in tier : p.version \in S
    BY DEF S
  <2>5. QED
    BY <2>1, <2>2, <2>3, <2>4
<1>3. QED
  BY <1>1, <1>2

LEMMA BookInit == Book!Init => BookInv
<1> SUFFICES ASSUME Book!Init PROVE BookInv
  OBVIOUS
<1>1. Book!TypeOK
  BY BookConstants DEF Book!Init, Book!TypeOK, Book!Unit, Book!Time
<1>2. QED
  BY <1>1, FS_EmptySet DEF Book!Init, BookInv, BookTypes, InsertKnows

\* What one request does to its own position, draft and memory.
LEMMA OwnStep ==
  ASSUME BookInv, NEW h \in BookHandler, NEW s, NEW d, NEW b,
         bookPos' = [bookPos EXCEPT ![h] = s], bookDraft' = [bookDraft EXCEPT ![h] = d],
         before' = [before EXCEPT ![h] = b]
  PROVE  /\ bookPos'[h] = s /\ bookDraft'[h] = d /\ before'[h] = b
         /\ \A i \in BookHandler \ {h} :
              bookPos'[i] = bookPos[i] /\ bookDraft'[i] = bookDraft[i] /\ before'[i] = before[i]
         /\ DOMAIN bookDraft' = BookHandler /\ DOMAIN before' = BookHandler /\ DOMAIN bookPos' = BookHandler
BY DEF BookInv, BookTypes

LEMMA BeginKeeps ==
  ASSUME BookInv, NEW h \in BookHandler, Book!Begin(h)
  PROVE  BookInv'
<1>1. PICK g \in BookGroup \cup {None}, f \in Book!Time, t \in Book!Time \cup {None} :
        /\ Book!validate_window(f, t)
        /\ bookDraft' = [bookDraft EXCEPT ![h] =
             [group |-> g, unit |-> unit, version |-> 0, from |-> f, to |-> t]]
  BY DEF Book!Begin
<1> DEFINE d == [group |-> g, unit |-> unit, version |-> 0, from |-> f, to |-> t]
<1>2. /\ bookPos' = [bookPos EXCEPT ![h] = "version"] /\ bookPos[h] = "idle"
      /\ UNCHANGED <<unit, book, bookId, now, before, edits, units>>
  BY DEF Book!Begin
<1>3. d \in Book!Draft /\ Book!validate_window(d.from, d.to)
  BY <1>1, BookConstants DEF Book!Draft, BookInv, BookTypes, Book!TypeOK
<1>4. bookDraft' = [bookDraft EXCEPT ![h] = d]
  BY <1>1
<1> HIDE DEF d
<1>5. before' = [before EXCEPT ![h] = before[h]]
  BY <1>2 DEF BookInv, BookTypes, Book!TypeOK
<1>6. /\ bookPos'[h] = "version" /\ bookDraft'[h] = d /\ before'[h] = before[h]
      /\ \A i \in BookHandler \ {h} :
           bookPos'[i] = bookPos[i] /\ bookDraft'[i] = bookDraft[i] /\ before'[i] = before[i]
      /\ DOMAIN bookDraft' = BookHandler /\ DOMAIN before' = BookHandler /\ DOMAIN bookPos' = BookHandler
  BY <1>2, <1>4, <1>5, OwnStep
<1>7. Book!TypeOK'
  BY <1>2, <1>3, <1>4, <1>6, BookConstants DEF BookInv, BookTypes, Book!TypeOK
<1>8. \A i \in BookHandler : InsertKnows(i)'
  BY <1>2, <1>3, <1>6, BookConstants DEF BookInv, InsertKnows, Book!SameTier, Book!validate_window
<1>9. QED
  BY <1>2, <1>6, <1>7, <1>8 DEF BookInv, BookTypes

\* Versions are numbers up to the number of rows ever inserted.
LEMMA VersionsBounded ==
  ASSUME BookInv, NEW p \in book
  PROVE  /\ p.version \in 0..(bookId - 1) /\ p.id \in 1..(bookId - 1) /\ bookId - 1 \in Nat
         /\ p \in Book!Row
<1>1. p \in Book!Row /\ p.id < bookId /\ p.version <= p.id /\ bookId \in 1..(MaxPrices + 1)
  BY DEF BookInv, BookTypes, Book!TypeOK
<1>2. p.id \in 1..MaxPrices /\ p.version \in 1..MaxPrices
  BY <1>1 DEF Book!Row
<1>3. QED
  BY <1>1, <1>2, BookConstants

LEMMA ReadKeeps ==
  ASSUME BookInv, NEW h \in BookHandler, Book!ReadVersion(h)
  PROVE  BookInv'
<1> DEFINE v == Book!next_version(bookDraft[h])
           d == [bookDraft[h] EXCEPT !.version = v]
           seen == {p.id : p \in book}
<1>1. /\ bookPos[h] = "version" /\ bookPos' = [bookPos EXCEPT ![h] = "insert"]
      /\ before' = [before EXCEPT ![h] = seen]
      /\ UNCHANGED <<unit, book, bookId, now, edits, units>>
  BY DEF Book!ReadVersion
<1>2. bookDraft' = [bookDraft EXCEPT ![h] = d]
  BY DEF Book!ReadVersion, BookInv, BookTypes
<1>3. bookDraft[h] \in Book!Draft
  BY <1>1 DEF BookInv, InsertKnows, BookTypes, Book!TypeOK
<1>4. bookId - 1 \in Nat /\ bookId \in 1..(MaxPrices + 1)
  BY BookConstants DEF BookInv, BookTypes, Book!TypeOK
<1>5. v \in 1..bookId /\ \A q \in book : Book!SameTier(q, bookDraft[h]) => q.version < v
  <2> DEFINE tier == {p \in book : Book!SameTier(p, bookDraft[h])}
  <2>1. \A p \in tier : p.version \in 0..(bookId - 1)
    BY VersionsBounded
  <2>2. v = Book!Highest(tier) + 1
    BY DEF Book!next_version
  <2>3. \A q \in book : Book!SameTier(q, bookDraft[h]) => q \in tier
    OBVIOUS
  <2> HIDE DEF tier, v
  <2>4. Book!Highest(tier) \in 0..(bookId - 1) /\ \A p \in tier : p.version <= Book!Highest(tier)
    BY <1>4, <2>1, HighestBounds
  <2>5. v \in 1..bookId
    BY <1>4, <2>2, <2>4
  <2>6. \A q \in book : Book!SameTier(q, bookDraft[h]) => q.version < v
    BY <1>4, <2>1, <2>2, <2>3, <2>4
  <2>7. QED
    BY <2>5, <2>6
<1> HIDE DEF v
<1>6. /\ d \in Book!Draft /\ d.version = v /\ d.group = bookDraft[h].group /\ d.unit = bookDraft[h].unit
      /\ d # None /\ v > 0 /\ d.from = bookDraft[h].from /\ d.to = bookDraft[h].to
  BY <1>3, <1>4, <1>5, BookConstants DEF Book!Draft
<1>7. \A i \in seen : i < bookId /\ i \in 1..MaxPrices
  BY DEF BookInv, BookTypes, Book!TypeOK, Book!Row
<1> HIDE DEF d, seen
<1>8. /\ bookPos'[h] = "insert" /\ bookDraft'[h] = d /\ before'[h] = seen
      /\ \A i \in BookHandler \ {h} :
           bookPos'[i] = bookPos[i] /\ bookDraft'[i] = bookDraft[i] /\ before'[i] = before[i]
      /\ DOMAIN bookDraft' = BookHandler /\ DOMAIN before' = BookHandler /\ DOMAIN bookPos' = BookHandler
  BY <1>1, <1>2, OwnStep
<1>9. Book!TypeOK'
  BY <1>1, <1>2, <1>6, <1>7, <1>8 DEF BookInv, BookTypes, Book!TypeOK
<1>10. ASSUME NEW i \in BookHandler PROVE InsertKnows(i)'
  <2>1. CASE i = h
    <3>1. v <= bookId
      BY <1>4, <1>5
    <3>2. \A q \in book : Book!SameTier(q, d) => q.version < d.version
      BY <1>5, <1>6 DEF Book!SameTier
    <3>3. Book!validate_window(d.from, d.to)
      BY <1>1, <1>6 DEF BookInv, InsertKnows
    <3>4. QED
      BY <1>1, <1>6, <1>7, <1>8, <2>1, <3>1, <3>2, <3>3 DEF InsertKnows, Book!SameTier
  <2>2. CASE i # h
    BY <1>1, <1>8, <2>2 DEF BookInv, InsertKnows, Book!SameTier
  <2>3. QED
    BY <2>1, <2>2
<1>11. QED
  BY <1>1, <1>8, <1>9, <1>10 DEF BookInv, BookTypes

\* The row that an insert adds.
LEMMA NewRowIs ==
  ASSUME BookInv, NEW h \in BookHandler, bookPos[h] = "insert", bookId <= MaxPrices
  PROVE  LET r == Book!NewRow(bookDraft[h]) IN
         /\ r \in Book!Row /\ r.id = bookId /\ r.version <= r.id /\ r \notin book
         /\ r.version = bookDraft[h].version /\ r.group = bookDraft[h].group /\ r.unit = bookDraft[h].unit
         /\ Book!validate_window(r.from, r.to)
<1> DEFINE d == bookDraft[h]
           r == Book!NewRow(d)
<1>1. d \in Book!Draft /\ d.version > 0 /\ d.version <= bookId /\ bookId \in 1..(MaxPrices + 1)
  BY DEF BookInv, BookTypes, Book!TypeOK, InsertKnows
<1> HIDE DEF d
<1>2. /\ r.id = bookId /\ r.from = d.from /\ r.to = d.to /\ r.group = d.group /\ r.unit = d.unit /\ r.version = d.version
      /\ r = [id |-> bookId, group |-> d.group, unit |-> d.unit, version |-> d.version,
              from |-> d.from, to |-> d.to]
  BY DEF Book!NewRow
<1>3. /\ d.group \in BookGroup \cup {None} /\ d.unit \in Book!Unit /\ d.version \in Int
      /\ d.from \in Book!Time /\ d.to \in (Book!Time \cup {MaxTime + 1}) \cup {None}
  BY <1>1, BookConstants DEF Book!Draft
<1>4. d.version \in 1..MaxPrices /\ bookId \in 1..MaxPrices
  BY <1>1, <1>3, BookConstants
<1>5. r \in Book!Row
  BY <1>2, <1>3, <1>4 DEF Book!Row
<1> HIDE DEF r
<1>6. r \notin book
  BY <1>2, VersionsBounded, BookConstants
<1>7. Book!validate_window(d.from, d.to)
  BY DEF BookInv, InsertKnows, d
<1>8. QED
  BY <1>1, <1>2, <1>5, <1>6, <1>7 DEF r, d

LEMMA PriceInsertKeeps ==
  ASSUME BookInv, NEW h \in BookHandler, Book!Insert(h)
  PROVE  BookInv'
<1> DEFINE r == Book!NewRow(bookDraft[h])
<1>1. /\ bookPos[h] = "insert" /\ bookPos' = [bookPos EXCEPT ![h] = "idle"]
      /\ bookDraft' = [bookDraft EXCEPT ![h] = None] /\ before' = [before EXCEPT ![h] = {}]
      /\ UNCHANGED <<unit, now, edits, units>>
      /\ \/ bookId <= MaxPrices /\ book' = book \cup {r} /\ bookId' = bookId + 1
         \/ UNCHANGED <<book, bookId>>
  BY DEF Book!Insert
<1>2. /\ bookPos'[h] = "idle" /\ bookDraft'[h] = None /\ before'[h] = {}
      /\ \A i \in BookHandler \ {h} :
           bookPos'[i] = bookPos[i] /\ bookDraft'[i] = bookDraft[i] /\ before'[i] = before[i]
      /\ DOMAIN bookDraft' = BookHandler /\ DOMAIN before' = BookHandler /\ DOMAIN bookPos' = BookHandler
  BY <1>1, OwnStep
<1>3. bookId \in 1..(MaxPrices + 1)
  BY DEF BookInv, BookTypes, Book!TypeOK
<1>4. /\ bookDraft' \in [BookHandler -> Book!Draft \cup {None}]
      /\ bookPos' \in [BookHandler -> {"idle", "version", "insert"}]
      /\ before' \in [BookHandler -> SUBSET (1..MaxPrices)]
  BY <1>1 DEF BookInv, BookTypes, Book!TypeOK
<1>5. CASE bookId <= MaxPrices /\ book' = book \cup {r} /\ bookId' = bookId + 1
  <2>1. /\ r \in Book!Row /\ r.id = bookId /\ r.version <= r.id /\ r \notin book
        /\ Book!validate_window(r.from, r.to)
    BY <1>1, <1>5, NewRowIs
  <2> HIDE DEF r
  <2>2. ASSUME NEW p \in book'
        PROVE  /\ p \in Book!Row /\ p.id < bookId' /\ p.version <= p.id
               /\ Book!validate_window(p.from, p.to) /\ (p.id = bookId => p = r)
    <3>1. CASE p = r
      BY <1>3, <1>5, <2>1, <3>1, BookConstants
    <3>2. CASE p \in book
      BY <1>3, <1>5, <3>2, VersionsBounded, BookConstants DEF BookInv, BookTypes, Book!TypeOK
    <3>3. QED
      BY <1>5, <3>1, <3>2
  <2>3. \A p, q \in book' : p.id = q.id => p = q
    <3>1. \A p, q \in book : p.id = q.id => p = q
      BY DEF BookInv, BookTypes, Book!TypeOK
    <3>2. QED
      BY <1>5, <2>1, <2>2, <3>1
  <2>4. IsFiniteSet(book')
    BY <1>5, FS_AddElement DEF BookInv, BookTypes
  <2>5. bookId' \in 1..(MaxPrices + 1) /\ bookId < bookId'
    BY <1>3, <1>5, BookConstants
  <2>6. ASSUME NEW i \in BookHandler PROVE InsertKnows(i)'
    <3>1. CASE i = h
      BY <1>2, <3>1 DEF InsertKnows
    <3>2. CASE i # h
      <4>1. bookPos'[i] = bookPos[i] /\ bookDraft'[i] = bookDraft[i] /\ before'[i] = before[i]
        BY <1>2, <3>2
      <4>2. \A j \in before[i] : j < bookId /\ j \in Int
        BY BookConstants DEF BookInv, InsertKnows, BookTypes, Book!TypeOK
      <4>3. \A j \in before[i] : j < bookId' /\ j # bookId
        BY <1>3, <1>5, <4>2
      <4>4. bookPos[i] = "insert" => bookDraft[i].version <= bookId'
        <5>1. ASSUME bookPos[i] = "insert" PROVE bookDraft[i].version <= bookId /\ bookDraft[i].version \in Int
          BY <5>1, BookConstants DEF BookInv, InsertKnows, BookTypes, Book!TypeOK, Book!Draft
        <5>2. QED
          BY <1>3, <1>5, <5>1
      <4>5. ASSUME bookPos[i] = "insert", NEW q \in book', q.id \in before[i], Book!SameTier(q, bookDraft[i])
            PROVE  q.version < bookDraft[i].version
        <5>1. q # r
          BY <2>1, <4>3, <4>5
        <5>2. q \in book
          BY <1>5, <4>5, <5>1
        <5>3. QED
          BY <4>5, <5>2 DEF BookInv, InsertKnows
      <4>6. /\ bookPos[i] = "version" => bookDraft[i] # None
            /\ bookPos[i] # "idle" => Book!validate_window(bookDraft[i].from, bookDraft[i].to)
        BY DEF BookInv, InsertKnows
      <4>7. QED
        BY <4>1, <4>3, <4>4, <4>5, <4>6 DEF InsertKnows, Book!SameTier, Book!validate_window
    <3>3. QED
      BY <3>1, <3>2
  <2>7. \A i \in BookHandler : bookPos'[i] = "insert" => bookDraft'[i] # None /\ bookDraft'[i].version > 0
    BY <1>2 DEF BookInv, BookTypes, Book!TypeOK
  <2>8. Book!TypeOK'
    BY <1>1, <1>4, <2>2, <2>3, <2>5, <2>7 DEF BookInv, BookTypes, Book!TypeOK, Book!validate_window
  <2>9. QED
    BY <1>2, <2>2, <2>4, <2>6, <2>8 DEF BookInv, BookTypes
<1>6. CASE UNCHANGED <<book, bookId>>
  <2>1. \A i \in BookHandler : InsertKnows(i)'
    BY <1>2, <1>6 DEF BookInv, InsertKnows, Book!SameTier, Book!validate_window
  <2>2. \A i \in BookHandler : bookPos'[i] = "insert" => bookDraft'[i] # None /\ bookDraft'[i].version > 0
    BY <1>2 DEF BookInv, BookTypes, Book!TypeOK
  <2>3. Book!TypeOK'
    BY <1>1, <1>4, <1>6, <2>2 DEF BookInv, BookTypes, Book!TypeOK, Book!validate_window
  <2>4. QED
    BY <1>2, <1>6, <2>1, <2>3 DEF BookInv, BookTypes
<1>7. QED
  BY <1>1, <1>5, <1>6

\* A correction keeps what a version was given for.
LEMMA UpdateKeeps ==
  ASSUME BookInv, NEW p \in book, Book!Update(p)
  PROVE  BookInv'
<1>1. PICK f \in Book!Time, t \in Book!Time \cup {p.to} :
        Book!validate_window(f, t) /\ book' = (book \ {p}) \cup {[p EXCEPT !.from = f, !.to = t]}
  BY DEF Book!Update
<1> DEFINE r == [p EXCEPT !.from = f, !.to = t]
<1>2. /\ edits < MaxEdits /\ edits' = edits + 1
      /\ UNCHANGED <<unit, bookId, now, bookPos, bookDraft, before, units>>
  BY DEF Book!Update
<1>3. p \in Book!Row
  BY VersionsBounded
<1>4. /\ r \in Book!Row /\ r.id = p.id /\ r.group = p.group /\ r.unit = p.unit /\ r.version = p.version
      /\ r.from = f /\ r.to = t
  BY <1>1, <1>3, BookConstants DEF Book!Row
<1>5. book' = (book \ {p}) \cup {r} /\ Book!validate_window(r.from, r.to)
  BY <1>1, <1>4
<1> HIDE DEF r
<1>6. /\ \A q \in book : q \in Book!Row /\ q.id < bookId /\ Book!validate_window(q.from, q.to) /\ q.version <= q.id
      /\ \A q, s \in book : q.id = s.id => q = s
      /\ IsFiniteSet(book)
  BY DEF BookInv, BookTypes, Book!TypeOK
<1>7. /\ \A q \in book' : q \in Book!Row /\ q.id < bookId /\ Book!validate_window(q.from, q.to) /\ q.version <= q.id
      /\ \A q, s \in book' : q.id = s.id => q = s
  BY <1>4, <1>5, <1>6
<1>8. IsFiniteSet(book')
  <2>1. book \ {p} \subseteq book
    OBVIOUS
  <2>2. IsFiniteSet(book \ {p})
    BY <1>6, <2>1, FS_Subset
  <2>3. QED
    BY <1>5, <2>2, FS_AddElement
<1>9. edits' \in 0..MaxEdits
  BY <1>2, BookConstants DEF BookInv, BookTypes, Book!TypeOK
<1>10. Book!TypeOK'
  BY <1>2, <1>7, <1>9 DEF BookInv, BookTypes, Book!TypeOK, Book!validate_window
<1>11. ASSUME NEW i \in BookHandler PROVE InsertKnows(i)'
  <2>1. ASSUME bookPos[i] = "insert", NEW q \in book', q.id \in before[i], Book!SameTier(q, bookDraft[i])
        PROVE  q.version < bookDraft[i].version
    <3>1. CASE q = r
      <4>1. p.id \in before[i] /\ Book!SameTier(p, bookDraft[i])
        BY <1>4, <2>1, <3>1 DEF Book!SameTier
      <4>2. p.version < bookDraft[i].version
        BY <2>1, <4>1 DEF BookInv, InsertKnows
      <4>3. QED
        BY <1>4, <3>1, <4>2
    <3>2. CASE q \in book
      BY <2>1, <3>2 DEF BookInv, InsertKnows
    <3>3. QED
      BY <1>5, <3>1, <3>2
  <2>2. QED
    BY <1>2, <2>1 DEF BookInv, InsertKnows, Book!SameTier, Book!validate_window
<1>12. QED
  BY <1>2, <1>7, <1>8, <1>10, <1>11 DEF BookInv, BookTypes

LEMMA PriceDeleteKeeps ==
  ASSUME BookInv, NEW p \in book, Book!Delete(p)
  PROVE  BookInv'
<1>1. /\ book' = book \ {p} /\ edits < MaxEdits /\ edits' = edits + 1
      /\ UNCHANGED <<unit, bookId, now, bookPos, bookDraft, before, units>>
  BY DEF Book!Delete
<1>2. edits' \in 0..MaxEdits
  BY <1>1, BookConstants DEF BookInv, BookTypes, Book!TypeOK
<1>3. book' \subseteq book /\ IsFiniteSet(book')
  <2>1. book' \subseteq book
    BY <1>1
  <2>2. QED
    BY <2>1, FS_Subset DEF BookInv, BookTypes
<1>4. Book!TypeOK'
  BY <1>1, <1>2, <1>3 DEF BookInv, BookTypes, Book!TypeOK, Book!validate_window
<1>5. \A i \in BookHandler : InsertKnows(i)'
  BY <1>1, <1>3 DEF BookInv, InsertKnows, Book!SameTier, Book!validate_window
<1>6. QED
  BY <1>1, <1>3, <1>4, <1>5 DEF BookInv, BookTypes

LEMMA BookSteps ==
  ASSUME BookInv, Book!Next \/ UNCHANGED bookVars
  PROVE  BookInv'
<1>1. CASE \E h \in BookHandler : Book!Begin(h) \/ Book!ReadVersion(h) \/ Book!Insert(h)
  BY <1>1, BeginKeeps, ReadKeeps, PriceInsertKeeps
<1>2. CASE \E p \in book : Book!Update(p) \/ Book!Delete(p)
  BY <1>2, UpdateKeeps, PriceDeleteKeeps
<1>3. CASE Book!ChangeUnit \/ Book!Tick \/ UNCHANGED bookVars
  <2>1. /\ UNCHANGED <<book, bookId, bookPos, bookDraft, before, edits>>
        /\ unit' \in Book!Unit /\ now' \in Book!Time /\ units' \in 0..MaxUnits
    BY <1>3, BookConstants
    DEF Book!ChangeUnit, Book!Tick, bookVars, BookInv, BookTypes, Book!TypeOK, Book!Unit, Book!Time
  <2>2. Book!TypeOK' /\ \A i \in BookHandler : InsertKnows(i)'
    BY <2>1 DEF BookInv, BookTypes, Book!TypeOK, InsertKnows, Book!SameTier, Book!validate_window
  <2>3. QED
    BY <2>1, <2>2 DEF BookInv, BookTypes
<1>4. QED
  BY <1>1, <1>2, <1>3 DEF Book!Next

\* The rows select_price chooses among, and the one that max_by returns.
BookChoices(s, g, time) == {i \in DOMAIN s : Book!is_valid_at(s[i], time) /\ s[i].group \in {None, g}}
LastBest(s, g, C, i) ==
  \A j \in C : /\ Book!NotAfter(s[j], s[i], g)
               /\ Book!NotAfter(s[i], s[j], g) => j <= i

LEMMA LastBestExists ==
  ASSUME NEW n \in Nat, NEW s \in [1..n -> Book!Row], NEW g, NEW C \in SUBSET (1..n), C # {}
  PROVE  \E i \in C : LastBest(s, g, C, i)
<1> DEFINE rk(i) == Book!rank(s[i], g)
           R == {rk(i) : i \in C}
<1>1. ASSUME NEW i \in C PROVE rk(i) \in 0..1 /\ s[i].version \in 0..MaxPrices
  <2>1. s[i] \in Book!Row
    OBVIOUS
  <2>2. s[i].version \in 1..MaxPrices
    BY <2>1 DEF Book!Row
  <2>3. rk(i) \in 0..1
    BY DEF Book!rank
  <2>4. QED
    BY <2>2, <2>3, BookConstants
<1>2. PICK k \in C : \A i \in C : rk(i) <= rk(k)
  <2>1. R \in SUBSET (0..1) /\ R # {}
    BY <1>1
  <2> HIDE DEF R
  <2>2. \E m \in R : \A x \in R : x <= m
    BY <2>1, GreatestExists
  <2>3. QED
    BY <2>2 DEF R
<1> DEFINE C1 == {i \in C : rk(i) = rk(k)}
           V == {s[i].version : i \in C1}
<1>3. PICK l \in C1 : \A i \in C1 : s[i].version <= s[l].version
  <2>1. V \in SUBSET (0..MaxPrices) /\ V # {}
    BY <1>1, <1>2
  <2> HIDE DEF V
  <2>2. \E m \in V : \A x \in V : x <= m
    BY <2>1, GreatestExists, BookConstants
  <2>3. QED
    BY <2>2 DEF V
<1> DEFINE C2 == {i \in C1 : s[i].version = s[l].version}
<1>4. PICK i \in C2 : \A j \in C2 : j <= i
  <2>1. C2 \in SUBSET (0..n) /\ C2 # {}
    <3>1. C2 \subseteq C /\ C \subseteq 0..n /\ l \in C2
      BY <1>3
    <3>2. QED
      BY <3>1
  <2> HIDE DEF C2
  <2>2. QED
    BY <2>1, GreatestExists
<1>5. i \in C /\ rk(i) = rk(k) /\ s[i].version = s[l].version
  OBVIOUS
<1>6. ASSUME NEW j \in C
      PROVE  /\ Book!NotAfter(s[j], s[i], g)
             /\ Book!NotAfter(s[i], s[j], g) => j <= i
  <2>1. rk(j) <= rk(i) /\ rk(j) \in 0..1 /\ rk(i) \in 0..1
    BY <1>1, <1>2, <1>5
  <2>2. rk(j) = rk(i) => s[j].version <= s[i].version
    BY <1>3, <1>5
  <2>3. rk(j) = rk(i) /\ s[j].version = s[i].version => j <= i
    BY <1>4, <1>5
  <2>4. s[j].version \in Int /\ s[i].version \in Int
    BY <1>1, <1>5
  <2> HIDE DEF C1, C2, V, R, rk
  <2>5. /\ rk(j) < rk(i) \/ (rk(j) = rk(i) /\ s[j].version <= s[i].version)
        /\ (rk(i) < rk(j) \/ (rk(i) = rk(j) /\ s[i].version <= s[j].version)) => j <= i
    BY <2>1, <2>2, <2>3, <2>4
  <2>6. QED
    BY <2>5 DEF Book!NotAfter, rk
<1>7. QED
  BY <1>5, <1>6 DEF LastBest

\* What select_price returns: None without a candidate, and the last best otherwise.
LEMMA SelectedIsBest ==
  ASSUME NEW n \in Nat, NEW s \in [1..n -> Book!Row], NEW g, NEW time
  PROVE  LET C == BookChoices(s, g, time) IN
         IF C = {} THEN Book!select_price(s, g, time) = None
         ELSE \E i \in C : Book!select_price(s, g, time) = s[i] /\ LastBest(s, g, C, i)
<1> DEFINE C == BookChoices(s, g, time)
           i0 == CHOOSE i \in C : LastBest(s, g, C, i)
<1>1. Book!select_price(s, g, time) = IF C = {} THEN None ELSE s[i0]
  BY DEF Book!select_price, BookChoices, LastBest
<1>2. C \in SUBSET (1..n)
  BY DEF BookChoices
<1> HIDE DEF C
<1>3. C # {} => \E i \in C : LastBest(s, g, C, i)
  BY <1>2, LastBestExists
<1>4. C # {} => i0 \in C /\ LastBest(s, g, C, i0)
  BY <1>3
<1>5. QED
  BY <1>1, <1>4 DEF C

\* The orders the query may return rows in.
Found(g) == {p \in book : Book!sql_admits(p, g, now)}
Orders(F) == Bijection(1..Cardinality(F), F)

\* The instance's library is the library.
LEMMA BookLibrary ==
  \A S : Book!Cardinality(S) = Cardinality(S) /\ \A T : Book!Bijection(S, T) = Bijection(S, T)
<1>1. \A S : Book!Cardinality(S) = Cardinality(S)
  BY DEF Book!Cardinality, Cardinality
<1>2. \A S, T : Book!Bijection(S, T) = Bijection(S, T)
  BY DEF Book!Bijection, Bijection, Book!Injection, Injection, Book!Surjection, Surjection,
     Book!IsInjective, IsInjective
<1>3. QED
  BY <1>1, <1>2

LEMMA OrdersAre ==
  ASSUME NEW F \in SUBSET Book!Row, IsFiniteSet(F)
  PROVE  /\ Cardinality(F) \in Nat /\ \E s : s \in Orders(F)
         /\ \A s \in Orders(F) :
              /\ s \in [1..Cardinality(F) -> Book!Row]
              /\ \A i \in 1..Cardinality(F) : s[i] \in F
              /\ \A p \in F : \E i \in 1..Cardinality(F) : s[i] = p
<1> DEFINE n == Cardinality(F)
<1>1. n \in Nat /\ \E s : s \in Bijection(1..n, F)
  BY FS_CardinalityType DEF ExistsBijection
<1>2. ASSUME NEW s \in Bijection(1..n, F)
      PROVE  /\ s \in [1..n -> Book!Row]
             /\ \A i \in 1..n : s[i] \in F
             /\ \A p \in F : \E i \in 1..n : s[i] = p
  BY <1>2 DEF Bijection, Injection, Surjection
<1>3. QED
  BY <1>1, <1>2 DEF Orders

\* A row is added by one request, about to insert what it has drafted.
LEMMA OnlyInsertAdds ==
  ASSUME BookInv, Book!Next, bookId' > bookId
  PROVE  \E h \in BookHandler :
           /\ bookPos[h] = "insert" /\ bookPos'[h] = "idle" /\ bookId <= MaxPrices
           /\ book' = book \cup {Book!NewRow(bookDraft[h])} /\ now' = now
<1>1. bookId' # bookId
  BY BookConstants DEF BookInv, BookTypes, Book!TypeOK
<1>2. PICK h \in BookHandler : Book!Insert(h)
  BY <1>1 DEF Book!Next, Book!Begin, Book!ReadVersion, Book!Update, Book!Delete, Book!ChangeUnit, Book!Tick
<1>3. bookPos[h] = "insert" /\ bookPos' = [bookPos EXCEPT ![h] = "idle"] /\ now' = now
      /\ bookId <= MaxPrices /\ book' = book \cup {Book!NewRow(bookDraft[h])}
  BY <1>1, <1>2 DEF Book!Insert
<1>4. bookPos'[h] = "idle"
  BY <1>3 DEF BookInv, BookTypes
<1>5. QED
  BY <1>3, <1>4

LEMMA VersionsRise ==
  ASSUME BookInv, Book!Next, bookId' > bookId
  PROVE  \E h \in BookHandler : \A p \in Book!Added, q \in book :
           bookPos[h] = "insert" /\ (q.id \in before[h] /\ Book!SameTier(q, p) => q.version < p.version)
<1>1. PICK h \in BookHandler :
        /\ bookPos[h] = "insert" /\ bookId <= MaxPrices
        /\ book' = book \cup {Book!NewRow(bookDraft[h])}
  BY OnlyInsertAdds
<1> DEFINE r == Book!NewRow(bookDraft[h])
<1>2. /\ r.version = bookDraft[h].version /\ r.group = bookDraft[h].group /\ r.unit = bookDraft[h].unit
  BY <1>1, NewRowIs
<1>3. \A p \in Book!Added : p = r
  BY <1>1 DEF Book!Added
<1> HIDE DEF r
<1>4. \A q \in book : q.id \in before[h] /\ Book!SameTier(q, r) => q.version < r.version
  BY <1>1, <1>2 DEF BookInv, InsertKnows, Book!SameTier
<1>5. QED
  BY <1>1, <1>3, <1>4

\* Of rows of a group and the default, one that is newest in its tier and of the
\* group, or of the default where none is asked for, is what select_price returns.
LEMMA NewestIsSelected ==
  ASSUME NEW n \in Nat, NEW s \in [1..n -> Book!Row], NEW time, NEW p, NEW k \in 1..n, s[k] = p,
         Book!is_valid_at(p, time),
         \A i \in 1..n : s[i] = p \/ (s[i].group = p.group => s[i].version < p.version)
  PROVE  Book!select_price(s, p.group, time) = p
<1> DEFINE g == p.group
           C == BookChoices(s, g, time)
<1>1. k \in C
  BY DEF BookChoices
<1>2. PICK i \in C : Book!select_price(s, g, time) = s[i] /\ LastBest(s, g, C, i)
  BY <1>1, SelectedIsBest
<1>3. Book!NotAfter(p, s[i], g) /\ i \in 1..n /\ s[i].group \in {None, g}
  BY <1>1, <1>2 DEF LastBest, BookChoices
<1>4. s[i].group = g
  BY <1>3 DEF Book!NotAfter, Book!rank
<1>5. p.version <= s[i].version
  BY <1>3, <1>4 DEF Book!NotAfter, Book!rank
<1>6. p.version \in Int /\ s[i].version \in Int
  BY <1>3 DEF Book!Row
<1>7. s[i] = p
  <2>1. ~(s[i].version < p.version)
    BY <1>5, <1>6
  <2>2. QED
    BY <1>3, <1>4, <2>1
<1>8. QED
  BY <1>2, <1>7

LEMMA InsertedTakesOver ==
  ASSUME BookInv, BookInv', Book!Next, bookId' > bookId, NEW p \in Book!Added, Book!is_valid_at(p, now),
         \A h \in BookHandler :
           bookPos[h] = "insert" /\ bookPos'[h] = "idle" => {q.id : q \in book} \subseteq before[h],
         \A q \in book : q.unit = p.unit
  PROVE  Book!Current(p.group)' = {p}
<1>1. PICK h \in BookHandler :
        /\ bookPos[h] = "insert" /\ bookPos'[h] = "idle" /\ bookId <= MaxPrices
        /\ book' = book \cup {Book!NewRow(bookDraft[h])} /\ now' = now
  BY OnlyInsertAdds
<1>2. /\ p = Book!NewRow(bookDraft[h]) /\ p \in book'
      /\ p \in Book!Row /\ p.group = bookDraft[h].group /\ p.unit = bookDraft[h].unit
      /\ p.version = bookDraft[h].version
  BY <1>1, NewRowIs DEF Book!Added
<1>3. ASSUME NEW q \in book, q.group = p.group PROVE q.version < p.version
  <2>1. q.id \in before[h] /\ Book!SameTier(q, bookDraft[h])
    BY <1>1, <1>2, <1>3 DEF Book!SameTier
  <2>2. QED
    BY <1>1, <1>2, <2>1 DEF BookInv, InsertKnows
<1> DEFINE g == p.group
           F == Found(g)'
<1>4. p \in F
  BY <1>1, <1>2 DEF Found, Book!sql_admits, Book!is_valid_at
<1>5. \A q \in F : q = p \/ (q.group = p.group => q.version < p.version)
  BY <1>1, <1>2, <1>3 DEF Found
<1>6. Book!Current(g)' = {Book!select_price(s, g, now') : s \in Orders(F)}
  BY BookLibrary DEF Book!Current, Found, Orders
<1>7. F \subseteq Book!Row /\ IsFiniteSet(F)
  <2>1. F \subseteq book'
    BY DEF Found
  <2>2. QED
    BY <2>1, FS_Subset DEF BookInv, BookTypes, Book!TypeOK
<1> HIDE DEF F
<1>8. ASSUME NEW s \in Orders(F) PROVE Book!select_price(s, g, now') = p
  <2> DEFINE n == Cardinality(F)
  <2>1. /\ n \in Nat /\ s \in [1..n -> Book!Row] /\ \A i \in 1..n : s[i] \in F
        /\ \A q \in F : \E i \in 1..n : s[i] = q
    BY <1>7, OrdersAre
  <2> HIDE DEF n
  <2>2. PICK k \in 1..n : s[k] = p
    BY <1>4, <2>1
  <2>3. \A i \in 1..n : s[i] = p \/ (s[i].group = p.group => s[i].version < p.version)
    BY <1>5, <2>1
  <2>4. Book!is_valid_at(p, now')
    BY <1>1
  <2>5. QED
    BY <2>1, <2>2, <2>3, <2>4, NewestIsSelected
<1>9. QED
  BY <1>6, <1>7, <1>8, OrdersAre

LEMMA GroupFallsBack ==
  ASSUME BookInv
  PROVE  Book!FallsBackToDefault
<1> SUFFICES ASSUME NEW g \in BookGroup, NEW d \in book, d.group = None, Book!is_valid_at(d, now)
             PROVE  None \notin Book!Current(g) /\ \A p \in Book!Current(g) : p.group \in {None, g}
  BY DEF Book!FallsBackToDefault
<1> DEFINE F == Found(g)
<1>1. d \in F
  BY DEF Found, Book!sql_admits, Book!is_valid_at
<1>2. Book!Current(g) = {Book!select_price(s, g, now) : s \in Orders(F)}
  BY BookLibrary DEF Book!Current, Found, Orders
<1>3. F \subseteq Book!Row /\ IsFiniteSet(F)
  <2>1. F \subseteq book
    BY DEF Found
  <2>2. QED
    BY <2>1, FS_Subset DEF BookInv, BookTypes, Book!TypeOK
<1> HIDE DEF F
<1>4. ASSUME NEW s \in Orders(F)
      PROVE  Book!select_price(s, g, now) # None /\ Book!select_price(s, g, now).group \in {None, g}
  <2> DEFINE n == Cardinality(F)
             C == BookChoices(s, g, now)
  <2>1. n \in Nat /\ s \in [1..n -> Book!Row] /\ \A q \in F : \E i \in 1..n : s[i] = q
    BY <1>3, OrdersAre
  <2> HIDE DEF n
  <2>2. PICK k \in 1..n : s[k] = d
    BY <1>1, <2>1
  <2>3. k \in C
    BY <2>1, <2>2 DEF BookChoices
  <2>4. PICK i \in C : Book!select_price(s, g, now) = s[i]
    BY <2>1, <2>3, SelectedIsBest
  <2>5. s[i] \in Book!Row /\ s[i].group \in {None, g}
    BY <2>1, <2>4 DEF BookChoices
  <2>6. QED
    BY <2>4, <2>5, BookConstants
<1>5. QED
  BY <1>2, <1>4

\* Whatever requests to create, correct and delete prices cross each other, a
\* price gets a version above all those its request could see; a price valid now
\* that is created alone and in the model's unit is at once what its group pays,
\* in whatever order the query returns the rows; and a group without a price of its
\* own pays the default (price.rs, resolve.rs).  For any groups, requests, rows
\* and span of time; the bounds on the other half of the run play no part.
THEOREM PricesAlwaysTakeOver == CatalogueSpec => PricesTakeOver
<1>1. CatalogueInit => BookInv
  BY BookInit DEF CatalogueInit
<1>2. [CatalogueNext]_allVars => [Book!Next]_bookVars
  BY DEF CatalogueNext, allVars, bookVars
<1>3. BookInv /\ [Book!Next]_bookVars => BookInv'
  BY BookSteps
<1>4. BookInv => Book!TypeOK /\ Book!FallsBackToDefault
  BY GroupFallsBack DEF BookInv, BookTypes
<1> DEFINE Rises == bookId' > bookId =>
             \E h \in BookHandler : \A p \in Book!Added, q \in book :
               bookPos[h] = "insert" /\ (q.id \in before[h] /\ Book!SameTier(q, p) => q.version < p.version)
           TakesOver == bookId' > bookId =>
             \A p \in Book!Added : \/ ~Book!is_valid_at(p, now)
                                   \/ \E h \in BookHandler : /\ bookPos[h] = "insert" /\ bookPos'[h] = "idle"
                                                             /\ {q.id : q \in book} \ before[h] # {}
                                   \/ \E q \in book : q.unit # p.unit
                                   \/ Book!Current(p.group)' = {p}
<1>5. BookInv /\ BookInv' /\ [Book!Next]_bookVars => [Rises]_bookVars /\ [TakesOver]_bookVars
  <2> SUFFICES ASSUME BookInv, BookInv', Book!Next, bookId' > bookId PROVE Rises /\ TakesOver
    BY DEF bookVars
  <2>1. Rises
    BY VersionsRise
  <2>2. TakesOver
    BY InsertedTakesOver
  <2>3. QED
    BY <2>1, <2>2
<1>6. QED
  BY <1>1, <1>2, <1>3, <1>4, <1>5, PTL
  DEF CatalogueSpec, PricesTakeOver, Book!NewerVersionWins, Book!NewPriceTakesOver, bookVars, Book!vars

-----------------------------------------------------------------------------
(* What is billed: crates/pricing and charge.rs, over any tables of rows.     *)
Prices == INSTANCE Pricing

\* A nonempty family of subsets of a finite set has a smallest member.
LEMMA SmallestSet ==
  ASSUME NEW D, IsFiniteSet(D), NEW B \in SUBSET SUBSET D, B # {}
  PROVE  \E s \in B : \A u \in SUBSET s : u # s => u \notin B
<1> DEFINE N == {Cardinality(s) : s \in B}
<1>1. \A s \in B : IsFiniteSet(s) /\ Cardinality(s) \in Nat
  BY FS_Subset, FS_CardinalityType
<1>2. N \subseteq Nat /\ N # {}
  BY <1>1
<1> HIDE DEF N
<1>3. PICK n \in N : \A k \in N : ~(<<k, n>> \in OpToRel(<, Nat))
  BY <1>2, NatLessThanWellFounded, WFMin
<1>4. PICK s \in B : Cardinality(s) = n
  BY <1>3 DEF N
<1>5. ASSUME NEW u \in SUBSET s, u # s, u \in B PROVE FALSE
  <2>1. Cardinality(u) < Cardinality(s)
    BY <1>1, <1>5, FS_Subset
  <2>2. Cardinality(u) \in N
    BY <1>5 DEF N
  <2>3. QED
    BY <1>1, <1>2, <1>3, <1>4, <1>5, <2>1, <2>2 DEF OpToRel
<1>6. QED
  BY <1>5

Pick(s) == CHOOSE x \in s : TRUE

\* What apply_discounts multiplies, from the rows of a set of positions.
IsProduct(table, f) ==
  f = [s \in SUBSET DOMAIN table |->
         IF s = {} THEN Prices!One ELSE Prices!Times(f[s \ {Pick(s)}], table[Pick(s)].value)]

LEMMA ProductIs ==
  ASSUME NEW table
  PROVE  Prices!Product(table) = (CHOOSE f : IsProduct(table, f))[DOMAIN table]
BY DEF Prices!Product, Prices!FoldFunction, Prices!FoldFunctionOnSet,
   Prices!MapThenFoldSet, IsProduct, Pick

LEMMA ProductExists ==
  ASSUME NEW table, IsFiniteSet(DOMAIN table)
  PROVE  \E f : IsProduct(table, f)
<1> DEFINE D == DOMAIN table
           Body(f, s) == IF s = {} THEN Prices!One
                         ELSE Prices!Times(f[s \ {Pick(s)}], table[Pick(s)].value)
           Good(n) == \E f : f = [s \in {t \in SUBSET D : Cardinality(t) <= n} |-> Body(f, s)]
           Bad == {n \in Nat : ~Good(n)}
<1>1. \A s \in SUBSET D : IsFiniteSet(s) /\ Cardinality(s) \in Nat /\ Cardinality(s) <= Cardinality(D)
  BY FS_Subset, FS_CardinalityType
<1>2. \A s \in SUBSET D : s # {} => /\ Pick(s) \in s
                                    /\ Cardinality(s \ {Pick(s)}) = Cardinality(s) - 1
  BY <1>1, FS_RemoveElement DEF Pick
<1>3. Bad = {}
  <2> SUFFICES ASSUME Bad # {} PROVE FALSE
    OBVIOUS
  <2>1. PICK n \in Bad : \A k \in Bad : ~(<<k, n>> \in OpToRel(<, Nat))
    BY NatLessThanWellFounded, WFMin
  <2>2. CASE n = 0
    <3> DEFINE Z == {t \in SUBSET D : Cardinality(t) <= 0}
               f == [s \in Z |-> Prices!One]
    <3>1. \A s \in Z : s = {}
      BY <1>1, FS_EmptySet
    <3>2. f = [s \in Z |-> Body(f, s)]
      BY <3>1
    <3>3. Good(0)
      BY <3>2
    <3>4. QED
      BY <2>1, <2>2, <3>3
  <2>3. CASE n # 0
    <3>1. n - 1 \in Nat /\ n - 1 \notin Bad
      <4>1. n \in Nat /\ n - 1 \in Nat
        BY <2>3
      <4>2. <<n - 1, n>> \in OpToRel(<, Nat)
        BY <4>1 DEF OpToRel
      <4> HIDE DEF Bad
      <4>3. QED
        BY <2>1, <4>1, <4>2
    <3> DEFINE Small == {t \in SUBSET D : Cardinality(t) <= n - 1}
               Large == {t \in SUBSET D : Cardinality(t) <= n}
    <3>2. PICK f : f = [s \in Small |-> Body(f, s)]
      BY <3>1
    <3> DEFINE g == [s \in Large |-> Body(f, s)]
    <3> HIDE DEF Body
    <3>3. \A s \in Small : s \in Large /\ g[s] = f[s]
      <4>1. \A s \in Small : s \in Large
        BY <1>1, <3>1
      <4>2. \A s \in Small : g[s] = Body(f, s) /\ f[s] = Body(f, s)
        BY <3>2, <4>1
      <4>3. QED
        BY <4>1, <4>2
    <3> HIDE DEF g
    <3>4. \A s \in Large : Body(f, s) = Body(g, s)
      <4>1. \A s \in Large : s # {} => s \ {Pick(s)} \in Small
        BY <1>1, <1>2, <3>1
      <4>2. QED
        BY <3>3, <4>1 DEF Body
    <3>5. g = [s \in Large |-> Body(g, s)]
      BY <3>4 DEF g
    <3>6. Good(n)
      BY <3>5
    <3>7. QED
      BY <2>1, <3>6
  <2>4. QED
    BY <2>2, <2>3
<1>4. Good(Cardinality(D))
  BY <1>1, <1>3
<1>5. {t \in SUBSET D : Cardinality(t) <= Cardinality(D)} = SUBSET D
  BY <1>1
<1>6. QED
  BY <1>4, <1>5 DEF IsProduct

\* The product over the rows at a set of positions.
ProductOf(table) == CHOOSE f : IsProduct(table, f)

LEMMA ProductStep ==
  ASSUME NEW table, IsFiniteSet(DOMAIN table), NEW s \in SUBSET DOMAIN table
  PROVE  ProductOf(table)[s] =
           IF s = {} THEN Prices!One
           ELSE Prices!Times(ProductOf(table)[s \ {Pick(s)}], table[Pick(s)].value)
<1> DEFINE f == ProductOf(table)
<1>1. IsProduct(table, f)
  BY ProductExists DEF ProductOf
<1> HIDE DEF f
<1>2. QED
  BY <1>1 DEF IsProduct, f

\* It depends on the rows at these positions alone.
LEMMA ProductLocal ==
  ASSUME NEW table, NEW others, NEW S, IsFiniteSet(DOMAIN table), IsFiniteSet(DOMAIN others),
         S \subseteq DOMAIN table, S \subseteq DOMAIN others, \A i \in S : table[i].value = others[i].value
  PROVE  ProductOf(table)[S] = ProductOf(others)[S]
<1> DEFINE f == ProductOf(table)
           g == ProductOf(others)
           Bad == {s \in SUBSET S : f[s] # g[s]}
<1>1. IsFiniteSet(S)
  BY FS_Subset
<1>2. \A s \in SUBSET S : /\ f[s] = IF s = {} THEN Prices!One
                                    ELSE Prices!Times(f[s \ {Pick(s)}], table[Pick(s)].value)
                          /\ g[s] = IF s = {} THEN Prices!One
                                    ELSE Prices!Times(g[s \ {Pick(s)}], others[Pick(s)].value)
  BY ProductStep
<1> HIDE DEF f, g
<1>3. Bad = {}
  <2> SUFFICES ASSUME Bad # {} PROVE FALSE
    OBVIOUS
  <2>1. PICK s \in Bad : \A u \in SUBSET s : u # s => u \notin Bad
    <3>1. Bad \in SUBSET SUBSET S
      OBVIOUS
    <3> HIDE DEF Bad
    <3>2. QED
      BY <1>1, <3>1, SmallestSet
  <2>2. s # {}
    BY <1>2, <2>1
  <2>3. Pick(s) \in s
    BY <2>2 DEF Pick
  <2>4. f[s \ {Pick(s)}] = g[s \ {Pick(s)}]
    BY <2>1, <2>3
  <2>5. f[s] = g[s]
    BY <1>2, <2>2, <2>3, <2>4
  <2>6. QED
    BY <2>1, <2>5
<1>4. QED
  BY <1>3 DEF f, g

Fraction == [num : Int, den : Int]

LEMMA TimesType ==
  /\ Prices!One \in Fraction
  /\ \A x \in Fraction : \A a \in Int : Prices!Times(x, a) \in Fraction
BY DEF Fraction, Prices!One, Prices!Times

LEMMA TimesCommute ==
  ASSUME NEW x \in Fraction, NEW a \in Int, NEW b \in Int
  PROVE  Prices!Times(Prices!Times(x, a), b) = Prices!Times(Prices!Times(x, b), a)
<1>1. (x.num * a) * b = (x.num * b) * a
  BY DEF Fraction
<1>2. QED
  BY <1>1 DEF Prices!Times

LEMMA ProductType ==
  ASSUME NEW table, IsFiniteSet(DOMAIN table), NEW S \in SUBSET DOMAIN table,
         \A i \in S : table[i].value \in Int
  PROVE  ProductOf(table)[S] \in Fraction
<1> DEFINE f == ProductOf(table)
           Bad == {s \in SUBSET S : f[s] \notin Fraction}
<1>1. IsFiniteSet(S)
  BY FS_Subset
<1>2. \A s \in SUBSET S : f[s] = IF s = {} THEN Prices!One
                                 ELSE Prices!Times(f[s \ {Pick(s)}], table[Pick(s)].value)
  BY ProductStep
<1> HIDE DEF f
<1>3. Bad = {}
  <2> SUFFICES ASSUME Bad # {} PROVE FALSE
    OBVIOUS
  <2>1. PICK s \in Bad : \A u \in SUBSET s : u # s => u \notin Bad
    <3>1. Bad \in SUBSET SUBSET S
      OBVIOUS
    <3> HIDE DEF Bad
    <3>2. QED
      BY <1>1, <3>1, SmallestSet
  <2>2. s # {}
    BY <1>2, <2>1, TimesType
  <2>3. Pick(s) \in s
    BY <2>2 DEF Pick
  <2>4. f[s \ {Pick(s)}] \in Fraction
    BY <2>1, <2>3
  <2>5. f[s] \in Fraction
    BY <1>2, <2>2, <2>3, <2>4, TimesType
  <2>6. QED
    BY <2>1, <2>5
<1>4. QED
  BY <1>3 DEF f

\* Any of the positions may be taken out first.
LEMMA ProductTakesAny ==
  ASSUME NEW table, IsFiniteSet(DOMAIN table), NEW S \in SUBSET DOMAIN table,
         \A i \in S : table[i].value \in Int, NEW x \in S
  PROVE  ProductOf(table)[S] = Prices!Times(ProductOf(table)[S \ {x}], table[x].value)
<1> DEFINE f == ProductOf(table)
           v(i) == table[i].value
           Bad == {s \in SUBSET S : \E i \in s : f[s] # Prices!Times(f[s \ {i}], v(i))}
<1>1. IsFiniteSet(S)
  BY FS_Subset
<1>2. \A s \in SUBSET S : s # {} => f[s] = Prices!Times(f[s \ {Pick(s)}], v(Pick(s)))
  BY ProductStep
<1>3. \A s \in SUBSET S : f[s] \in Fraction
  BY ProductType
<1>4. \A i \in S : v(i) \in Int
  OBVIOUS
<1> HIDE DEF f, v
<1>5. Bad = {}
  <2> SUFFICES ASSUME Bad # {} PROVE FALSE
    OBVIOUS
  <2>1. PICK s \in Bad : \A u \in SUBSET s : u # s => u \notin Bad
    <3>1. Bad \in SUBSET SUBSET S
      OBVIOUS
    <3> HIDE DEF Bad
    <3>2. QED
      BY <1>1, <3>1, SmallestSet
  <2>2. PICK i \in s : f[s] # Prices!Times(f[s \ {i}], v(i))
    BY <2>1
  <2> DEFINE c == Pick(s)
             rest == s \ {c, i}
  <2>3. c \in s /\ f[s] = Prices!Times(f[s \ {c}], v(c))
    BY <1>2, <2>2 DEF Pick
  <2> HIDE DEF c
  <2>4. c # i
    BY <2>2, <2>3
  <2>5. s \ {c} \notin Bad /\ s \ {i} \notin Bad
    BY <2>1, <2>2, <2>3
  <2>6. f[s \ {c}] = Prices!Times(f[rest], v(i))
    <3>1. (s \ {c}) \ {i} = rest /\ i \in s \ {c}
      BY <2>4
    <3>2. QED
      BY <2>5, <3>1
  <2>7. f[s \ {i}] = Prices!Times(f[rest], v(c))
    <3>1. (s \ {i}) \ {c} = rest /\ c \in s \ {i}
      BY <2>3, <2>4
    <3>2. QED
      BY <2>5, <3>1
  <2>8. f[rest] \in Fraction /\ v(c) \in Int /\ v(i) \in Int
    BY <1>3, <1>4, <2>3
  <2>9. QED
    BY <2>2, <2>3, <2>6, <2>7, <2>8, TimesCommute
<1>6. QED
  BY <1>5 DEF f, v

\* The order of the rows does not show in the product.
LEMMA ProductReordered ==
  ASSUME NEW table, IsFiniteSet(DOMAIN table), NEW p \in [DOMAIN table -> DOMAIN table],
         \A i, j \in DOMAIN table : p[i] = p[j] => i = j,
         NEW others, DOMAIN others = DOMAIN table, \A i \in DOMAIN table : others[i] = table[p[i]],
         NEW S \in SUBSET DOMAIN table, \A i \in S : table[p[i]].value \in Int
  PROVE  ProductOf(others)[S] = ProductOf(table)[{p[i] : i \in S}]
<1> DEFINE D == DOMAIN table
           f == ProductOf(table)
           g == ProductOf(others)
           Image(s) == {p[i] : i \in s}
           Bad == {s \in SUBSET S : g[s] # f[Image(s)]}
<1>1. IsFiniteSet(S)
  BY FS_Subset
<1>2. \A s \in SUBSET S : Image(s) \in SUBSET D /\ \A k \in Image(s) : table[k].value \in Int
  OBVIOUS
<1>3. \A s \in SUBSET S : \A k \in Image(s) :
        f[Image(s)] = Prices!Times(f[Image(s) \ {k}], table[k].value)
  BY <1>2, ProductTakesAny
<1>4. \A s \in SUBSET S : \A i \in s : g[s] = Prices!Times(g[s \ {i}], table[p[i]].value)
  <2>1. \A i \in S : others[i].value \in Int /\ others[i] = table[p[i]]
    OBVIOUS
  <2> SUFFICES ASSUME NEW s \in SUBSET S, NEW i \in s
               PROVE  g[s] = Prices!Times(g[s \ {i}], table[p[i]].value)
    OBVIOUS
  <2>2. s \in SUBSET DOMAIN others /\ \A k \in s : others[k].value \in Int
    BY <2>1
  <2>3. g[s] = Prices!Times(g[s \ {i}], others[i].value)
    BY <2>2, ProductTakesAny
  <2>4. QED
    BY <2>1, <2>3
<1>5. \A s \in SUBSET S : \A i \in s : p[i] \in Image(s) /\ Image(s) \ {p[i]} = Image(s \ {i})
  OBVIOUS
<1>6. g[{}] = f[{}]
  BY ProductStep
<1>7. Image({}) = {}
  OBVIOUS
<1> HIDE DEF f, g, Image
<1>8. Bad = {}
  <2> SUFFICES ASSUME Bad # {} PROVE FALSE
    OBVIOUS
  <2>1. PICK s \in Bad : \A u \in SUBSET s : u # s => u \notin Bad
    <3>1. Bad \in SUBSET SUBSET S
      OBVIOUS
    <3> HIDE DEF Bad
    <3>2. QED
      BY <1>1, <3>1, SmallestSet
  <2>2. PICK i \in s : TRUE
    BY <1>6, <1>7, <2>1
  <2>3. g[s \ {i}] = f[Image(s \ {i})]
    BY <2>1, <2>2
  <2>4. g[s] = f[Image(s)]
    <3>1. s \in SUBSET S /\ i \in s
      BY <2>1, <2>2
    <3>2. g[s] = Prices!Times(g[s \ {i}], table[p[i]].value)
      BY <1>4, <3>1
    <3>3. f[Image(s)] = Prices!Times(f[Image(s) \ {p[i]}], table[p[i]].value)
      BY <1>3, <1>5, <3>1
    <3>4. QED
      BY <1>5, <2>3, <3>1, <3>2, <3>3
  <2>5. QED
    BY <2>1, <2>4
<1>9. QED
  BY <1>8 DEF f, g, Image

LEMMA TimesShrinks ==
  ASSUME NEW x \in Fraction, 0 <= x.num, x.num <= x.den, 0 < x.den, NEW a \in 1..10
  PROVE  LET y == Prices!Times(x, a) IN 0 <= y.num /\ y.num <= y.den /\ 0 < y.den
<1> DEFINE n == x.num
           d == x.den
<1>1. n \in Int /\ d \in Int /\ 0 <= n /\ n <= d /\ 0 < d
  BY DEF Fraction
<1>2. Prices!Times(x, a).num = n * a /\ Prices!Times(x, a).den = d * 10
  BY DEF Prices!Times
<1> HIDE DEF n, d
<1>3. 0 <= n * a /\ n * a <= n * 10
  <2>1. a \in Int /\ 1 <= a /\ a <= 10
    OBVIOUS
  <2>2. a = 1 \/ a = 2 \/ a = 3 \/ a = 4 \/ a = 5 \/ a = 6 \/ a = 7 \/ a = 8 \/ a = 9 \/ a = 10
    BY <2>1
  <2>3. QED
    BY <1>1, <2>2
<1>4. n * 10 <= d * 10 /\ 0 < d * 10
  BY <1>1
<1>5. n * a \in Int
  BY <1>1
<1>6. QED
  BY <1>1, <1>2, <1>3, <1>4, <1>5

\* Percentages multiply to a fraction between 0 and 1.
LEMMA ProductShrinks ==
  ASSUME NEW table, IsFiniteSet(DOMAIN table), NEW S \in SUBSET DOMAIN table,
         \A i \in S : table[i].value \in 1..10
  PROVE  LET x == ProductOf(table)[S]
         IN x \in Fraction /\ 0 <= x.num /\ x.num <= x.den /\ 0 < x.den
<1> DEFINE f == ProductOf(table)
           Fits(x) == x \in Fraction /\ 0 <= x.num /\ x.num <= x.den /\ 0 < x.den
           Bad == {s \in SUBSET S : ~Fits(f[s])}
<1>1. IsFiniteSet(S)
  BY FS_Subset
<1>2. \A s \in SUBSET S : f[s] = IF s = {} THEN Prices!One
                                 ELSE Prices!Times(f[s \ {Pick(s)}], table[Pick(s)].value)
  BY ProductStep
<1>3. Fits(Prices!One)
  BY DEF Prices!One, Fraction
<1>4. \A x : Fits(x) => \A a \in 1..10 : Fits(Prices!Times(x, a))
  <2> SUFFICES ASSUME NEW x, Fits(x), NEW a \in 1..10 PROVE Fits(Prices!Times(x, a))
    OBVIOUS
  <2>1. Prices!Times(x, a) \in Fraction
    BY TimesType
  <2>2. QED
    BY <2>1, TimesShrinks
<1> HIDE DEF f, Fits
<1>5. Bad = {}
  <2> SUFFICES ASSUME Bad # {} PROVE FALSE
    OBVIOUS
  <2>1. PICK s \in Bad : \A u \in SUBSET s : u # s => u \notin Bad
    <3>1. Bad \in SUBSET SUBSET S
      OBVIOUS
    <3> HIDE DEF Bad
    <3>2. QED
      BY <1>1, <3>1, SmallestSet
  <2>2. s # {}
    BY <1>2, <1>3, <2>1
  <2>3. Pick(s) \in s
    BY <2>2 DEF Pick
  <2>4. Fits(f[s \ {Pick(s)}])
    BY <2>1, <2>3
  <2>5. Fits(f[s])
    <3>1. s \in SUBSET S /\ table[Pick(s)].value \in 1..10
      BY <2>1, <2>3
    <3>2. f[s] = Prices!Times(f[s \ {Pick(s)}], table[Pick(s)].value)
      BY <1>2, <2>2, <3>1
    <3>3. QED
      BY <1>4, <2>4, <3>1, <3>2
  <2>6. QED
    BY <2>1, <2>5
<1>6. QED
  BY <1>5 DEF f, Fits

-----------------------------------------------------------------------------
(* Rounding keeps the order: a/b <= c/d in units gives the same rounded.      *)

LEMMA Divide ==
  ASSUME NEW n \in Nat, NEW by \in Nat \ {0}
  PROVE  /\ n \div by \in Nat /\ n % by \in Nat /\ n % by < by
         /\ n % by = n - by * (n \div by)
<1>1. n \div by \in Nat
  OBVIOUS
<1>2. n % by \in Nat /\ n % by < by
  OBVIOUS
<1>3. n % by = n - by * (n \div by)
  OBVIOUS
<1>4. QED
  BY <1>1, <1>2, <1>3

LEMMA RoundBetween ==
  ASSUME NEW n \in Nat, NEW by \in Nat \ {0}
  PROVE  LET q == n \div by
             r == n % by
         IN /\ Prices!round_dp(n, by) = IF 2 * r > by \/ (2 * r = by /\ q % 2 = 1)
                                        THEN q + 1 ELSE q
            /\ Prices!round_dp(n, by) \in Nat
BY Divide DEF Prices!round_dp

LEMMA RoundOrder ==
  ASSUME NEW a \in Nat, NEW b \in Nat \ {0}, NEW c \in Nat, NEW d \in Nat \ {0}, a * d <= c * b
  PROVE  Prices!round_dp(a, b) <= Prices!round_dp(c, d)
<1> DEFINE q == a \div b
           r == a % b
           t == c \div d
           u == c % d
           x == Prices!round_dp(a, b)
           y == Prices!round_dp(c, d)
<1>1. /\ q \in Nat /\ r \in Nat /\ r < b /\ r = a - b * q
      /\ t \in Nat /\ u \in Nat /\ u < d /\ u = c - d * t
  BY Divide
<1>2. /\ x = (IF 2 * r > b \/ (2 * r = b /\ q % 2 = 1) THEN q + 1 ELSE q)
      /\ y = (IF 2 * u > d \/ (2 * u = d /\ t % 2 = 1) THEN t + 1 ELSE t)
  BY RoundBetween
<1> SUFFICES x <= y
  OBVIOUS
<1> HIDE DEF q, r, t, u, x, y
<1>3. (q * b + r) * d <= (t * d + u) * b
  BY <1>1
<1>4. q * (b * d) + r * d <= t * (b * d) + u * b
  BY <1>1, <1>3
<1> DEFINE bd == b * d
<1>5. bd \in Nat /\ bd > 0
  OBVIOUS
<1>6. r * d \in Nat /\ r * d < bd /\ u * b \in Nat /\ u * b < bd
  <2>1. r + 1 <= b /\ u + 1 <= d
    BY <1>1
  <2>2. (r + 1) * d <= b * d /\ (u + 1) * b <= d * b
    BY <1>1, <2>1
  <2>3. r * d + d <= bd /\ u * b + b <= bd
    BY <1>1, <2>2
  <2>4. QED
    BY <1>1, <2>3
<1> DEFINE rd == r * d
           ub == u * b
           qbd == q * bd
           tbd == t * bd
<1>7. qbd + rd <= tbd + ub
  BY <1>4
<1>8. CASE q < t
  BY <1>1, <1>2, <1>8
<1>9. CASE q = t
  <2>1. rd <= ub
    BY <1>1, <1>5, <1>6, <1>7, <1>9
  <2>2. 2 * r > b => 2 * u > d
    <3> SUFFICES ASSUME 2 * r > b, 2 * u <= d PROVE FALSE
      BY <1>1
    <3>1. (2 * r) * d > b * d /\ (2 * u) * b <= d * b
      BY <1>1
    <3>2. QED
      BY <1>1, <2>1, <3>1
  <2>3. 2 * r = b => 2 * u >= d
    <3> SUFFICES ASSUME 2 * r = b, 2 * u < d PROVE FALSE
      BY <1>1
    <3>1. (2 * r) * d = b * d /\ (2 * u) * b < d * b
      BY <1>1
    <3>2. QED
      BY <1>1, <2>1, <3>1
  <2>4. QED
    BY <1>1, <1>2, <1>9, <2>2, <2>3
<1>10. CASE t < q
  <2>1. (t + 1) * bd <= q * bd
    BY <1>1, <1>5, <1>10
  <2>2. tbd + bd <= qbd
    BY <1>1, <1>5, <2>1
  <2>3. tbd \in Nat /\ qbd \in Nat
    BY <1>1, <1>5
  <2> HIDE DEF tbd, qbd, rd, ub, bd
  <2>4. QED
    BY <1>5, <1>6, <1>7, <2>2, <2>3 DEF rd, ub
<1>11. QED
  BY <1>1, <1>8, <1>9, <1>10

-----------------------------------------------------------------------------
(* Selecting a price: any finite table, whatever positions a filter left.     *)

Table(t) == t = [i \in DOMAIN t |-> t[i]] /\ DOMAIN t \subseteq Nat /\ IsFiniteSet(DOMAIN t)

LEMMA Greatest ==
  ASSUME NEW C, IsFiniteSet(C), C # {}, NEW f, \A i \in C : f[i] \in Int
  PROVE  \E i \in C : \A j \in C : f[j] <= f[i]
<1> DEFINE Peak(s) == \E i \in s : \A j \in s : f[j] <= f[i]
           Bad == {s \in SUBSET C : s # {} /\ ~Peak(s)}
<1>1. Bad = {}
  <2> SUFFICES ASSUME Bad # {} PROVE FALSE
    OBVIOUS
  <2>1. PICK s \in Bad : \A u \in SUBSET s : u # s => u \notin Bad
    <3>1. Bad \in SUBSET SUBSET C
      OBVIOUS
    <3> HIDE DEF Bad
    <3>2. QED
      BY <3>1, SmallestSet
  <2>2. PICK i \in s : TRUE
    BY <2>1
  <2>3. CASE s = {i}
    BY <2>1, <2>3
  <2>4. CASE s # {i}
    <3>1. s \ {i} # {} /\ s \ {i} \in SUBSET s /\ s \ {i} # s
      BY <2>2, <2>4
    <3>2. s \ {i} \in SUBSET C /\ s \ {i} \notin Bad
      <4> HIDE DEF Peak
      <4>1. QED
        BY <2>1, <3>1
    <3>3. Peak(s \ {i})
      <4> HIDE DEF Peak
      <4>1. QED
        BY <3>1, <3>2
    <3>4. PICK k \in s \ {i} : \A j \in s \ {i} : f[j] <= f[k]
      BY <3>3
    <3>5. f[i] \in Int /\ f[k] \in Int /\ \A j \in s : f[j] \in Int
      BY <2>1, <2>2, <3>4
    <3>6. CASE f[i] <= f[k]
      <4>1. \A j \in s : f[j] <= f[k]
        BY <3>4, <3>6
      <4>2. QED
        BY <2>1, <3>4, <4>1
    <3>7. CASE f[k] <= f[i]
      <4>1. \A j \in s : f[j] <= f[i]
        BY <3>4, <3>5, <3>7
      <4>2. QED
        BY <2>1, <2>2, <4>1
    <3>8. QED
      BY <3>5, <3>6, <3>7
  <2>5. QED
    BY <2>3, <2>4
<1>2. C \notin Bad
  BY <1>1
<1>3. QED
  BY <1>2

Eligible(t, g, time) ==
  {i \in DOMAIN t : Prices!is_valid_at(t[i], time) /\ t[i].group \in {None, g}}

BestLast(t, g, C, i) ==
  \A j \in C : /\ Prices!NotAfter(t[j], t[i], g)
               /\ Prices!NotAfter(t[i], t[j], g) => j <= i

LEMMA BestLastExists ==
  ASSUME NEW t, NEW g, NEW C \in SUBSET Nat, IsFiniteSet(C), C # {}, \A i \in C : t[i].version \in Int
  PROVE  \E i \in C : BestLast(t, g, C, i)
<1> DEFINE rk == [i \in C |-> Prices!rank(t[i], g)]
<1>1. \A i \in C : rk[i] \in 0..1
  BY DEF Prices!rank
<1>2. PICK k \in C : \A j \in C : rk[j] <= rk[k]
  <2>1. \A i \in C : rk[i] \in Int
    BY <1>1
  <2> HIDE DEF rk
  <2>2. QED
    BY <2>1, Greatest
<1> DEFINE C1 == {i \in C : rk[i] = rk[k]}
           v == [i \in C |-> t[i].version]
<1>3. PICK l \in C1 : \A j \in C1 : v[j] <= v[l]
  <2>1. C1 # {} /\ C1 \subseteq C /\ IsFiniteSet(C1)
    BY <1>2, FS_Subset
  <2>2. \A i \in C1 : v[i] \in Int
    OBVIOUS
  <2> HIDE DEF C1, v
  <2>3. QED
    BY <2>1, <2>2, Greatest
<1> DEFINE C2 == {i \in C1 : v[i] = v[l]}
           id == [i \in C |-> i]
<1>4. PICK i \in C2 : \A j \in C2 : id[j] <= id[i]
  <2>1. C2 # {} /\ C2 \subseteq C /\ IsFiniteSet(C2)
    BY <1>3, FS_Subset
  <2>2. \A j \in C : id[j] = j
    BY Zenon
  <2> HIDE DEF C2, id
  <2>3. \A j \in C2 : id[j] \in Int
    <3>1. C \subseteq Int
      OBVIOUS
    <3>2. QED
      BY <2>1, <2>2, <3>1
  <2>4. QED
    BY <2>1, <2>3, Greatest
<1>5. i \in C /\ rk[i] = rk[k] /\ v[i] = v[l]
  OBVIOUS
<1>6. ASSUME NEW j \in C
      PROVE  /\ Prices!NotAfter(t[j], t[i], g)
             /\ Prices!NotAfter(t[i], t[j], g) => j <= i
  <2>1. rk[j] <= rk[i] /\ rk[j] \in 0..1 /\ rk[i] \in 0..1
    BY <1>1, <1>2, <1>5
  <2>2. rk[j] = rk[i] => v[j] <= v[i]
    BY <1>3, <1>5
  <2>3. rk[j] = rk[i] /\ v[j] = v[i] => j <= i
    BY <1>4, <1>5
  <2>4. v[j] \in Int /\ v[i] \in Int
    BY <1>5
  <2>5. /\ rk[j] = Prices!rank(t[j], g) /\ rk[i] = Prices!rank(t[i], g)
        /\ v[j] = t[j].version /\ v[i] = t[i].version
    BY <1>5
  <2> HIDE DEF C1, C2, v, rk, id
  <2>6. /\ rk[j] < rk[i] \/ (rk[j] = rk[i] /\ v[j] <= v[i])
        /\ (rk[i] < rk[j] \/ (rk[i] = rk[j] /\ v[i] <= v[j])) => j <= i
    BY <2>1, <2>2, <2>3, <2>4
  <2>7. QED
    BY <2>5, <2>6 DEF Prices!NotAfter
<1>7. QED
  BY <1>5, <1>6 DEF BestLast

\* What select_price returns: None without a candidate, and the last best otherwise.
LEMMA SelectIsBest ==
  ASSUME NEW t, Table(t), NEW g, NEW time, \A i \in DOMAIN t : t[i].version \in Int
  PROVE  LET C == Eligible(t, g, time) IN
         IF C = {} THEN Prices!select_price(t, g, time) = None
         ELSE \E i \in C : Prices!select_price(t, g, time) = t[i] /\ BestLast(t, g, C, i)
<1> DEFINE C == Eligible(t, g, time)
           i0 == CHOOSE i \in C : BestLast(t, g, C, i)
<1>1. Prices!select_price(t, g, time) = IF C = {} THEN None ELSE t[i0]
  BY DEF Prices!select_price, Eligible, BestLast
<1>2. C \in SUBSET Nat /\ IsFiniteSet(C) /\ \A i \in C : t[i].version \in Int
  BY FS_Subset DEF Eligible, Table
<1> HIDE DEF C
<1>3. C # {} => \E i \in C : BestLast(t, g, C, i)
  BY <1>2, BestLastExists
<1>4. C # {} => i0 \in C /\ BestLast(t, g, C, i0)
  BY <1>3
<1>5. QED
  BY <1>1, <1>4 DEF C

LEMMA BestLastUnique ==
  ASSUME NEW t, NEW g, NEW C \in SUBSET Nat, NEW i \in C, NEW j \in C,
         BestLast(t, g, C, i), BestLast(t, g, C, j)
  PROVE  i = j
<1>1. j <= i /\ i <= j
  BY DEF BestLast
<1>2. QED
  BY <1>1

\* The rows the SQL lets through are those select_price would take.
LEMMA AdmitsEligible ==
  ASSUME NEW p, NEW g, NEW time
  PROVE  Prices!sql_admits(p, g, time) <=> Prices!is_valid_at(p, time) /\ p.group \in {None, g}
BY DEF Prices!sql_admits, Prices!is_valid_at

LEMMA SqlPrices ==
  ASSUME NEW t, Table(t), NEW g, NEW time
  PROVE  LET s == Prices!sql_prices(t, g, time)
         IN /\ DOMAIN s = Eligible(t, g, time)
            /\ \A i \in DOMAIN s : s[i] = t[i]
            /\ Eligible(s, g, time) = Eligible(t, g, time)
            /\ Table(s)
<1> DEFINE s == Prices!sql_prices(t, g, time)
           C == {i \in DOMAIN t : Prices!sql_admits(t[i], g, time)}
<1>1. s = [i \in C |-> t[i]]
  BY DEF Prices!sql_prices, Prices!RestrictValues, Prices!Restrict
<1>2. C = Eligible(t, g, time)
  BY AdmitsEligible DEF Eligible
<1>3. DOMAIN s = C /\ \A i \in C : s[i] = t[i]
  BY <1>1
<1>4. Eligible(s, g, time) = Eligible(t, g, time)
  BY <1>2, <1>3 DEF Eligible
<1>5. Table(s)
  <2>1. C \subseteq Nat /\ IsFiniteSet(C)
    BY FS_Subset DEF Table
  <2>2. s = [i \in DOMAIN s |-> s[i]]
    BY <1>1
  <2>3. QED
    BY <1>3, <2>1, <2>2 DEF Table
<1>6. QED
  BY <1>2, <1>3, <1>4, <1>5

LEMMA SqlAgreesOnPrice ==
  ASSUME NEW t, Table(t), NEW g, NEW time, \A i \in DOMAIN t : t[i].version \in Int
  PROVE  Prices!select_price(Prices!sql_prices(t, g, time), g, time) = Prices!select_price(t, g, time)
<1> DEFINE s == Prices!sql_prices(t, g, time)
           C == Eligible(t, g, time)
<1>1. /\ DOMAIN s = C /\ \A i \in C : s[i] = t[i]
      /\ Eligible(s, g, time) = C /\ Table(s)
  BY SqlPrices
<1>2. C \subseteq DOMAIN t /\ C \subseteq Nat
  BY DEF Eligible, Table
<1> HIDE DEF s, C
<1>3. \A i \in DOMAIN s : s[i].version \in Int
  BY <1>1, <1>2
<1>4. CASE C = {}
  <2>1. Prices!select_price(t, g, time) = None
    BY <1>4, SelectIsBest DEF C
  <2>2. Prices!select_price(s, g, time) = None
    BY <1>1, <1>3, <1>4, SelectIsBest
  <2>3. QED
    BY <2>1, <2>2 DEF s
<1>5. CASE C # {}
  <2>1. PICK i \in C : Prices!select_price(t, g, time) = t[i] /\ BestLast(t, g, C, i)
    BY <1>5, SelectIsBest DEF C
  <2>2. PICK j \in C : Prices!select_price(s, g, time) = s[j] /\ BestLast(s, g, C, j)
    BY <1>1, <1>3, <1>5, SelectIsBest
  <2>3. BestLast(t, g, C, j)
    BY <1>1, <2>2 DEF BestLast
  <2>4. i = j
    BY <1>2, <2>1, <2>3, BestLastUnique
  <2>5. QED
    BY <1>1, <2>1, <2>2, <2>4 DEF s
<1>6. QED
  BY <1>4, <1>5

\* Two rows of the same tier with the same version.
PriceTie(t) == \E i, j \in DOMAIN t : i # j /\ t[i].group = t[j].group /\ t[i].version = t[j].version

LEMMA NotAfterBoth ==
  ASSUME NEW a, NEW b, NEW g, a.group \in {None, g}, b.group \in {None, g},
         a.version \in Int, b.version \in Int,
         Prices!NotAfter(a, b, g), Prices!NotAfter(b, a, g)
  PROVE  a.group = b.group /\ a.version = b.version
<1>1. Prices!rank(a, g) \in 0..1 /\ Prices!rank(b, g) \in 0..1
  BY DEF Prices!rank
<1>2. Prices!rank(a, g) = Prices!rank(b, g) /\ a.version = b.version
  BY <1>1 DEF Prices!NotAfter
<1>3. a.group = b.group
  BY <1>2 DEF Prices!rank
<1>4. QED
  BY <1>2, <1>3

\* Reordering a table by a permutation of its positions.
Shuffled(t, p) == [i \in DOMAIN t |-> t[p[i]]]

Permutes(p, D) ==
  /\ p \in [D -> D]
  /\ \A i, j \in D : p[i] = p[j] => i = j
  /\ \A k \in D : \E i \in D : p[i] = k

LEMMA PriceReordered ==
  ASSUME NEW t, Table(t), NEW g, NEW time, \A i \in DOMAIN t : t[i].version \in Int,
         ~PriceTie(t), NEW p, Permutes(p, DOMAIN t)
  PROVE  Prices!select_price(Shuffled(t, p), g, time) = Prices!select_price(t, g, time)
<1> DEFINE s == Shuffled(t, p)
           C == Eligible(t, g, time)
           E == Eligible(s, g, time)
<1>1. /\ DOMAIN s = DOMAIN t /\ \A i \in DOMAIN t : s[i] = t[p[i]] /\ p[i] \in DOMAIN t
      /\ s = [i \in DOMAIN s |-> s[i]]
  BY DEF Shuffled, Permutes
<1>2. Table(s)
  BY <1>1 DEF Table
<1>3. \A i \in DOMAIN s : s[i].version \in Int
  BY <1>1
<1>4. \A i \in DOMAIN t : i \in E <=> p[i] \in C
  BY <1>1 DEF Eligible
<1>5. /\ C \subseteq DOMAIN t /\ E \subseteq DOMAIN t /\ \A i \in C : t[i].group \in {None, g}
  BY <1>1 DEF Eligible
<1>6. \A k \in C : \E i \in E : p[i] = k
  BY <1>4, <1>5 DEF Permutes
<1>7. /\ IF C = {} THEN Prices!select_price(t, g, time) = None
         ELSE \E i \in C : Prices!select_price(t, g, time) = t[i] /\ BestLast(t, g, C, i)
      /\ IF E = {} THEN Prices!select_price(s, g, time) = None
         ELSE \E i \in E : Prices!select_price(s, g, time) = s[i] /\ BestLast(s, g, E, i)
  BY <1>2, <1>3, SelectIsBest
<1> HIDE DEF s, C, E
<1>8. CASE C = {}
  <2>1. E = {}
    BY <1>4, <1>5, <1>8
  <2>2. QED
    BY <1>7, <1>8, <2>1 DEF s
<1>9. CASE C # {}
  <2>1. PICK i \in C : Prices!select_price(t, g, time) = t[i] /\ BestLast(t, g, C, i)
    BY <1>7, <1>9
  <2>2. E # {}
    BY <1>6, <1>9
  <2>3. PICK j \in E : Prices!select_price(s, g, time) = s[j] /\ BestLast(s, g, E, j)
    BY <1>7, <2>2
  <2>4. p[j] \in C /\ s[j] = t[p[j]]
    BY <1>1, <1>4, <1>5, <2>3
  <2>5. PICK k \in E : p[k] = i
    BY <1>6, <2>1
  <2>6. s[k] = t[i]
    BY <1>1, <1>5, <2>5
  <2>7. Prices!NotAfter(t[p[j]], t[i], g) /\ Prices!NotAfter(t[i], t[p[j]], g)
    BY <2>1, <2>3, <2>4, <2>5, <2>6 DEF BestLast
  <2>8. t[i].group = t[p[j]].group /\ t[i].version = t[p[j]].version
    BY <1>5, <2>1, <2>4, <2>7, NotAfterBoth
  <2>9. i = p[j]
    BY <1>5, <2>1, <2>4, <2>8 DEF PriceTie
  <2>10. QED
    BY <2>1, <2>3, <2>4, <2>9 DEF s
<1>10. QED
  BY <1>8, <1>9

-----------------------------------------------------------------------------
(* Discounts. *)

Percentages(d, m, g, time) ==
  {i \in DOMAIN d : Prices!is_valid_at(d[i], time) /\ Prices!targets(d[i], m, g) /\ d[i].kind = "percentage"}
Alone(d, P) == {i \in P : ~d[i].stackable}

LastHighest(d, A, i) ==
  \A j \in A : \/ d[j].priority < d[i].priority
               \/ d[j].priority = d[i].priority /\ j <= i

LEMMA LastHighestUnique ==
  ASSUME NEW d, NEW A \in SUBSET Nat, \A i \in A : d[i].priority \in Int, NEW i \in A, NEW j \in A,
         LastHighest(d, A, i), LastHighest(d, A, j)
  PROVE  i = j
<1>1. /\ d[j].priority < d[i].priority \/ (d[j].priority = d[i].priority /\ j <= i)
      /\ d[i].priority < d[j].priority \/ (d[i].priority = d[j].priority /\ i <= j)
  BY DEF LastHighest
<1>2. d[i].priority \in Int /\ d[j].priority \in Int /\ i \in Nat /\ j \in Nat
  OBVIOUS
<1>3. QED
  BY <1>1, <1>2

LEMMA GreatestPlace ==
  ASSUME NEW A \in SUBSET Nat, IsFiniteSet(A), A # {}
  PROVE  \E l \in A : \A j \in A : j <= l
<1> DEFINE id == [i \in A |-> i]
<1>1. \A i \in A : id[i] = i /\ id[i] \in Int
  OBVIOUS
<1> HIDE DEF id
<1>2. \E l \in A : \A j \in A : id[j] <= id[l]
  BY <1>1, Greatest
<1>3. QED
  BY <1>1, <1>2

LEMMA TopIs ==
  ASSUME NEW d, NEW A \in SUBSET Nat, IsFiniteSet(A), A # {}, \A i \in A : d[i].priority \in Int,
         NEW table, table = [i \in A |-> d[i]]
  PROVE  \E i \in A : Prices!Top(table) = d[i] /\ LastHighest(d, A, i)
<1> DEFINE pr == [i \in A |-> d[i].priority]
<1>1. PICK k \in A : \A j \in A : pr[j] <= pr[k]
  <2>1. \A i \in A : pr[i] \in Int
    OBVIOUS
  <2> HIDE DEF pr
  <2>2. QED
    BY <2>1, Greatest
<1> DEFINE A1 == {i \in A : pr[i] = pr[k]}
<1>2. PICK l \in A1 : \A j \in A1 : j <= l
  <2>1. A1 # {} /\ A1 \in SUBSET A
    BY <1>1
  <2> HIDE DEF A1
  <2>2. IsFiniteSet(A1) /\ A1 \in SUBSET Nat
    BY <2>1, FS_Subset
  <2>3. QED
    BY <2>1, <2>2, GreatestPlace
<1>3. l \in A /\ pr[l] = pr[k] /\ \A j \in A : pr[j] \in Int /\ pr[j] = d[j].priority
  OBVIOUS
<1>4. LastHighest(d, A, l)
  <2> SUFFICES ASSUME NEW j \in A
               PROVE  \/ d[j].priority < d[l].priority
                      \/ d[j].priority = d[l].priority /\ j <= l
    BY DEF LastHighest
  <2>1. pr[j] = pr[l] => j <= l
    BY <1>2, <1>3
  <2>2. pr[j] <= pr[l]
    BY <1>1, <1>3
  <2>3. QED
    BY <1>3, <2>1, <2>2
<1> DEFINE i0 == CHOOSE i \in A : LastHighest(d, A, i)
<1>5. i0 \in A /\ LastHighest(d, A, i0)
  BY <1>3, <1>4
<1>6. Prices!Top(table) = d[i0]
  <2>1. DOMAIN table = A /\ \A i \in A : table[i] = d[i]
    OBVIOUS
  <2> DEFINE IsLast(i) == \A j \in DOMAIN table :
               \/ table[j].priority < table[i].priority
               \/ table[j].priority = table[i].priority /\ j <= i
  <2>2. Prices!Top(table) = table[CHOOSE i \in DOMAIN table : IsLast(i)]
    BY DEF Prices!Top
  <2>3. \A i \in A : IsLast(i) <=> LastHighest(d, A, i)
    BY <2>1 DEF LastHighest
  <2>4. \A i, j \in A : IsLast(i) /\ IsLast(j) => i = j
    <3>1. \A i, j \in A : LastHighest(d, A, i) /\ LastHighest(d, A, j) => i = j
      BY LastHighestUnique
    <3>2. QED
      BY <2>3, <3>1
  <2> HIDE DEF IsLast
  <2>5. (CHOOSE i \in DOMAIN table : IsLast(i)) = i0
    <3> DEFINE c == CHOOSE i \in A : IsLast(i)
    <3>1. c \in A /\ IsLast(c)
      BY <1>5, <2>3
    <3>2. c = i0
      BY <1>5, <2>3, <2>4, <3>1
    <3>3. QED
      BY <2>1, <3>2
  <2>6. QED
    BY <1>5, <2>1, <2>2, <2>5
<1>7. QED
  BY <1>5, <1>6

\* What apply_discounts returns: the last of the highest that stands alone, or
\* all percentages multiplied.
LEMMA AppliedIs ==
  ASSUME NEW d, Table(d), \A i \in DOMAIN d : d[i].priority \in Int, NEW m, NEW g, NEW time
  PROVE  LET P == Percentages(d, m, g, time)
             A == Alone(d, P)
             r == Prices!apply_discounts(d, m, g, time)
         IN IF A # {}
            THEN \E i \in A : /\ LastHighest(d, A, i)
                              /\ r = [factor |-> Prices!Times(Prices!One, d[i].value),
                                      applied |-> {d[i].id}]
            ELSE r = [factor |-> ProductOf(d)[P], applied |-> {d[i].id : i \in P}]
<1> DEFINE P == Percentages(d, m, g, time)
           A == Alone(d, P)
           r == Prices!apply_discounts(d, m, g, time)
           table == [i \in P |-> d[i]]
           alone == [i \in A |-> d[i]]
<1>1. P \in SUBSET DOMAIN d /\ A \in SUBSET DOMAIN d /\ A \subseteq P
  BY DEF Percentages, Alone
<1>2. P \in SUBSET Nat /\ A \in SUBSET Nat /\ IsFiniteSet(P) /\ IsFiniteSet(A)
  BY <1>1, FS_Subset DEF Table
<1>3. r = IF DOMAIN alone # {}
          THEN [factor |-> Prices!Times(Prices!One, Prices!Top(alone).value),
                applied |-> {Prices!Top(alone).id}]
          ELSE [factor |-> Prices!Product(table), applied |-> {table[i].id : i \in DOMAIN table}]
  <2> DEFINE R == Prices!RestrictValues(d, LAMBDA x : Prices!is_valid_at(x, time)
                     /\ Prices!targets(x, m, g) /\ x.kind = "percentage")
             L == Prices!RestrictValues(R, LAMBDA x : ~x.stackable)
  <2>1. R = table
    BY DEF Prices!RestrictValues, Prices!Restrict, Percentages
  <2>2. Prices!RestrictValues(table, LAMBDA x : ~x.stackable) = alone
    <3>1. {i \in DOMAIN table : ~table[i].stackable} = A
      BY DEF Alone
    <3>2. [i \in A |-> table[i]] = alone
      BY <1>1
    <3>3. QED
      BY <3>1, <3>2 DEF Prices!RestrictValues, Prices!Restrict
  <2>3. L = alone
    BY <2>1, <2>2
  <2>4. r = IF DOMAIN L # {}
            THEN [factor |-> Prices!Times(Prices!One, Prices!Top(L).value),
                  applied |-> {Prices!Top(L).id}]
            ELSE [factor |-> Prices!Product(R), applied |-> {R[i].id : i \in DOMAIN R}]
    BY DEF Prices!apply_discounts
  <2> HIDE DEF r, R, L, table, alone
  <2>5. QED
    BY <2>1, <2>3, <2>4
<1>4. ASSUME A # {}
      PROVE \E i \in A : Prices!Top(alone) = d[i] /\ LastHighest(d, A, i)
  <2>1. \A i \in A : d[i].priority \in Int
    BY <1>1
  <2> HIDE DEF A
  <2>2. QED
    BY <1>2, <1>4, <2>1, TopIs
<1>5. Prices!Product(table) = ProductOf(d)[P]
  <2>1. Prices!Product(table) = ProductOf(table)[DOMAIN table]
    BY ProductIs DEF ProductOf
  <2>2. DOMAIN table = P /\ \A i \in P : table[i].value = d[i].value
    OBVIOUS
  <2>3. IsFiniteSet(DOMAIN d)
    BY DEF Table
  <2> HIDE DEF table, P
  <2>4. ProductOf(table)[P] = ProductOf(d)[P]
    BY <1>1, <1>2, <2>2, <2>3, ProductLocal
  <2>5. QED
    BY <2>1, <2>2, <2>4
<1>6. DOMAIN alone = A /\ {table[i].id : i \in DOMAIN table} = {d[i].id : i \in P}
  OBVIOUS
<1> HIDE DEF r, table, alone, A, P
<1>7. CASE A # {}
  BY <1>3, <1>4, <1>6, <1>7 DEF A, P, r
<1>8. CASE A = {}
  <2>1. r = [factor |-> ProductOf(d)[P], applied |-> {d[i].id : i \in P}]
    BY <1>3, <1>5, <1>6, <1>8
  <2>2. QED
    BY <1>8, <2>1 DEF A, P, r
<1>9. QED
  BY <1>7, <1>8

\* The SQL lets every discount through that apply_discounts would use.
LEMMA SqlDiscounts ==
  ASSUME NEW d, Table(d), \A i \in DOMAIN d : d[i].scope \in Prices!Scopes, NEW m, NEW g, NEW time
  PROVE  LET s == Prices!sql_discounts(d, m, g, time)
         IN /\ Table(s) /\ DOMAIN s \subseteq DOMAIN d /\ \A i \in DOMAIN s : s[i] = d[i]
            /\ Percentages(s, m, g, time) = Percentages(d, m, g, time)
<1> DEFINE s == Prices!sql_discounts(d, m, g, time)
           Q == DOMAIN s
<1>1. s = [i \in Q |-> d[i]] /\ Q \subseteq DOMAIN d
  BY DEF Prices!sql_discounts, Prices!RestrictValues, Prices!Restrict
<1>2. \A i \in Percentages(d, m, g, time) : i \in Q
  <2> SUFFICES ASSUME NEW i \in DOMAIN d, Prices!is_valid_at(d[i], time), Prices!targets(d[i], m, g)
               PROVE  i \in Q
    BY DEF Percentages
  <2>1. d[i].from <= time /\ (d[i].to = None \/ d[i].to > time)
    BY DEF Prices!is_valid_at
  <2>2. \/ d[i].scope = "global"
        \/ d[i].scope = "model" /\ d[i].model = m
        \/ g # None /\ d[i].scope = "group" /\ d[i].group = g
        \/ g # None /\ d[i].scope = "model_group" /\ d[i].model = m /\ d[i].group = g
    BY DEF Prices!targets, Prices!Scopes
  <2>3. QED
    BY <2>1, <2>2 DEF Prices!sql_discounts, Prices!RestrictValues, Prices!Restrict
<1> HIDE DEF s
<1>3. \A i \in Q : s[i] = d[i]
  BY <1>1
<1>4. s = [i \in DOMAIN s |-> s[i]]
  BY <1>1
<1>5. Table(s)
  BY <1>1, <1>4, FS_Subset DEF Table
<1>6. Percentages(s, m, g, time) = Percentages(d, m, g, time)
  BY <1>1, <1>2, <1>3 DEF Percentages
<1>7. QED
  BY <1>1, <1>3, <1>5, <1>6 DEF s

\* What the result of apply_discounts depends on.
LEMMA AppliedSame ==
  ASSUME NEW d, NEW s, Table(d), Table(s), \A i \in DOMAIN d : d[i].priority \in Int,
         DOMAIN s \subseteq DOMAIN d, \A i \in DOMAIN s : s[i] = d[i], NEW m, NEW g, NEW time,
         Percentages(s, m, g, time) = Percentages(d, m, g, time)
  PROVE  Prices!apply_discounts(s, m, g, time) = Prices!apply_discounts(d, m, g, time)
<1> DEFINE P == Percentages(d, m, g, time)
           A == Alone(d, P)
           r == Prices!apply_discounts(d, m, g, time)
           q == Prices!apply_discounts(s, m, g, time)
<1>1. P \subseteq DOMAIN s /\ P \subseteq DOMAIN d /\ A \subseteq P
  BY DEF Percentages, Alone
<1>2. Alone(s, P) = A
  BY <1>1 DEF Alone
<1>3. \A i \in DOMAIN s : s[i].priority \in Int
  OBVIOUS
<1>4. IF A # {}
      THEN \E i \in A : /\ LastHighest(d, A, i)
                        /\ r = [factor |-> Prices!Times(Prices!One, d[i].value), applied |-> {d[i].id}]
      ELSE r = [factor |-> ProductOf(d)[P], applied |-> {d[i].id : i \in P}]
  BY AppliedIs
<1>5. IF A # {}
      THEN \E i \in A : /\ LastHighest(s, A, i)
                        /\ q = [factor |-> Prices!Times(Prices!One, s[i].value), applied |-> {s[i].id}]
      ELSE q = [factor |-> ProductOf(s)[P], applied |-> {s[i].id : i \in P}]
  <2> HIDE DEF A, P, q
  <2>1. IF Alone(s, P) # {}
        THEN \E i \in Alone(s, P) :
               /\ LastHighest(s, Alone(s, P), i)
               /\ q = [factor |-> Prices!Times(Prices!One, s[i].value), applied |-> {s[i].id}]
        ELSE q = [factor |-> ProductOf(s)[P], applied |-> {s[i].id : i \in P}]
    BY <1>3, AppliedIs DEF P, q
  <2>2. QED
    BY <1>2, <2>1
<1>6. A \in SUBSET Nat /\ \A i \in A : d[i].priority \in Int
  BY <1>1 DEF Table
<1>7. \A i \in A : s[i] = d[i]
  BY <1>1
<1>8. ProductOf(s)[P] = ProductOf(d)[P]
  BY <1>1, ProductLocal DEF Table
<1>9. {s[i].id : i \in P} = {d[i].id : i \in P}
  BY <1>1
<1> HIDE DEF P, A, r, q
<1>10. CASE A # {}
  <2>1. PICK i \in A : /\ LastHighest(d, A, i)
                       /\ r = [factor |-> Prices!Times(Prices!One, d[i].value), applied |-> {d[i].id}]
    BY <1>4, <1>10
  <2>2. PICK j \in A : /\ LastHighest(s, A, j)
                       /\ q = [factor |-> Prices!Times(Prices!One, s[j].value), applied |-> {s[j].id}]
    BY <1>5, <1>10
  <2>3. LastHighest(d, A, j)
    BY <1>7, <2>2 DEF LastHighest
  <2>4. i = j
    BY <1>6, <2>1, <2>3, LastHighestUnique
  <2>5. QED
    BY <1>7, <2>1, <2>2, <2>4 DEF r, q
<1>11. CASE A = {}
  BY <1>4, <1>5, <1>8, <1>9, <1>11 DEF r, q
<1>12. QED
  BY <1>10, <1>11

LEMMA SqlAgreesOnDiscounts ==
  ASSUME NEW d, Table(d), \A i \in DOMAIN d : d[i].scope \in Prices!Scopes /\ d[i].priority \in Int,
         NEW m, NEW g, NEW time
  PROVE  Prices!apply_discounts(Prices!sql_discounts(d, m, g, time), m, g, time)
           = Prices!apply_discounts(d, m, g, time)
BY SqlDiscounts, AppliedSame

\* Two discounts that stand alone with the same priority.
DiscountTie(d) ==
  \E i, j \in DOMAIN d : /\ i # j /\ ~d[i].stackable /\ ~d[j].stackable
                         /\ d[i].priority = d[j].priority

LEMMA DiscountReordered ==
  ASSUME NEW d, Table(d), \A i \in DOMAIN d : d[i].priority \in Int /\ d[i].value \in Int,
         ~DiscountTie(d), NEW p, Permutes(p, DOMAIN d), NEW m, NEW g, NEW time
  PROVE  Prices!apply_discounts(Shuffled(d, p), m, g, time) = Prices!apply_discounts(d, m, g, time)
<1> DEFINE s == Shuffled(d, p)
           P == Percentages(d, m, g, time)
           A == Alone(d, P)
           Q == Percentages(s, m, g, time)
           B == Alone(s, Q)
           r == Prices!apply_discounts(d, m, g, time)
           q == Prices!apply_discounts(s, m, g, time)
<1>1. /\ DOMAIN s = DOMAIN d /\ \A i \in DOMAIN d : s[i] = d[p[i]] /\ p[i] \in DOMAIN d
      /\ s = [i \in DOMAIN s |-> s[i]]
  BY DEF Shuffled, Permutes
<1>2. Table(s)
  BY <1>1 DEF Table
<1>3. \A i \in DOMAIN s : s[i].priority \in Int /\ s[i].value \in Int
  BY <1>1
<1>4. \A i \in DOMAIN d : (i \in Q <=> p[i] \in P) /\ (i \in B <=> p[i] \in A)
  BY <1>1 DEF Percentages, Alone
<1>5. /\ P \subseteq DOMAIN d /\ Q \subseteq DOMAIN d /\ A \subseteq P /\ B \subseteq Q
      /\ \A i \in A : ~d[i].stackable
  BY <1>1 DEF Percentages, Alone
<1>6. \A k \in DOMAIN d : \E i \in DOMAIN d : p[i] = k
  BY DEF Permutes
<1>7. IF A # {}
      THEN \E i \in A : /\ LastHighest(d, A, i)
                        /\ r = [factor |-> Prices!Times(Prices!One, d[i].value), applied |-> {d[i].id}]
      ELSE r = [factor |-> ProductOf(d)[P], applied |-> {d[i].id : i \in P}]
  BY AppliedIs
<1>8. IF B # {}
      THEN \E i \in B : /\ LastHighest(s, B, i)
                        /\ q = [factor |-> Prices!Times(Prices!One, s[i].value), applied |-> {s[i].id}]
      ELSE q = [factor |-> ProductOf(s)[Q], applied |-> {s[i].id : i \in Q}]
  BY <1>2, <1>3, AppliedIs
<1> HIDE DEF s, P, A, Q, B, r, q
<1>9. {p[i] : i \in Q} = P
  BY <1>4, <1>5, <1>6
<1>10. CASE A # {}
  <2>1. PICK i \in A : /\ LastHighest(d, A, i)
                       /\ r = [factor |-> Prices!Times(Prices!One, d[i].value), applied |-> {d[i].id}]
    BY <1>7, <1>10
  <2>2. PICK k \in DOMAIN d : p[k] = i
    BY <1>5, <1>6, <2>1
  <2>3. k \in B
    BY <1>4, <2>1, <2>2
  <2>4. PICK j \in B : /\ LastHighest(s, B, j)
                       /\ q = [factor |-> Prices!Times(Prices!One, s[j].value), applied |-> {s[j].id}]
    BY <1>8, <2>3
  <2>5. p[j] \in A /\ j \in DOMAIN d /\ s[j] = d[p[j]] /\ s[k] = d[i]
    BY <1>1, <1>4, <1>5, <2>2, <2>4
  <2>6. d[p[j]].priority <= d[i].priority
    BY <1>5, <2>1, <2>5 DEF LastHighest
  <2>7. d[i].priority <= d[p[j]].priority
    <3>1. s[k].priority < s[j].priority \/ s[k].priority = s[j].priority
      BY <2>3, <2>4 DEF LastHighest
    <3>2. d[i].priority \in Int /\ d[p[j]].priority \in Int
      BY <1>5, <2>1, <2>5
    <3>3. d[i].priority < d[p[j]].priority \/ d[i].priority = d[p[j]].priority
      BY <2>5, <3>1
    <3>4. QED
      BY <3>2, <3>3
  <2>8. d[i].priority \in Int /\ d[p[j]].priority \in Int /\ i \in DOMAIN d /\ p[j] \in DOMAIN d
    BY <1>5, <2>1, <2>5
  <2>9. d[i].priority = d[p[j]].priority
    BY <2>6, <2>7, <2>8
  <2>10. i = p[j]
    BY <1>5, <2>1, <2>5, <2>8, <2>9 DEF DiscountTie
  <2>11. QED
    BY <2>1, <2>4, <2>5, <2>10 DEF r, q, s
<1>11. CASE A = {}
  <2>1. B = {}
    BY <1>4, <1>5, <1>11
  <2>2. ProductOf(s)[Q] = ProductOf(d)[P]
    <3>1. \A i \in Q : d[p[i]].value \in Int
      BY <1>1, <1>5
    <3>2. ProductOf(s)[Q] = ProductOf(d)[{p[i] : i \in Q}]
      <4>1. /\ IsFiniteSet(DOMAIN d) /\ p \in [DOMAIN d -> DOMAIN d]
            /\ \A i, j \in DOMAIN d : p[i] = p[j] => i = j
        BY DEF Permutes, Table
      <4>2. Q \in SUBSET DOMAIN d /\ DOMAIN s = DOMAIN d /\ \A i \in DOMAIN d : s[i] = d[p[i]]
        BY <1>1, <1>5
      <4>3. QED
        BY <3>1, <4>1, <4>2, ProductReordered
    <3>3. QED
      BY <1>9, <3>2
  <2>3. {s[i].id : i \in Q} = {d[i].id : i \in P}
    <3>1. \A i \in Q : s[i] = d[p[i]] /\ p[i] \in P
      BY <1>1, <1>4, <1>5
    <3>2. \A k \in P : \E i \in Q : p[i] = k
      BY <1>9
    <3>3. QED
      BY <3>1, <3>2
  <2>4. QED
    BY <1>7, <1>8, <1>11, <2>1, <2>2, <2>3 DEF r, q, s
<1>12. QED
  BY <1>10, <1>11

-----------------------------------------------------------------------------
(* Sums over the domain of a function, as the folds of Pricing and Routing    *)
(* build them.                                                                *)

IsSum(v, f) ==
  f = [s \in SUBSET DOMAIN v |-> IF s = {} THEN 0 ELSE v[Pick(s)] + f[s \ {Pick(s)}]]
SumOf(v) == CHOOSE f : IsSum(v, f)

LEMMA SumIs ==
  ASSUME NEW v
  PROVE  Prices!FoldFunction(+, 0, v) = SumOf(v)[DOMAIN v]
BY DEF Prices!FoldFunction, Prices!FoldFunctionOnSet, Prices!MapThenFoldSet, IsSum, SumOf, Pick

LEMMA SumExists ==
  ASSUME NEW v, IsFiniteSet(DOMAIN v)
  PROVE  \E f : IsSum(v, f)
<1> DEFINE D == DOMAIN v
           Body(f, s) == IF s = {} THEN 0 ELSE v[Pick(s)] + f[s \ {Pick(s)}]
           Good(n) == \E f : f = [s \in {t \in SUBSET D : Cardinality(t) <= n} |-> Body(f, s)]
           Bad == {n \in Nat : ~Good(n)}
<1>1. \A s \in SUBSET D : IsFiniteSet(s) /\ Cardinality(s) \in Nat /\ Cardinality(s) <= Cardinality(D)
  BY FS_Subset, FS_CardinalityType
<1>2. \A s \in SUBSET D : s # {} => /\ Pick(s) \in s
                                    /\ Cardinality(s \ {Pick(s)}) = Cardinality(s) - 1
  BY <1>1, FS_RemoveElement DEF Pick
<1>3. Bad = {}
  <2> SUFFICES ASSUME Bad # {} PROVE FALSE
    OBVIOUS
  <2>1. PICK n \in Bad : \A k \in Bad : ~(<<k, n>> \in OpToRel(<, Nat))
    BY NatLessThanWellFounded, WFMin
  <2>2. CASE n = 0
    <3> DEFINE Z == {t \in SUBSET D : Cardinality(t) <= 0}
               f == [s \in Z |-> 0]
    <3>1. \A s \in Z : s = {}
      BY <1>1, FS_EmptySet
    <3>2. f = [s \in Z |-> Body(f, s)]
      BY <3>1
    <3>3. Good(0)
      BY <3>2
    <3>4. QED
      BY <2>1, <2>2, <3>3
  <2>3. CASE n # 0
    <3>1. n - 1 \in Nat /\ n - 1 \notin Bad
      <4>1. n \in Nat /\ n - 1 \in Nat
        BY <2>3
      <4>2. <<n - 1, n>> \in OpToRel(<, Nat)
        BY <4>1 DEF OpToRel
      <4> HIDE DEF Bad
      <4>3. QED
        BY <2>1, <4>1, <4>2
    <3> DEFINE Small == {t \in SUBSET D : Cardinality(t) <= n - 1}
               Large == {t \in SUBSET D : Cardinality(t) <= n}
    <3>2. PICK f : f = [s \in Small |-> Body(f, s)]
      BY <3>1
    <3> DEFINE g == [s \in Large |-> Body(f, s)]
    <3> HIDE DEF Body
    <3>3. \A s \in Small : s \in Large /\ g[s] = f[s]
      <4>1. \A s \in Small : s \in Large
        BY <1>1, <3>1
      <4>2. \A s \in Small : g[s] = Body(f, s) /\ f[s] = Body(f, s)
        BY <3>2, <4>1
      <4>3. QED
        BY <4>1, <4>2
    <3> HIDE DEF g
    <3>4. \A s \in Large : Body(f, s) = Body(g, s)
      <4>1. \A s \in Large : s # {} => s \ {Pick(s)} \in Small
        BY <1>1, <1>2, <3>1
      <4>2. QED
        BY <3>3, <4>1 DEF Body
    <3>5. g = [s \in Large |-> Body(g, s)]
      BY <3>4 DEF g
    <3>6. Good(n)
      BY <3>5
    <3>7. QED
      BY <2>1, <3>6
  <2>4. QED
    BY <2>2, <2>3
<1>4. Good(Cardinality(D))
  BY <1>1, <1>3
<1>5. {t \in SUBSET D : Cardinality(t) <= Cardinality(D)} = SUBSET D
  BY <1>1
<1>6. QED
  BY <1>4, <1>5 DEF IsSum

LEMMA SumStep ==
  ASSUME NEW v, IsFiniteSet(DOMAIN v), NEW s \in SUBSET DOMAIN v
  PROVE  SumOf(v)[s] = IF s = {} THEN 0 ELSE v[Pick(s)] + SumOf(v)[s \ {Pick(s)}]
<1> DEFINE f == SumOf(v)
<1>1. IsSum(v, f)
  BY SumExists DEF SumOf
<1> HIDE DEF f
<1>2. QED
  BY <1>1 DEF IsSum, f

LEMMA SumNat ==
  ASSUME NEW v, IsFiniteSet(DOMAIN v), \A i \in DOMAIN v : v[i] \in Nat, NEW S \in SUBSET DOMAIN v
  PROVE  SumOf(v)[S] \in Nat
<1> DEFINE f == SumOf(v)
           Bad == {s \in SUBSET S : f[s] \notin Nat}
<1>1. IsFiniteSet(S)
  BY FS_Subset
<1>2. \A s \in SUBSET S : f[s] = IF s = {} THEN 0 ELSE v[Pick(s)] + f[s \ {Pick(s)}]
  BY SumStep
<1> HIDE DEF f
<1>3. Bad = {}
  <2> SUFFICES ASSUME Bad # {} PROVE FALSE
    OBVIOUS
  <2>1. PICK s \in Bad : \A u \in SUBSET s : u # s => u \notin Bad
    <3>1. Bad \in SUBSET SUBSET S
      OBVIOUS
    <3> HIDE DEF Bad
    <3>2. QED
      BY <1>1, <3>1, SmallestSet
  <2>2. s # {}
    <3>1. f[{}] = 0
      BY <1>2
    <3>2. {} \notin Bad
      BY <3>1
    <3>3. QED
      BY <2>1, <3>2
  <2>3. Pick(s) \in s
    BY <2>2 DEF Pick
  <2>4. f[s \ {Pick(s)}] \in Nat
    BY <2>1, <2>3
  <2>5. v[Pick(s)] \in Nat
    BY <2>1, <2>3
  <2>6. f[s] \in Nat
    BY <1>2, <2>1, <2>2, <2>4, <2>5
  <2>7. QED
    BY <2>1, <2>6
<1>4. QED
  BY <1>3 DEF f

-----------------------------------------------------------------------------
(* Charging. *)

LEMMA ChargedNat ==
  ASSUME NEW a, \A k \in DOMAIN a : a[k] \in Nat, NEW q, IsFiniteSet(DOMAIN q),
         \A k \in DOMAIN q : q[k] \in Nat
  PROVE  Prices!Charged(a, q) \in Nat
<1> DEFINE D == DOMAIN q \cap DOMAIN a
           v == [k \in D |-> q[k] * a[k]]
<1>1. Prices!Charged(a, q) = Prices!FoldFunction(+, 0, v)
  BY DEF Prices!Charged
<1>2. IsFiniteSet(D)
  BY FS_Subset
<1>3. \A k \in D : q[k] * a[k] \in Nat
  OBVIOUS
<1>4. DOMAIN v = D /\ \A k \in D : v[k] \in Nat
  BY <1>3
<1> HIDE DEF v, D
<1>5. SumOf(v)[DOMAIN v] \in Nat
  BY <1>2, <1>4, SumNat
<1>6. QED
  BY <1>1, <1>5, SumIs

LEMMA DiscountedIsLess ==
  ASSUME NEW a, NEW q, Prices!Charged(a, q) \in Nat,
         NEW x \in Fraction, 0 <= x.num, x.num <= x.den, 0 < x.den
  PROVE  /\ 0 <= Prices!charge_discounted(a, x, q)
         /\ Prices!charge_discounted(a, x, q) <= Prices!compute_charge(a, q)
<1> DEFINE c == Prices!Charged(a, q)
           n == x.num
           d == x.den
<1>1. n \in Nat /\ d \in Nat \ {0} /\ n <= d
  BY DEF Fraction
<1>2. /\ Prices!charge_discounted(a, x, q) = Prices!round_dp(c * n, 10 * d)
      /\ Prices!compute_charge(a, q) = Prices!round_dp(c, 10)
  BY DEF Prices!charge_discounted, Prices!compute_charge
<1>3. c \in Nat
  OBVIOUS
<1> HIDE DEF c, n, d
<1>4. c * n \in Nat /\ 10 * d \in Nat \ {0}
  BY <1>1, <1>3
<1>5. (c * n) * 10 <= c * (10 * d)
  <2>1. c * n <= c * d
    BY <1>1, <1>3
  <2>2. (c * n) * 10 <= (c * d) * 10
    <3>1. c * n \in Nat /\ c * d \in Nat
      BY <1>1, <1>3
    <3>2. QED
      BY <2>1, <3>1
  <2>3. (c * d) * 10 = c * (10 * d)
    BY <1>1, <1>3
  <2>4. QED
    BY <2>2, <2>3
<1>6. Prices!round_dp(c * n, 10 * d) <= Prices!round_dp(c, 10)
  BY <1>3, <1>4, <1>5, RoundOrder
<1>7. Prices!round_dp(c * n, 10 * d) \in Nat
  BY <1>4, RoundBetween
<1>8. QED
  BY <1>2, <1>6, <1>7

\* The factor is a fraction between 0 and 1, and the ids are those of rows.
LEMMA FactorFits ==
  ASSUME NEW d, Table(d), NEW m, NEW g, NEW time,
         \A i \in DOMAIN d : /\ d[i].priority \in Int
                             /\ d[i].kind = "percentage" => d[i].value \in 1..10
  PROVE  LET r == Prices!apply_discounts(d, m, g, time)
         IN /\ r.factor \in Fraction /\ 0 <= r.factor.num /\ r.factor.num <= r.factor.den
            /\ 0 < r.factor.den
            /\ r.applied \subseteq {d[i].id : i \in DOMAIN d}
            /\ r = [factor |-> r.factor, applied |-> r.applied]
<1> DEFINE P == Percentages(d, m, g, time)
           A == Alone(d, P)
           r == Prices!apply_discounts(d, m, g, time)
<1>1. P \subseteq DOMAIN d /\ A \subseteq P /\ \A i \in P : d[i].value \in 1..10
  <2>1. P \subseteq DOMAIN d /\ A \subseteq P
    BY DEF Percentages, Alone
  <2>2. \A i \in P : i \in DOMAIN d /\ d[i].kind = "percentage"
    BY DEF Percentages
  <2> HIDE DEF P
  <2>3. \A i \in P : d[i].value \in 1..10
    BY <2>2
  <2>4. QED
    BY <2>1, <2>3
<1>2. IF A # {}
      THEN \E i \in A : /\ LastHighest(d, A, i)
                        /\ r = [factor |-> Prices!Times(Prices!One, d[i].value), applied |-> {d[i].id}]
      ELSE r = [factor |-> ProductOf(d)[P], applied |-> {d[i].id : i \in P}]
  <2>1. \A i \in DOMAIN d : d[i].priority \in Int
    OBVIOUS
  <2>2. QED
    BY <2>1, AppliedIs
<1> DEFINE Fits(x) == x \in Fraction /\ 0 <= x.num /\ x.num <= x.den /\ 0 < x.den
<1>3. \A a \in 1..10 : Fits(Prices!Times(Prices!One, a))
  <2>1. Fits(Prices!One)
    BY DEF Prices!One, Fraction
  <2> SUFFICES ASSUME NEW a \in 1..10 PROVE Fits(Prices!Times(Prices!One, a))
    OBVIOUS
  <2>2. Prices!Times(Prices!One, a) \in Fraction
    BY <2>1, TimesType
  <2>3. QED
    BY <2>1, <2>2, TimesShrinks
<1>4. Fits(ProductOf(d)[P])
  <2>1. IsFiniteSet(DOMAIN d)
    BY DEF Table
  <2>2. QED
    BY <1>1, <2>1, ProductShrinks
<1> HIDE DEF P, A, r, Fits
<1>5. Fits(r.factor) /\ r.applied \subseteq {d[i].id : i \in DOMAIN d}
      /\ r = [factor |-> r.factor, applied |-> r.applied]
  <2>1. CASE A # {}
    <3>1. PICK i \in A : r = [factor |-> Prices!Times(Prices!One, d[i].value), applied |-> {d[i].id}]
      BY <1>2, <2>1
    <3>2. i \in DOMAIN d /\ d[i].value \in 1..10
      BY <1>1
    <3>3. QED
      BY <1>3, <3>1, <3>2
  <2>2. CASE A = {}
    BY <1>1, <1>2, <1>4, <2>2
  <2>3. QED
    BY <2>1, <2>2
<1>6. QED
  BY <1>5 DEF r, Fits

\* The rows with the ids applied are those whose product the factor is.
LEMMA FactorExplained ==
  ASSUME NEW d, Table(d), NEW m, NEW g, NEW time, \A i \in DOMAIN d : d[i].priority \in Int,
         \A i, j \in DOMAIN d : d[i].id = d[j].id => i = j,
         NEW r, r = Prices!apply_discounts(d, m, g, time),
         NEW table, DOMAIN table = {i \in DOMAIN d : d[i].id \in r.applied},
         \A i \in DOMAIN table : table[i] = d[i]
  PROVE  /\ r.factor = Prices!Product(table)
         /\ (\E i \in DOMAIN table : ~table[i].stackable) => \E k : r.applied = {k}
<1> DEFINE P == Percentages(d, m, g, time)
           A == Alone(d, P)
           Q == {i \in DOMAIN d : d[i].id \in r.applied}
<1>1. P \subseteq DOMAIN d /\ A \subseteq P
  BY DEF Percentages, Alone
<1>2. IF A # {}
      THEN \E i \in A : /\ LastHighest(d, A, i)
                        /\ r = [factor |-> Prices!Times(Prices!One, d[i].value), applied |-> {d[i].id}]
      ELSE r = [factor |-> ProductOf(d)[P], applied |-> {d[i].id : i \in P}]
  BY AppliedIs
<1>4. IsFiniteSet(Q) /\ IsFiniteSet(DOMAIN d) /\ Q \subseteq DOMAIN d
  BY FS_Subset DEF Table
<1>5. Prices!Product(table) = ProductOf(table)[DOMAIN table]
  BY ProductIs DEF ProductOf
<1>6. DOMAIN table = Q /\ \A i \in Q : table[i] = d[i]
  OBVIOUS
<1>7. Q = {i \in DOMAIN d : d[i].id \in r.applied}
  OBVIOUS
<1>8. \A i \in P \ A : d[i].stackable
  BY DEF Alone
<1> HIDE DEF P, A, Q
<1>9. Prices!Product(table) = ProductOf(d)[Q]
  <2>1. DOMAIN table = Q /\ IsFiniteSet(DOMAIN table) /\ Q \subseteq DOMAIN table
    BY <1>4, <1>6
  <2>2. \A i \in Q : table[i].value = d[i].value
    BY <1>6
  <2>3. ProductOf(table)[Q] = ProductOf(d)[Q]
    BY <1>4, <2>1, <2>2, ProductLocal
  <2>4. QED
    BY <1>5, <2>1, <2>3
<1>10. CASE A # {}
  <2>1. PICK i \in A : r = [factor |-> Prices!Times(Prices!One, d[i].value), applied |-> {d[i].id}]
    BY <1>2, <1>10
  <2>2. r.factor = Prices!Times(Prices!One, d[i].value) /\ r.applied = {d[i].id}
    BY <2>1
  <2>3. Q = {i}
    BY <1>1, <1>7, <2>2
  <2>4. ProductOf(d)[{i}] = Prices!Times(Prices!One, d[i].value)
    <3>1. Pick({i}) = i /\ {i} \ {i} = {} /\ {i} \in SUBSET DOMAIN d /\ {} \in SUBSET DOMAIN d
      BY <1>1 DEF Pick
    <3>2. ProductOf(d)[{}] = Prices!One
      BY <1>4, <3>1, ProductStep
    <3>3. ProductOf(d)[{i}] = Prices!Times(ProductOf(d)[{i} \ {Pick({i})}], d[Pick({i})].value)
      BY <1>4, <3>1, ProductStep
    <3>4. QED
      BY <3>1, <3>2, <3>3
  <2>5. QED
    BY <1>9, <2>2, <2>3, <2>4
<1>11. CASE A = {}
  <2>1. r = [factor |-> ProductOf(d)[P], applied |-> {d[i].id : i \in P}]
    BY <1>2, <1>11
  <2>2. r.factor = ProductOf(d)[P] /\ r.applied = {d[i].id : i \in P}
    BY <2>1
  <2>3. Q = P
    BY <1>1, <1>7, <2>2
  <2>4. \A i \in DOMAIN table : table[i].stackable
    BY <1>6, <1>8, <1>11, <2>3
  <2>5. QED
    BY <1>9, <2>2, <2>3, <2>4
<1>12. QED
  BY <1>10, <1>11

-----------------------------------------------------------------------------
(* The bill of a call, from any tables the administrator's handlers allow.    *)

PricesGood(t, R) ==
  /\ Table(t)
  /\ \A i \in DOMAIN t : /\ t[i] \in R /\ t[i].version \in Int
                         /\ \A k \in DOMAIN t[i].amounts : t[i].amounts[k] \in Nat

DiscountsGood(d) ==
  /\ Table(d)
  /\ \A i \in DOMAIN d : /\ d[i].id = i /\ d[i].scope \in Prices!Scopes
                         /\ d[i].priority \in Int /\ d[i].value \in Int
                         /\ d[i].kind = "percentage" => d[i].value \in 1..10

\* None is neither a price, nor what a resolution or a usage gives.
NoneApart(R) ==
  /\ None \notin R /\ None \notin [input : Int, output : Int]
  /\ None \notin [price : R, factor : Fraction, applied : SUBSET Nat]

\* The group whose price counts.
Paying(groups, g) == IF g \in groups THEN g ELSE None

ResolvedAs(p, d) == [price |-> p, factor |-> d.factor, applied |-> d.applied]

LEMMA ResolutionIs ==
  ASSUME NEW R, NoneApart(R), NEW t, PricesGood(t, R), NEW d, DiscountsGood(d),
         NEW m, NEW groups, NEW g, NEW time
  PROVE  LET h == Paying(groups, g)
             C == Eligible(t, h, time)
             r == Prices!resolve_price_by_group_id(t, d, m, groups, g, time)
         IN IF C = {} THEN r = None
            ELSE /\ r # None
                 /\ \E i \in C : /\ BestLast(t, h, C, i)
                                 /\ r = ResolvedAs(t[i], Prices!apply_discounts(d, m, h, time))
<1> DEFINE h == Paying(groups, g)
           C == Eligible(t, h, time)
           r == Prices!resolve_price_by_group_id(t, d, m, groups, g, time)
           price == Prices!select_price(Prices!sql_prices(t, h, time), h, time)
           off == Prices!apply_discounts(Prices!sql_discounts(d, m, h, time), m, h, time)
           all == Prices!apply_discounts(d, m, h, time)
<1>1. r = IF price = None THEN None ELSE ResolvedAs(price, off)
  BY DEF Prices!resolve_price_by_group_id, Prices!resolve_for, Paying, ResolvedAs
<1>2. Table(t) /\ \A i \in DOMAIN t : t[i].version \in Int
  BY DEF PricesGood
<1>3. price = Prices!select_price(t, h, time)
  <2> HIDE DEF h
  <2>1. QED
    BY <1>2, SqlAgreesOnPrice
<1>4. off = all
  <2>1. Table(d) /\ \A i \in DOMAIN d : d[i].scope \in Prices!Scopes /\ d[i].priority \in Int
    BY DEF DiscountsGood
  <2> HIDE DEF h
  <2>2. QED
    BY <2>1, SqlAgreesOnDiscounts
<1>5. IF C = {} THEN price = None ELSE \E i \in C : price = t[i] /\ BestLast(t, h, C, i)
  <2> HIDE DEF h
  <2>1. QED
    BY <1>2, <1>3, SelectIsBest
<1>6. \A i \in C : t[i] \in R
  BY DEF Eligible, PricesGood
<1>7. all.factor \in Fraction /\ all.applied \in SUBSET Nat
  <2>1. /\ Table(d)
        /\ \A i \in DOMAIN d : /\ d[i].priority \in Int
                               /\ d[i].kind = "percentage" => d[i].value \in 1..10
    BY DEF DiscountsGood
  <2>2. {d[i].id : i \in DOMAIN d} \subseteq Nat
    BY DEF DiscountsGood, Table
  <2> HIDE DEF h
  <2>3. all.factor \in Fraction /\ all.applied \subseteq {d[i].id : i \in DOMAIN d}
    BY <2>1, FactorFits
  <2>4. QED
    BY <2>2, <2>3
<1> HIDE DEF h, C, r, price, off, all
<1>8. \A p \in R : p # None /\ ResolvedAs(p, all) # None
  <2>1. \A p \in R : ResolvedAs(p, all) \in [price : R, factor : Fraction, applied : SUBSET Nat]
    BY <1>7 DEF ResolvedAs
  <2>2. QED
    BY <2>1 DEF NoneApart
<1>9. CASE C = {}
  BY <1>1, <1>5, <1>9 DEF h, C, r
<1>10. CASE C # {}
  <2>1. PICK i \in C : price = t[i] /\ BestLast(t, h, C, i)
    BY <1>5, <1>10
  <2>2. r = ResolvedAs(t[i], all) /\ r # None
    BY <1>1, <1>4, <1>6, <1>8, <2>1
  <2>3. QED
    BY <1>10, <2>1, <2>2 DEF h, C, r, all
<1>11. QED
  BY <1>9, <1>10

BillOf(t, d, m, groups, g, time, u) ==
  LET r == Prices!resolve_price_by_group_id(t, d, m, groups, g, time)
      q == Prices!extract_token_usage(u)
  IN IF r = None \/ q = None THEN [bill |-> FALSE]
     ELSE [bill |-> TRUE, price |-> r.price, factor |-> r.factor, applied |-> r.applied,
           base |-> Prices!compute_charge(r.price.amounts, q),
           charged |-> Prices!charge_discounted(r.price.amounts, r.factor, q)]

UsageGood(u) == u.prompt \in Int \cup {None} /\ u.completion \in Int \cup {None}

LEMMA QuantityIs ==
  ASSUME NEW R, NoneApart(R), NEW u, UsageGood(u)
  PROVE  LET q == Prices!extract_token_usage(u)
         IN IF u.prompt = None /\ u.completion = None THEN q = None
            ELSE q # None /\ q \in [input : Nat, output : Nat]
<1> DEFINE Clamp(n) == IF n = None \/ n < 0 THEN 0 ELSE n
           q == Prices!extract_token_usage(u)
<1>1. \A n \in Int \cup {None} : Clamp(n) \in Nat
  OBVIOUS
<1>2. q = IF u.prompt = None /\ u.completion = None THEN None
          ELSE [input |-> Clamp(u.prompt), output |-> Clamp(u.completion)]
  BY DEF Prices!extract_token_usage
<1>3. Clamp(u.prompt) \in Nat /\ Clamp(u.completion) \in Nat
  BY <1>1 DEF UsageGood
<1> HIDE DEF Clamp, q
<1>4. CASE u.prompt = None /\ u.completion = None
  BY <1>2, <1>4 DEF q
<1>5. CASE ~(u.prompt = None /\ u.completion = None)
  <2>1. q \in [input : Nat, output : Nat]
    BY <1>2, <1>3, <1>5
  <2>2. q \in [input : Int, output : Int]
    BY <2>1
  <2>3. QED
    BY <1>5, <2>1, <2>2 DEF q, NoneApart
<1>6. QED
  BY <1>4, <1>5

LEMMA BillIs ==
  ASSUME NEW R, NoneApart(R), NEW t, PricesGood(t, R), NEW d, DiscountsGood(d),
         NEW m, NEW groups, NEW g, NEW time, NEW u, UsageGood(u)
  PROVE  LET h == Paying(groups, g)
             C == Eligible(t, h, time)
             off == Prices!apply_discounts(d, m, h, time)
             q == Prices!extract_token_usage(u)
             b == BillOf(t, d, m, groups, g, time, u)
         IN IF C = {} \/ (u.prompt = None /\ u.completion = None)
            THEN b = [bill |-> FALSE]
            ELSE \E i \in C :
                   /\ BestLast(t, h, C, i)
                   /\ b = [bill |-> TRUE, price |-> t[i], factor |-> off.factor,
                           applied |-> off.applied,
                           base |-> Prices!compute_charge(t[i].amounts, q),
                           charged |-> Prices!charge_discounted(t[i].amounts, off.factor, q)]
<1> DEFINE h == Paying(groups, g)
           C == Eligible(t, h, time)
           off == Prices!apply_discounts(d, m, h, time)
           q == Prices!extract_token_usage(u)
           r == Prices!resolve_price_by_group_id(t, d, m, groups, g, time)
           b == BillOf(t, d, m, groups, g, time, u)
<1>1. b = IF r = None \/ q = None THEN [bill |-> FALSE]
          ELSE [bill |-> TRUE, price |-> r.price, factor |-> r.factor, applied |-> r.applied,
                base |-> Prices!compute_charge(r.price.amounts, q),
                charged |-> Prices!charge_discounted(r.price.amounts, r.factor, q)]
  BY DEF BillOf
<1>2. IF C = {} THEN r = None
      ELSE /\ r # None
           /\ \E i \in C : BestLast(t, h, C, i) /\ r = ResolvedAs(t[i], off)
  BY ResolutionIs
<1>3. IF u.prompt = None /\ u.completion = None THEN q = None ELSE q # None
  BY QuantityIs
<1> HIDE DEF h, C, off, q, r, b
<1>4. CASE C = {} \/ (u.prompt = None /\ u.completion = None)
  <2>1. b = [bill |-> FALSE]
    BY <1>1, <1>2, <1>3, <1>4
  <2>2. QED
    BY <1>4, <2>1 DEF h, C, b
<1>5. CASE ~(C = {} \/ (u.prompt = None /\ u.completion = None))
  <2>1. PICK i \in C : BestLast(t, h, C, i) /\ r = ResolvedAs(t[i], off)
    BY <1>2, <1>5
  <2>2. r.price = t[i] /\ r.factor = off.factor /\ r.applied = off.applied
    BY <2>1 DEF ResolvedAs
  <2>3. b = [bill |-> TRUE, price |-> t[i], factor |-> off.factor, applied |-> off.applied,
             base |-> Prices!compute_charge(t[i].amounts, q),
             charged |-> Prices!charge_discounted(t[i].amounts, off.factor, q)]
    BY <1>1, <1>2, <1>3, <1>5, <2>2
  <2>4. QED
    BY <1>5, <2>1, <2>3 DEF h, C, off, q, b
<1>6. QED
  BY <1>4, <1>5

\* The last best of the candidates is the newest of the tier the group pays in.
ValidRows(t, h, time) ==
  {t[i] : i \in {j \in DOMAIN t : t[j].group = h /\ Prices!is_valid_at(t[j], time)}}

LEMMA BestOfTier ==
  ASSUME NEW t, NEW h, NEW time, \A i \in DOMAIN t : t[i].version \in Int,
         NEW i \in Eligible(t, h, time), BestLast(t, h, Eligible(t, h, time), i)
  PROVE  LET tier == IF h # None /\ ValidRows(t, h, time) # {}
                     THEN ValidRows(t, h, time) ELSE ValidRows(t, None, time)
         IN t[i] \in tier /\ \A p \in tier : p.version <= t[i].version
<1> DEFINE C == Eligible(t, h, time)
           Own == ValidRows(t, h, time)
           Default == ValidRows(t, None, time)
<1>1. \A p \in Own \cup Default : \E j \in C : p = t[j]
  BY DEF ValidRows, Eligible
<1>2. \A j \in C : t[j].group = h => t[j] \in Own
  BY DEF ValidRows, Eligible
<1>3. \A j \in C : t[j].group = None => t[j] \in Default
  BY DEF ValidRows, Eligible
<1>4. /\ \A p \in Own : p.group = h
      /\ \A p \in Default : p.group = None
  BY DEF ValidRows
<1>5. \A j \in C : t[j].group \in {None, h} /\ t[j].version \in Int
  BY DEF Eligible
<1>6. \A j \in C : \/ Prices!rank(t[j], h) < Prices!rank(t[i], h)
                   \/ Prices!rank(t[j], h) = Prices!rank(t[i], h) /\ t[j].version <= t[i].version
  BY DEF BestLast, Prices!NotAfter
<1> HIDE DEF C, Own, Default
<1>7. i \in C
  BY DEF C
<1>8. CASE h # None /\ Own # {}
  <2>1. PICK p \in Own : TRUE
    BY <1>8
  <2>2. PICK j \in C : p = t[j]
    BY <1>1, <2>1
  <2>3. Prices!rank(t[j], h) = 1 /\ Prices!rank(t[i], h) \in 0..1
    BY <1>4, <1>8, <2>1, <2>2 DEF Prices!rank
  <2>4. Prices!rank(t[i], h) = 1
    BY <1>6, <2>2, <2>3
  <2>5. t[i].group = h
    BY <2>4 DEF Prices!rank
  <2>6. t[i] \in Own
    BY <1>2, <1>7, <2>5
  <2>7. ASSUME NEW x \in Own PROVE x.version <= t[i].version
    <3>1. PICK k \in C : x = t[k]
      BY <1>1
    <3>2. Prices!rank(t[k], h) = 1
      BY <1>4, <1>8, <3>1 DEF Prices!rank
    <3>3. QED
      BY <1>6, <2>4, <3>1, <3>2
  <2>8. QED
    BY <1>8, <2>6, <2>7 DEF Own, Default
<1>9. CASE ~(h # None /\ Own # {})
  <2>1. t[i].group = None
    BY <1>2, <1>5, <1>7, <1>9
  <2>2. t[i] \in Default
    BY <1>3, <1>7, <2>1
  <2>3. Prices!rank(t[i], h) = 0
    BY <2>1 DEF Prices!rank
  <2>4. ASSUME NEW x \in Default PROVE x.version <= t[i].version
    <3>1. PICK k \in C : x = t[k]
      BY <1>1
    <3>2. Prices!rank(t[k], h) = 0
      BY <1>4, <3>1 DEF Prices!rank
    <3>3. QED
      BY <1>6, <2>3, <3>1, <3>2
  <2>5. QED
    BY <1>9, <2>2, <2>4 DEF Own, Default
<1>10. QED
  BY <1>8, <1>9

\* Without a tie the order of the rows does not show in what is resolved.
LEMMA ResolvedReordered ==
  ASSUME NEW R, NEW t, PricesGood(t, R), ~PriceTie(t), NEW p, Permutes(p, DOMAIN t),
         NEW d, DiscountsGood(d), ~DiscountTie(d), NEW o, Permutes(o, DOMAIN d),
         NEW m, NEW groups, NEW g, NEW time
  PROVE  Prices!resolve_price_by_group_id(Shuffled(t, p), Shuffled(d, o), m, groups, g, time)
           = Prices!resolve_price_by_group_id(t, d, m, groups, g, time)
<1> DEFINE h == IF g \in groups THEN g ELSE None
           s == Shuffled(t, p)
           e == Shuffled(d, o)
<1>1. Table(t) /\ \A i \in DOMAIN t : t[i].version \in Int
  BY DEF PricesGood
<1>2. Table(s) /\ \A i \in DOMAIN s : s[i].version \in Int
  BY <1>1 DEF Table, Shuffled, Permutes
<1>3. /\ Table(d)
      /\ \A i \in DOMAIN d : /\ d[i].scope \in Prices!Scopes
                             /\ d[i].priority \in Int /\ d[i].value \in Int
  BY DEF DiscountsGood
<1>4. Table(e) /\ \A i \in DOMAIN e : e[i].scope \in Prices!Scopes /\ e[i].priority \in Int
  BY <1>3 DEF Table, Shuffled, Permutes
<1>5. Prices!select_price(s, h, time) = Prices!select_price(t, h, time)
  BY <1>1, PriceReordered
<1>6. Prices!apply_discounts(e, m, h, time) = Prices!apply_discounts(d, m, h, time)
  BY <1>3, DiscountReordered
<1> HIDE DEF h, s, e
<1>7. Prices!select_price(Prices!sql_prices(s, h, time), h, time)
        = Prices!select_price(Prices!sql_prices(t, h, time), h, time)
  <2>1. Prices!select_price(Prices!sql_prices(s, h, time), h, time) = Prices!select_price(s, h, time)
    BY <1>2, SqlAgreesOnPrice
  <2>2. Prices!select_price(Prices!sql_prices(t, h, time), h, time) = Prices!select_price(t, h, time)
    BY <1>1, SqlAgreesOnPrice
  <2>3. QED
    BY <1>5, <2>1, <2>2
<1>8. Prices!apply_discounts(Prices!sql_discounts(e, m, h, time), m, h, time)
        = Prices!apply_discounts(Prices!sql_discounts(d, m, h, time), m, h, time)
  <2>1. Prices!apply_discounts(Prices!sql_discounts(e, m, h, time), m, h, time)
          = Prices!apply_discounts(e, m, h, time)
    BY <1>4, SqlAgreesOnDiscounts
  <2>2. Prices!apply_discounts(Prices!sql_discounts(d, m, h, time), m, h, time)
          = Prices!apply_discounts(d, m, h, time)
    BY <1>3, SqlAgreesOnDiscounts
  <2>3. QED
    BY <1>6, <2>1, <2>2
<1>9. Prices!resolve_for(s, e, m, h, time) = Prices!resolve_for(t, d, m, h, time)
  BY <1>7, <1>8 DEF Prices!resolve_for
<1>10. QED
  BY <1>9 DEF Prices!resolve_price_by_group_id, h, s, e

\* A bill repeats what was resolved.
LEMMA BillRepeats ==
  ASSUME NEW R, NoneApart(R), NEW t, PricesGood(t, R), NEW d, DiscountsGood(d),
         NEW m, NEW groups, NEW g, NEW time, NEW u, BillOf(t, d, m, groups, g, time, u).bill
  PROVE  LET b == BillOf(t, d, m, groups, g, time, u)
         IN Prices!resolve_price_by_group_id(t, d, m, groups, g, time)
              = [price |-> b.price, factor |-> b.factor, applied |-> b.applied]
<1> DEFINE r == Prices!resolve_price_by_group_id(t, d, m, groups, g, time)
           q == Prices!extract_token_usage(u)
           b == BillOf(t, d, m, groups, g, time, u)
           h == Paying(groups, g)
           C == Eligible(t, h, time)
           off == Prices!apply_discounts(d, m, h, time)
<1>1. IF C = {} THEN r = None
      ELSE /\ r # None
           /\ \E i \in C : BestLast(t, h, C, i) /\ r = ResolvedAs(t[i], off)
  BY ResolutionIs
<1>2. b = IF r = None \/ q = None THEN [bill |-> FALSE]
          ELSE [bill |-> TRUE, price |-> r.price, factor |-> r.factor, applied |-> r.applied,
                base |-> Prices!compute_charge(r.price.amounts, q),
                charged |-> Prices!charge_discounted(r.price.amounts, r.factor, q)]
  BY DEF BillOf
<1> HIDE DEF r, q, b, h, C, off
<1>3. b.bill
  BY DEF b
<1>4. r # None /\ b.price = r.price /\ b.factor = r.factor /\ b.applied = r.applied
  BY <1>2, <1>3
<1>5. r = [price |-> r.price, factor |-> r.factor, applied |-> r.applied]
  BY <1>1, <1>4 DEF ResolvedAs
<1>6. r = [price |-> b.price, factor |-> b.factor, applied |-> b.applied]
  BY <1>4, <1>5
<1>7. QED
  BY <1>6 DEF r, b

-----------------------------------------------------------------------------
(* One price of two, as the cases of MCFunctions have it.                     *)

LEMMA SelectingPrices ==
  /\ \A t, g, x : Selecting!select_price(t, g, x) = Prices!select_price(t, g, x)
  /\ \A t, g, x : Selecting!sql_prices(t, g, x) = Prices!sql_prices(t, g, x)
<1>1. \A t, g, x : Selecting!select_price(t, g, x) = Prices!select_price(t, g, x)
  BY DEF Selecting!select_price, Selecting!is_valid_at, Selecting!NotAfter, Selecting!rank,
     Prices!select_price, Prices!is_valid_at, Prices!NotAfter, Prices!rank
<1>2. \A t, g, x : Selecting!sql_prices(t, g, x) = Prices!sql_prices(t, g, x)
  BY DEF Selecting!sql_prices, Selecting!sql_admits, Selecting!RestrictValues, Selecting!Restrict,
     Prices!sql_prices, Prices!sql_admits, Prices!RestrictValues, Prices!Restrict
<1>3. QED
  BY <1>1, <1>2

LEMMA SelectingDiscounts ==
  /\ \A d, m, g, x : Selecting!apply_discounts(d, m, g, x) = Prices!apply_discounts(d, m, g, x)
  /\ \A d, m, g, x : Selecting!sql_discounts(d, m, g, x) = Prices!sql_discounts(d, m, g, x)
  /\ \A table : Selecting!Product(table) = Prices!Product(table)
<1>1. \A table : Selecting!Product(table) = Prices!Product(table)
  BY DEF Selecting!Product, Selecting!FoldFunction, Selecting!FoldFunctionOnSet,
     Selecting!MapThenFoldSet, Selecting!Times, Selecting!One,
     Prices!Product, Prices!FoldFunction, Prices!FoldFunctionOnSet, Prices!MapThenFoldSet,
     Prices!Times, Prices!One
<1>2. \A d, m, g, x : Selecting!apply_discounts(d, m, g, x) = Prices!apply_discounts(d, m, g, x)
  <2>1. /\ \A r, x : Selecting!is_valid_at(r, x) <=> Prices!is_valid_at(r, x)
        /\ \A r, m, g : Selecting!targets(r, m, g) = Prices!targets(r, m, g)
        /\ \A table : Selecting!Top(table) = Prices!Top(table)
        /\ Selecting!One = Prices!One /\ \A f, a : Selecting!Times(f, a) = Prices!Times(f, a)
    BY DEF Selecting!is_valid_at, Selecting!targets, Selecting!Top, Selecting!One, Selecting!Times,
       Prices!is_valid_at, Prices!targets, Prices!Top, Prices!One, Prices!Times
  <2> TAKE d, m, g, x
  <2> DEFINE P == {i \in DOMAIN d : Selecting!is_valid_at(d[i], x) /\ Selecting!targets(d[i], m, g)
                                    /\ d[i].kind = "percentage"}
             Q == {i \in DOMAIN d : Prices!is_valid_at(d[i], x) /\ Prices!targets(d[i], m, g)
                                    /\ d[i].kind = "percentage"}
             Result(D) ==
               LET table == [i \in D |-> d[i]]
                   alone == [i \in {j \in DOMAIN table : ~table[j].stackable} |-> table[i]]
               IN IF DOMAIN alone # {}
                  THEN [factor |-> Prices!Times(Prices!One, Prices!Top(alone).value),
                        applied |-> {Prices!Top(alone).id}]
                  ELSE [factor |-> Prices!Product(table), applied |-> {table[i].id : i \in DOMAIN table}]
  <2>2. P = Q
    BY <2>1
  <2>3. Selecting!apply_discounts(d, m, g, x) = Result(P)
    BY <1>1, <2>1 DEF Selecting!apply_discounts, Selecting!RestrictValues, Selecting!Restrict
  <2>4. Prices!apply_discounts(d, m, g, x) = Result(Q)
    BY DEF Prices!apply_discounts, Prices!RestrictValues, Prices!Restrict
  <2>5. QED
    BY <2>2, <2>3, <2>4
<1>3. \A d, m, g, x : Selecting!sql_discounts(d, m, g, x) = Prices!sql_discounts(d, m, g, x)
  BY DEF Selecting!sql_discounts, Selecting!RestrictValues, Selecting!Restrict,
     Prices!sql_discounts, Prices!RestrictValues, Prices!Restrict
<1>4. QED
  BY <1>1, <1>2, <1>3

LEMMA SelectingBill ==
  /\ \A t, d, m, gs, g, x : Selecting!resolve_price_by_group_id(t, d, m, gs, g, x)
                              = Prices!resolve_price_by_group_id(t, d, m, gs, g, x)
  /\ Selecting!Bill = BillOf(prices, discounts, Selecting!Called, PricedGroup, group, at, tokens)
<1>1. \A t, d, m, gs, g, x : Selecting!resolve_price_by_group_id(t, d, m, gs, g, x)
                              = Prices!resolve_price_by_group_id(t, d, m, gs, g, x)
  BY SelectingPrices, SelectingDiscounts
     DEF Selecting!resolve_price_by_group_id, Selecting!resolve_for,
         Prices!resolve_price_by_group_id, Prices!resolve_for
<1>2. \A a, q : Selecting!Charged(a, q) = Prices!Charged(a, q)
  BY DEF Selecting!Charged, Selecting!FoldFunction, Selecting!FoldFunctionOnSet,
     Selecting!MapThenFoldSet, Prices!Charged, Prices!FoldFunction, Prices!FoldFunctionOnSet,
     Prices!MapThenFoldSet
<1>3. \A n, k : Selecting!round_dp(n, k) = Prices!round_dp(n, k)
  BY DEF Selecting!round_dp, Prices!round_dp
<1>4. /\ \A a, q : Selecting!compute_charge(a, q) = Prices!compute_charge(a, q)
      /\ \A a, f, q : Selecting!charge_discounted(a, f, q) = Prices!charge_discounted(a, f, q)
      /\ \A u : Selecting!extract_token_usage(u) = Prices!extract_token_usage(u)
  BY <1>2, <1>3 DEF Selecting!compute_charge, Selecting!charge_discounted, Selecting!extract_token_usage,
     Prices!compute_charge, Prices!charge_discounted, Prices!extract_token_usage
<1>5. Selecting!Bill = BillOf(prices, discounts, Selecting!Called, PricedGroup, group, at, tokens)
  BY <1>1, <1>4 DEF Selecting!Bill, BillOf
<1>6. QED
  BY <1>1, <1>5

SelectingTables ==
  /\ prices \in Selecting!Tables(Selecting!PriceRow, PricedRows) /\ discounts \in Selecting!DiscountTables
  /\ group \in PricedAsked /\ at \in PricedAt /\ tokens \in Selecting!Usage

LEMMA SelectingPricesGood ==
  ASSUME prices \in Selecting!Tables(Selecting!PriceRow, PricedRows)
  PROVE  PricesGood(prices, Selecting!PriceRow)
<1>1. PICK n \in Nat : prices \in [1..n -> Selecting!PriceRow]
  <2>1. PICK n \in 0..PricedRows : prices \in [1..n -> Selecting!PriceRow]
    BY DEF Selecting!Tables
  <2>2. n \in Nat
    BY PricesAssumption DEF Selecting!PricingAssumption
  <2>3. QED
    BY <2>1, <2>2
<1>2. Table(prices)
  BY <1>1, FS_Interval DEF Table
<1>3. ASSUME NEW p \in Selecting!PriceRow
      PROVE  p.version \in Int /\ \A k \in DOMAIN p.amounts : p.amounts[k] \in Nat
  <2>1. p.version \in PricedVersion /\ p.amounts \in PricedAmounts
    BY DEF Selecting!PriceRow
  <2>2. /\ \A v \in PricedVersion : v \in Int
        /\ \A a \in PricedAmounts : \A k \in DOMAIN a : a[k] \in Nat
    BY PricesAssumption DEF Selecting!PricingAssumption
  <2>3. QED
    BY <2>1, <2>2
<1>4. QED
  BY <1>1, <1>2, <1>3 DEF PricesGood

LEMMA SelectingDiscountsGood ==
  ASSUME discounts \in Selecting!DiscountTables
  PROVE  DiscountsGood(discounts)
<1>1. PICK shapes \in Selecting!Tables(Selecting!DiscountShape, 0) :
        discounts = [i \in DOMAIN shapes |-> Selecting!Stored(shapes[i], i)]
  BY DEF Selecting!DiscountTables
<1>2. PICK n \in Nat : shapes \in [1..n -> Selecting!DiscountShape]
  <2>1. PICK n \in 0..0 : shapes \in [1..n -> Selecting!DiscountShape]
    BY <1>1 DEF Selecting!Tables
  <2>2. n \in Nat
    BY PricesAssumption DEF Selecting!PricingAssumption
  <2>3. QED
    BY <2>1, <2>2
<1>3. DOMAIN discounts = 1..n /\ \A i \in 1..n : discounts[i] = Selecting!Stored(shapes[i], i)
  BY <1>1, <1>2
<1>4. Table(discounts)
  BY <1>1, <1>2, FS_Interval DEF Table
<1>5. ASSUME NEW i \in 1..n
      PROVE  LET d == discounts[i]
             IN /\ d.id = i /\ d.scope \in Prices!Scopes /\ d.priority \in Int /\ d.value \in Int
                /\ d.kind = "percentage" => d.value \in 1..10
  <2> DEFINE s == shapes[i]
  <2>1. s \in Selecting!DiscountShape
    BY <1>2
  <2> HIDE DEF s
  <2>2. /\ s.scope \in Selecting!Scopes \ {"org"} /\ s.kind \in Selecting!Kinds /\ s.value \in {}
        /\ s.priority \in {} /\ Selecting!validate_value(s.kind, s.value)
    BY <2>1 DEF Selecting!DiscountShape
  <2>3. s.value \in Int /\ s.priority \in Int
    BY <2>2, PricesAssumption DEF Selecting!PricingAssumption
  <2>4. s.kind = "percentage" => s.value \in 1..10
    BY <2>2, <2>3 DEF Selecting!validate_value
  <2>5. s.scope \in Prices!Scopes
    BY <2>2 DEF Selecting!Scopes, Prices!Scopes
  <2>6. /\ discounts[i].id = i /\ discounts[i].scope = s.scope /\ discounts[i].priority = s.priority
        /\ discounts[i].value = s.value /\ discounts[i].kind = s.kind
    BY <1>3 DEF Selecting!Stored, s
  <2>7. QED
    BY <2>3, <2>4, <2>5, <2>6
<1>6. QED
  BY <1>3, <1>4, <1>5 DEF DiscountsGood

LEMMA SelectingGood ==
  ASSUME SelectingTables
  PROVE  /\ PricesGood(prices, Selecting!PriceRow) /\ DiscountsGood(discounts)
         /\ UsageGood(tokens) /\ NoneApart(Selecting!PriceRow)
<1>1. PricesGood(prices, Selecting!PriceRow) /\ DiscountsGood(discounts)
  BY SelectingPricesGood, SelectingDiscountsGood DEF SelectingTables
<1>2. tokens.prompt \in PricedTokens /\ tokens.completion \in PricedTokens
  BY DEF SelectingTables, Selecting!Usage
<1>3. UsageGood(tokens)
  BY <1>2, PricesAssumption DEF Selecting!PricingAssumption, UsageGood
<1>4. NoneApart(Selecting!PriceRow)
  BY PricesAssumption DEF Selecting!PricingAssumption, Selecting!Factor, NoneApart, Fraction
<1>5. QED
  BY <1>1, <1>3, <1>4

SelectingPays == Paying(PricedGroup, group)

LEMMA SelectingEffective ==
  /\ Selecting!Effective = SelectingPays
  /\ \A g : Selecting!ValidPrices(g) = ValidRows(prices, g, at)
<1>1. Selecting!Effective = SelectingPays
  BY DEF Selecting!Effective, SelectingPays, Paying
<1>2. \A g : Selecting!ValidPrices(g) = ValidRows(prices, g, at)
  BY DEF Selecting!ValidPrices, ValidRows, Selecting!Range, Prices!is_valid_at
<1>3. QED
  BY <1>1, <1>2

\* What is billed, when a price and a usage are found.
LEMMA SelectingBilled ==
  ASSUME SelectingTables, bill \in {None, Selecting!Bill}, Selecting!Billed
  PROVE  LET C == Eligible(prices, SelectingPays, at)
             off == Prices!apply_discounts(discounts, Selecting!Called, SelectingPays, at)
             q == Prices!extract_token_usage(tokens)
         IN /\ q \in [input : Nat, output : Nat]
            /\ \E i \in C : /\ BestLast(prices, SelectingPays, C, i)
                            /\ bill = [bill |-> TRUE, price |-> prices[i], factor |-> off.factor,
                                       applied |-> off.applied,
                                       base |-> Prices!compute_charge(prices[i].amounts, q),
                                       charged |-> Prices!charge_discounted(prices[i].amounts, off.factor, q)]
<1> DEFINE C == Eligible(prices, SelectingPays, at)
           off == Prices!apply_discounts(discounts, Selecting!Called, SelectingPays, at)
           q == Prices!extract_token_usage(tokens)
           b == BillOf(prices, discounts, Selecting!Called, PricedGroup, group, at, tokens)
<1>1. bill = b /\ bill.bill
  BY SelectingBill DEF Selecting!Billed
<1>2. IF C = {} \/ (tokens.prompt = None /\ tokens.completion = None)
      THEN b = [bill |-> FALSE]
      ELSE \E i \in C : /\ BestLast(prices, SelectingPays, C, i)
                        /\ b = [bill |-> TRUE, price |-> prices[i], factor |-> off.factor,
                                applied |-> off.applied,
                                base |-> Prices!compute_charge(prices[i].amounts, q),
                                charged |-> Prices!charge_discounted(prices[i].amounts, off.factor, q)]
  BY SelectingGood, BillIs DEF SelectingPays
<1>3. IF tokens.prompt = None /\ tokens.completion = None THEN q = None
      ELSE q # None /\ q \in [input : Nat, output : Nat]
  BY SelectingGood, QuantityIs
<1> HIDE DEF C, off, q, b
<1>4. ~(C = {} \/ (tokens.prompt = None /\ tokens.completion = None))
  BY <1>1, <1>2
<1>5. QED
  BY <1>1, <1>2, <1>3, <1>4 DEF C, off, q, b

LEMMA SelectingBestPrice ==
  ASSUME SelectingTables, bill \in {None, Selecting!Bill}
  PROVE  Selecting!BilledAtBestPrice
<1> SUFFICES ASSUME Selecting!Billed
             PROVE  LET tier == IF SelectingPays # None /\ ValidRows(prices, SelectingPays, at) # {}
                                THEN ValidRows(prices, SelectingPays, at) ELSE ValidRows(prices, None, at)
                    IN bill.price \in tier /\ \A p \in tier : p.version <= bill.price.version
  BY SelectingEffective DEF Selecting!BilledAtBestPrice
<1>1. PICK i \in Eligible(prices, SelectingPays, at) :
        BestLast(prices, SelectingPays, Eligible(prices, SelectingPays, at), i) /\ bill.price = prices[i]
  BY SelectingBilled
<1>2. \A j \in DOMAIN prices : prices[j].version \in Int
  BY SelectingGood DEF PricesGood
<1>3. QED
  BY <1>1, <1>2, BestOfTier

LEMMA SelectingNeverFree ==
  ASSUME SelectingTables, bill \in {None, Selecting!Bill}
  PROVE  Selecting!NeverFree
<1> SUFFICES ASSUME bill # None, ValidRows(prices, None, at) # {},
                    ~(tokens.prompt = None /\ tokens.completion = None)
             PROVE  bill.bill
  BY SelectingEffective DEF Selecting!NeverFree
<1> DEFINE C == Eligible(prices, SelectingPays, at)
           b == BillOf(prices, discounts, Selecting!Called, PricedGroup, group, at, tokens)
<1>1. bill = b
  BY SelectingBill
<1>2. C # {}
  BY DEF ValidRows, Eligible
<1>3. C = {} \/ \E i \in C : b.bill = TRUE
  <2> HIDE DEF C, b
  <2> DEFINE off == Prices!apply_discounts(discounts, Selecting!Called, SelectingPays, at)
             q == Prices!extract_token_usage(tokens)
  <2>1. IF C = {} \/ (tokens.prompt = None /\ tokens.completion = None)
        THEN b = [bill |-> FALSE]
        ELSE \E i \in C : /\ BestLast(prices, SelectingPays, C, i)
                          /\ b = [bill |-> TRUE, price |-> prices[i], factor |-> off.factor,
                                  applied |-> off.applied,
                                  base |-> Prices!compute_charge(prices[i].amounts, q),
                                  charged |-> Prices!charge_discounted(prices[i].amounts, off.factor, q)]
    BY SelectingGood, BillIs DEF SelectingPays, C, b
  <2> HIDE DEF off, q
  <2>2. QED
    BY <2>1
<1>4. QED
  BY <1>1, <1>2, <1>3

LEMMA SelectingPrefilter ==
  ASSUME SelectingTables
  PROVE  Selecting!PrefilterAgrees
<1>1. Table(prices) /\ \A i \in DOMAIN prices : prices[i].version \in Int
  BY SelectingGood DEF PricesGood
<1>2. Table(discounts) /\ \A i \in DOMAIN discounts :
        discounts[i].scope \in Prices!Scopes /\ discounts[i].priority \in Int
  BY SelectingGood DEF DiscountsGood
<1>3. Prices!select_price(Prices!sql_prices(prices, Selecting!Effective, at), Selecting!Effective, at)
        = Prices!select_price(prices, Selecting!Effective, at)
  BY <1>1, SqlAgreesOnPrice
<1>4. Prices!apply_discounts(Prices!sql_discounts(discounts, Selecting!Called, Selecting!Effective, at),
                             Selecting!Called, Selecting!Effective, at)
        = Prices!apply_discounts(discounts, Selecting!Called, Selecting!Effective, at)
  BY <1>2, SqlAgreesOnDiscounts
<1>5. QED
  BY <1>3, <1>4, SelectingPrices, SelectingDiscounts DEF Selecting!PrefilterAgrees

LEMMA SelectingOrderFree ==
  ASSUME SelectingTables, bill \in {None, Selecting!Bill}
  PROVE  Selecting!OrderFree
<1> SUFFICES ASSUME Selecting!Billed, ~Selecting!Tied,
                    NEW ps \in Selecting!Reordered(prices), NEW ds \in Selecting!Reordered(discounts)
             PROVE  Selecting!resolve_price_by_group_id(ps, ds, Selecting!Called, PricedGroup, group, at)
                      = [price |-> bill.price, factor |-> bill.factor, applied |-> bill.applied]
  BY DEF Selecting!OrderFree
<1>1. ~PriceTie(prices) /\ ~DiscountTie(discounts)
  BY DEF Selecting!Tied, PriceTie, DiscountTie
<1>2. PICK p : Permutes(p, DOMAIN prices) /\ ps = Shuffled(prices, p)
  BY DEF Selecting!Reordered, Selecting!Bijection, Selecting!Injection, Selecting!Surjection, Selecting!IsInjective, Permutes, Shuffled
<1>3. PICK o : Permutes(o, DOMAIN discounts) /\ ds = Shuffled(discounts, o)
  BY DEF Selecting!Reordered, Selecting!Bijection, Selecting!Injection, Selecting!Surjection, Selecting!IsInjective, Permutes, Shuffled
<1>4. /\ bill = BillOf(prices, discounts, Selecting!Called, PricedGroup, group, at, tokens)
      /\ bill.bill
  BY SelectingBill DEF Selecting!Billed
<1>5. Prices!resolve_price_by_group_id(ps, ds, Selecting!Called, PricedGroup, group, at)
        = Prices!resolve_price_by_group_id(prices, discounts, Selecting!Called, PricedGroup, group, at)
  BY <1>1, <1>2, <1>3, SelectingGood, ResolvedReordered
<1>6. Prices!resolve_price_by_group_id(prices, discounts, Selecting!Called, PricedGroup, group, at)
        = [price |-> bill.price, factor |-> bill.factor, applied |-> bill.applied]
  BY <1>4, SelectingGood, BillRepeats
<1>7. QED
  BY <1>5, <1>6, SelectingBill

-----------------------------------------------------------------------------
(* One price and its discounts.                                               *)

LEMMA DiscountingPrices ==
  /\ \A t, g, x : Discounting!select_price(t, g, x) = Prices!select_price(t, g, x)
  /\ \A t, g, x : Discounting!sql_prices(t, g, x) = Prices!sql_prices(t, g, x)
<1>1. \A t, g, x : Discounting!select_price(t, g, x) = Prices!select_price(t, g, x)
  BY DEF Discounting!select_price, Discounting!is_valid_at, Discounting!NotAfter, Discounting!rank,
     Prices!select_price, Prices!is_valid_at, Prices!NotAfter, Prices!rank
<1>2. \A t, g, x : Discounting!sql_prices(t, g, x) = Prices!sql_prices(t, g, x)
  BY DEF Discounting!sql_prices, Discounting!sql_admits, Discounting!RestrictValues, Discounting!Restrict,
     Prices!sql_prices, Prices!sql_admits, Prices!RestrictValues, Prices!Restrict
<1>3. QED
  BY <1>1, <1>2

LEMMA DiscountingDiscounts ==
  /\ \A d, m, g, x : Discounting!apply_discounts(d, m, g, x) = Prices!apply_discounts(d, m, g, x)
  /\ \A d, m, g, x : Discounting!sql_discounts(d, m, g, x) = Prices!sql_discounts(d, m, g, x)
  /\ \A table : Discounting!Product(table) = Prices!Product(table)
<1>1. \A table : Discounting!Product(table) = Prices!Product(table)
  BY DEF Discounting!Product, Discounting!FoldFunction, Discounting!FoldFunctionOnSet,
     Discounting!MapThenFoldSet, Discounting!Times, Discounting!One,
     Prices!Product, Prices!FoldFunction, Prices!FoldFunctionOnSet, Prices!MapThenFoldSet,
     Prices!Times, Prices!One
<1>2. \A d, m, g, x : Discounting!apply_discounts(d, m, g, x) = Prices!apply_discounts(d, m, g, x)
  <2>1. /\ \A r, x : Discounting!is_valid_at(r, x) <=> Prices!is_valid_at(r, x)
        /\ \A r, m, g : Discounting!targets(r, m, g) = Prices!targets(r, m, g)
        /\ \A table : Discounting!Top(table) = Prices!Top(table)
        /\ Discounting!One = Prices!One /\ \A f, a : Discounting!Times(f, a) = Prices!Times(f, a)
    BY DEF Discounting!is_valid_at, Discounting!targets, Discounting!Top, Discounting!One, Discounting!Times,
       Prices!is_valid_at, Prices!targets, Prices!Top, Prices!One, Prices!Times
  <2> TAKE d, m, g, x
  <2> DEFINE P == {i \in DOMAIN d : Discounting!is_valid_at(d[i], x) /\ Discounting!targets(d[i], m, g)
                                    /\ d[i].kind = "percentage"}
             Q == {i \in DOMAIN d : Prices!is_valid_at(d[i], x) /\ Prices!targets(d[i], m, g)
                                    /\ d[i].kind = "percentage"}
             Result(D) ==
               LET table == [i \in D |-> d[i]]
                   alone == [i \in {j \in DOMAIN table : ~table[j].stackable} |-> table[i]]
               IN IF DOMAIN alone # {}
                  THEN [factor |-> Prices!Times(Prices!One, Prices!Top(alone).value),
                        applied |-> {Prices!Top(alone).id}]
                  ELSE [factor |-> Prices!Product(table), applied |-> {table[i].id : i \in DOMAIN table}]
  <2>2. P = Q
    BY <2>1
  <2>3. Discounting!apply_discounts(d, m, g, x) = Result(P)
    BY <1>1, <2>1 DEF Discounting!apply_discounts, Discounting!RestrictValues, Discounting!Restrict
  <2>4. Prices!apply_discounts(d, m, g, x) = Result(Q)
    BY DEF Prices!apply_discounts, Prices!RestrictValues, Prices!Restrict
  <2>5. QED
    BY <2>2, <2>3, <2>4
<1>3. \A d, m, g, x : Discounting!sql_discounts(d, m, g, x) = Prices!sql_discounts(d, m, g, x)
  BY DEF Discounting!sql_discounts, Discounting!RestrictValues, Discounting!Restrict,
     Prices!sql_discounts, Prices!RestrictValues, Prices!Restrict
<1>4. QED
  BY <1>1, <1>2, <1>3

LEMMA DiscountingBill ==
  /\ \A t, d, m, gs, g, x : Discounting!resolve_price_by_group_id(t, d, m, gs, g, x)
                              = Prices!resolve_price_by_group_id(t, d, m, gs, g, x)
  /\ Discounting!Bill = BillOf(prices, discounts, Discounting!Called, DiscountGroup, group, at, tokens)
<1>1. \A t, d, m, gs, g, x : Discounting!resolve_price_by_group_id(t, d, m, gs, g, x)
                              = Prices!resolve_price_by_group_id(t, d, m, gs, g, x)
  BY DiscountingPrices, DiscountingDiscounts
     DEF Discounting!resolve_price_by_group_id, Discounting!resolve_for,
         Prices!resolve_price_by_group_id, Prices!resolve_for
<1>2. \A a, q : Discounting!Charged(a, q) = Prices!Charged(a, q)
  BY DEF Discounting!Charged, Discounting!FoldFunction, Discounting!FoldFunctionOnSet,
     Discounting!MapThenFoldSet, Prices!Charged, Prices!FoldFunction, Prices!FoldFunctionOnSet,
     Prices!MapThenFoldSet
<1>3. \A n, k : Discounting!round_dp(n, k) = Prices!round_dp(n, k)
  BY DEF Discounting!round_dp, Prices!round_dp
<1>4. /\ \A a, q : Discounting!compute_charge(a, q) = Prices!compute_charge(a, q)
      /\ \A a, f, q : Discounting!charge_discounted(a, f, q) = Prices!charge_discounted(a, f, q)
      /\ \A u : Discounting!extract_token_usage(u) = Prices!extract_token_usage(u)
  BY <1>2, <1>3 DEF Discounting!compute_charge, Discounting!charge_discounted, Discounting!extract_token_usage,
     Prices!compute_charge, Prices!charge_discounted, Prices!extract_token_usage
<1>5. Discounting!Bill = BillOf(prices, discounts, Discounting!Called, DiscountGroup, group, at, tokens)
  BY <1>1, <1>4 DEF Discounting!Bill, BillOf
<1>6. QED
  BY <1>1, <1>5

DiscountingTables ==
  /\ prices \in Discounting!Tables(Discounting!PriceRow, DiscountPrices) /\ discounts \in Discounting!DiscountTables
  /\ group \in DiscountAsked /\ at \in DiscountAt /\ tokens \in Discounting!Usage

LEMMA DiscountingPricesGood ==
  ASSUME prices \in Discounting!Tables(Discounting!PriceRow, DiscountPrices)
  PROVE  PricesGood(prices, Discounting!PriceRow)
<1>1. PICK n \in Nat : prices \in [1..n -> Discounting!PriceRow]
  <2>1. PICK n \in 0..DiscountPrices : prices \in [1..n -> Discounting!PriceRow]
    BY DEF Discounting!Tables
  <2>2. n \in Nat
    BY PricesAssumption DEF Discounting!PricingAssumption
  <2>3. QED
    BY <2>1, <2>2
<1>2. Table(prices)
  BY <1>1, FS_Interval DEF Table
<1>3. ASSUME NEW p \in Discounting!PriceRow
      PROVE  p.version \in Int /\ \A k \in DOMAIN p.amounts : p.amounts[k] \in Nat
  <2>1. p.version \in DiscountVersion /\ p.amounts \in DiscountAmounts
    BY DEF Discounting!PriceRow
  <2>2. /\ \A v \in DiscountVersion : v \in Int
        /\ \A a \in DiscountAmounts : \A k \in DOMAIN a : a[k] \in Nat
    BY PricesAssumption DEF Discounting!PricingAssumption
  <2>3. QED
    BY <2>1, <2>2
<1>4. QED
  BY <1>1, <1>2, <1>3 DEF PricesGood

LEMMA DiscountingDiscountsGood ==
  ASSUME discounts \in Discounting!DiscountTables
  PROVE  DiscountsGood(discounts)
<1>1. PICK shapes \in Discounting!Tables(Discounting!DiscountShape, MaxDiscounts) :
        discounts = [i \in DOMAIN shapes |-> Discounting!Stored(shapes[i], i)]
  BY DEF Discounting!DiscountTables
<1>2. PICK n \in Nat : shapes \in [1..n -> Discounting!DiscountShape]
  <2>1. PICK n \in 0..MaxDiscounts : shapes \in [1..n -> Discounting!DiscountShape]
    BY <1>1 DEF Discounting!Tables
  <2>2. n \in Nat
    BY PricesAssumption DEF Discounting!PricingAssumption
  <2>3. QED
    BY <2>1, <2>2
<1>3. DOMAIN discounts = 1..n /\ \A i \in 1..n : discounts[i] = Discounting!Stored(shapes[i], i)
  BY <1>1, <1>2
<1>4. Table(discounts)
  BY <1>1, <1>2, FS_Interval DEF Table
<1>5. ASSUME NEW i \in 1..n
      PROVE  LET d == discounts[i]
             IN /\ d.id = i /\ d.scope \in Prices!Scopes /\ d.priority \in Int /\ d.value \in Int
                /\ d.kind = "percentage" => d.value \in 1..10
  <2> DEFINE s == shapes[i]
  <2>1. s \in Discounting!DiscountShape
    BY <1>2
  <2> HIDE DEF s
  <2>2. /\ s.scope \in Discounting!Scopes \ {"org"} /\ s.kind \in Discounting!Kinds /\ s.value \in DiscountTenths
        /\ s.priority \in DiscountPriority /\ Discounting!validate_value(s.kind, s.value)
    BY <2>1 DEF Discounting!DiscountShape
  <2>3. s.value \in Int /\ s.priority \in Int
    BY <2>2, PricesAssumption DEF Discounting!PricingAssumption
  <2>4. s.kind = "percentage" => s.value \in 1..10
    BY <2>2, <2>3 DEF Discounting!validate_value
  <2>5. s.scope \in Prices!Scopes
    BY <2>2 DEF Discounting!Scopes, Prices!Scopes
  <2>6. /\ discounts[i].id = i /\ discounts[i].scope = s.scope /\ discounts[i].priority = s.priority
        /\ discounts[i].value = s.value /\ discounts[i].kind = s.kind
    BY <1>3 DEF Discounting!Stored, s
  <2>7. QED
    BY <2>3, <2>4, <2>5, <2>6
<1>6. QED
  BY <1>3, <1>4, <1>5 DEF DiscountsGood

LEMMA DiscountingGood ==
  ASSUME DiscountingTables
  PROVE  /\ PricesGood(prices, Discounting!PriceRow) /\ DiscountsGood(discounts)
         /\ UsageGood(tokens) /\ NoneApart(Discounting!PriceRow)
<1>1. PricesGood(prices, Discounting!PriceRow) /\ DiscountsGood(discounts)
  BY DiscountingPricesGood, DiscountingDiscountsGood DEF DiscountingTables
<1>2. tokens.prompt \in DiscountTokens /\ tokens.completion \in DiscountTokens
  BY DEF DiscountingTables, Discounting!Usage
<1>3. UsageGood(tokens)
  BY <1>2, PricesAssumption DEF Discounting!PricingAssumption, UsageGood
<1>4. NoneApart(Discounting!PriceRow)
  BY PricesAssumption DEF Discounting!PricingAssumption, Discounting!Factor, NoneApart, Fraction
<1>5. QED
  BY <1>1, <1>3, <1>4

DiscountingPays == Paying(DiscountGroup, group)

LEMMA DiscountingEffective ==
  /\ Discounting!Effective = DiscountingPays
  /\ \A g : Discounting!ValidPrices(g) = ValidRows(prices, g, at)
<1>1. Discounting!Effective = DiscountingPays
  BY DEF Discounting!Effective, DiscountingPays, Paying
<1>2. \A g : Discounting!ValidPrices(g) = ValidRows(prices, g, at)
  BY DEF Discounting!ValidPrices, ValidRows, Discounting!Range, Prices!is_valid_at
<1>3. QED
  BY <1>1, <1>2

\* What is billed, when a price and a usage are found.
LEMMA DiscountingBilled ==
  ASSUME DiscountingTables, bill \in {None, Discounting!Bill}, Discounting!Billed
  PROVE  LET C == Eligible(prices, DiscountingPays, at)
             off == Prices!apply_discounts(discounts, Discounting!Called, DiscountingPays, at)
             q == Prices!extract_token_usage(tokens)
         IN /\ q \in [input : Nat, output : Nat]
            /\ \E i \in C : /\ BestLast(prices, DiscountingPays, C, i)
                            /\ bill = [bill |-> TRUE, price |-> prices[i], factor |-> off.factor,
                                       applied |-> off.applied,
                                       base |-> Prices!compute_charge(prices[i].amounts, q),
                                       charged |-> Prices!charge_discounted(prices[i].amounts, off.factor, q)]
<1> DEFINE C == Eligible(prices, DiscountingPays, at)
           off == Prices!apply_discounts(discounts, Discounting!Called, DiscountingPays, at)
           q == Prices!extract_token_usage(tokens)
           b == BillOf(prices, discounts, Discounting!Called, DiscountGroup, group, at, tokens)
<1>1. bill = b /\ bill.bill
  BY DiscountingBill DEF Discounting!Billed
<1>2. IF C = {} \/ (tokens.prompt = None /\ tokens.completion = None)
      THEN b = [bill |-> FALSE]
      ELSE \E i \in C : /\ BestLast(prices, DiscountingPays, C, i)
                        /\ b = [bill |-> TRUE, price |-> prices[i], factor |-> off.factor,
                                applied |-> off.applied,
                                base |-> Prices!compute_charge(prices[i].amounts, q),
                                charged |-> Prices!charge_discounted(prices[i].amounts, off.factor, q)]
  BY DiscountingGood, BillIs DEF DiscountingPays
<1>3. IF tokens.prompt = None /\ tokens.completion = None THEN q = None
      ELSE q # None /\ q \in [input : Nat, output : Nat]
  BY DiscountingGood, QuantityIs
<1> HIDE DEF C, off, q, b
<1>4. ~(C = {} \/ (tokens.prompt = None /\ tokens.completion = None))
  BY <1>1, <1>2
<1>5. QED
  BY <1>1, <1>2, <1>3, <1>4 DEF C, off, q, b

LEMMA DiscountingBestPrice ==
  ASSUME DiscountingTables, bill \in {None, Discounting!Bill}
  PROVE  Discounting!BilledAtBestPrice
<1> SUFFICES ASSUME Discounting!Billed
             PROVE  LET tier == IF DiscountingPays # None /\ ValidRows(prices, DiscountingPays, at) # {}
                                THEN ValidRows(prices, DiscountingPays, at) ELSE ValidRows(prices, None, at)
                    IN bill.price \in tier /\ \A p \in tier : p.version <= bill.price.version
  BY DiscountingEffective DEF Discounting!BilledAtBestPrice
<1>1. PICK i \in Eligible(prices, DiscountingPays, at) :
        BestLast(prices, DiscountingPays, Eligible(prices, DiscountingPays, at), i) /\ bill.price = prices[i]
  BY DiscountingBilled
<1>2. \A j \in DOMAIN prices : prices[j].version \in Int
  BY DiscountingGood DEF PricesGood
<1>3. QED
  BY <1>1, <1>2, BestOfTier

LEMMA DiscountingNeverFree ==
  ASSUME DiscountingTables, bill \in {None, Discounting!Bill}
  PROVE  Discounting!NeverFree
<1> SUFFICES ASSUME bill # None, ValidRows(prices, None, at) # {},
                    ~(tokens.prompt = None /\ tokens.completion = None)
             PROVE  bill.bill
  BY DiscountingEffective DEF Discounting!NeverFree
<1> DEFINE C == Eligible(prices, DiscountingPays, at)
           b == BillOf(prices, discounts, Discounting!Called, DiscountGroup, group, at, tokens)
<1>1. bill = b
  BY DiscountingBill
<1>2. C # {}
  BY DEF ValidRows, Eligible
<1>3. C = {} \/ \E i \in C : b.bill = TRUE
  <2> HIDE DEF C, b
  <2> DEFINE off == Prices!apply_discounts(discounts, Discounting!Called, DiscountingPays, at)
             q == Prices!extract_token_usage(tokens)
  <2>1. IF C = {} \/ (tokens.prompt = None /\ tokens.completion = None)
        THEN b = [bill |-> FALSE]
        ELSE \E i \in C : /\ BestLast(prices, DiscountingPays, C, i)
                          /\ b = [bill |-> TRUE, price |-> prices[i], factor |-> off.factor,
                                  applied |-> off.applied,
                                  base |-> Prices!compute_charge(prices[i].amounts, q),
                                  charged |-> Prices!charge_discounted(prices[i].amounts, off.factor, q)]
    BY DiscountingGood, BillIs DEF DiscountingPays, C, b
  <2> HIDE DEF off, q
  <2>2. QED
    BY <2>1
<1>4. QED
  BY <1>1, <1>2, <1>3

LEMMA DiscountingPrefilter ==
  ASSUME DiscountingTables
  PROVE  Discounting!PrefilterAgrees
<1>1. Table(prices) /\ \A i \in DOMAIN prices : prices[i].version \in Int
  BY DiscountingGood DEF PricesGood
<1>2. Table(discounts) /\ \A i \in DOMAIN discounts :
        discounts[i].scope \in Prices!Scopes /\ discounts[i].priority \in Int
  BY DiscountingGood DEF DiscountsGood
<1>3. Prices!select_price(Prices!sql_prices(prices, Discounting!Effective, at), Discounting!Effective, at)
        = Prices!select_price(prices, Discounting!Effective, at)
  BY <1>1, SqlAgreesOnPrice
<1>4. Prices!apply_discounts(Prices!sql_discounts(discounts, Discounting!Called, Discounting!Effective, at),
                             Discounting!Called, Discounting!Effective, at)
        = Prices!apply_discounts(discounts, Discounting!Called, Discounting!Effective, at)
  BY <1>2, SqlAgreesOnDiscounts
<1>5. QED
  BY <1>3, <1>4, DiscountingPrices, DiscountingDiscounts DEF Discounting!PrefilterAgrees

LEMMA DiscountingExplained ==
  ASSUME DiscountingTables, bill \in {None, Discounting!Bill}
  PROVE  Discounting!AppliedExplainsFactor
<1> SUFFICES ASSUME Discounting!Billed PROVE Discounting!AppliedExplainsFactor
  BY DEF Discounting!AppliedExplainsFactor
<1> DEFINE off == Prices!apply_discounts(discounts, Discounting!Called, DiscountingPays, at)
           table == [i \in {j \in DOMAIN discounts : discounts[j].id \in off.applied} |-> discounts[i]]
<1>1. bill.factor = off.factor /\ bill.applied = off.applied
  BY DiscountingBilled
<1>2. /\ Table(discounts)
      /\ \A i \in DOMAIN discounts : discounts[i].priority \in Int
      /\ \A i, j \in DOMAIN discounts : discounts[i].id = discounts[j].id => i = j
  BY DiscountingGood DEF DiscountsGood
<1>3. /\ off.factor = Prices!Product(table)
      /\ (\E i \in DOMAIN table : ~table[i].stackable) => \E k : off.applied = {k}
  <2>1. off = Prices!apply_discounts(discounts, Discounting!Called, DiscountingPays, at)
    OBVIOUS
  <2>2. /\ DOMAIN table = {i \in DOMAIN discounts : discounts[i].id \in off.applied}
        /\ \A i \in DOMAIN table : table[i] = discounts[i]
    OBVIOUS
  <2> HIDE DEF off, table
  <2>3. QED
    BY <1>2, <2>1, <2>2, FactorExplained
<1>4. table = Discounting!RestrictValues(discounts, LAMBDA d : d.id \in bill.applied)
  BY <1>1 DEF Discounting!RestrictValues, Discounting!Restrict
<1> HIDE DEF table, off
<1>5. (\E i \in DOMAIN table : ~table[i].stackable) => Discounting!Cardinality(bill.applied) = 1
  <2>1. \A S : Discounting!Cardinality(S) = Cardinality(S)
    BY DEF Discounting!Cardinality, Cardinality
  <2>2. \A k : Cardinality({k}) = 1
    BY FS_Singleton
  <2>3. QED
    BY <1>1, <1>3, <2>1, <2>2
<1>6. bill.factor = Discounting!Product(table)
  BY <1>1, <1>3, DiscountingDiscounts
<1>7. QED
  BY <1>4, <1>5, <1>6 DEF Discounting!AppliedExplainsFactor

LEMMA DiscountingNeverDearer ==
  ASSUME DiscountingTables, bill \in {None, Discounting!Bill}
  PROVE  Discounting!NeverDearer
<1> SUFFICES ASSUME Discounting!Billed PROVE 0 <= bill.charged /\ bill.charged <= bill.base
  BY DEF Discounting!NeverDearer
<1> DEFINE off == Prices!apply_discounts(discounts, Discounting!Called, DiscountingPays, at)
           q == Prices!extract_token_usage(tokens)
<1>1. PICK i \in Eligible(prices, DiscountingPays, at) :
        /\ bill.base = Prices!compute_charge(prices[i].amounts, q)
        /\ bill.charged = Prices!charge_discounted(prices[i].amounts, off.factor, q)
  BY DiscountingBilled
<1>2. q \in [input : Nat, output : Nat]
  BY DiscountingBilled
<1>3. \A k \in DOMAIN prices[i].amounts : prices[i].amounts[k] \in Nat
  BY DiscountingGood DEF PricesGood, Eligible
<1>4. /\ off.factor \in Fraction /\ 0 <= off.factor.num /\ off.factor.num <= off.factor.den
      /\ 0 < off.factor.den
  <2>1. /\ Table(discounts)
        /\ \A k \in DOMAIN discounts :
             /\ discounts[k].priority \in Int
             /\ discounts[k].kind = "percentage" => discounts[k].value \in 1..10
    BY DiscountingGood DEF DiscountsGood
  <2>2. QED
    BY <2>1, FactorFits
<1> HIDE DEF off, q
<1>5. Prices!Charged(prices[i].amounts, q) \in Nat
  <2>1. IsFiniteSet(DOMAIN q) /\ \A k \in DOMAIN q : q[k] \in Nat
    <3>1. DOMAIN q = {"input", "output"} /\ q.input \in Nat /\ q.output \in Nat
      BY <1>2
    <3>2. IsFiniteSet({"input"} \cup {"output"})
      BY FS_Singleton, FS_AddElement
    <3>3. QED
      BY <3>1, <3>2
  <2>2. QED
    BY <1>3, <2>1, ChargedNat
<1>6. QED
  BY <1>1, <1>4, <1>5, DiscountedIsLess

LEMMA DiscountingOrderFree ==
  ASSUME DiscountingTables, bill \in {None, Discounting!Bill}
  PROVE  Discounting!OrderFree
<1> SUFFICES ASSUME Discounting!Billed, ~Discounting!Tied,
                    NEW ps \in Discounting!Reordered(prices), NEW ds \in Discounting!Reordered(discounts)
             PROVE  Discounting!resolve_price_by_group_id(ps, ds, Discounting!Called, DiscountGroup, group, at)
                      = [price |-> bill.price, factor |-> bill.factor, applied |-> bill.applied]
  BY DEF Discounting!OrderFree
<1>1. ~PriceTie(prices) /\ ~DiscountTie(discounts)
  BY DEF Discounting!Tied, PriceTie, DiscountTie
<1>2. PICK p : Permutes(p, DOMAIN prices) /\ ps = Shuffled(prices, p)
  BY DEF Discounting!Reordered, Discounting!Bijection, Discounting!Injection, Discounting!Surjection, Discounting!IsInjective, Permutes, Shuffled
<1>3. PICK o : Permutes(o, DOMAIN discounts) /\ ds = Shuffled(discounts, o)
  BY DEF Discounting!Reordered, Discounting!Bijection, Discounting!Injection, Discounting!Surjection, Discounting!IsInjective, Permutes, Shuffled
<1>4. /\ bill = BillOf(prices, discounts, Discounting!Called, DiscountGroup, group, at, tokens)
      /\ bill.bill
  BY DiscountingBill DEF Discounting!Billed
<1>5. Prices!resolve_price_by_group_id(ps, ds, Discounting!Called, DiscountGroup, group, at)
        = Prices!resolve_price_by_group_id(prices, discounts, Discounting!Called, DiscountGroup, group, at)
  BY <1>1, <1>2, <1>3, DiscountingGood, ResolvedReordered
<1>6. Prices!resolve_price_by_group_id(prices, discounts, Discounting!Called, DiscountGroup, group, at)
        = [price |-> bill.price, factor |-> bill.factor, applied |-> bill.applied]
  BY <1>4, DiscountingGood, BillRepeats
<1>7. QED
  BY <1>5, <1>6, DiscountingBill

-----------------------------------------------------------------------------
(* Every price the code resolves, for any tables that were stored.            *)

PricesInv ==
  /\ example = "selecting" =>
       /\ SelectingTables
       /\ bill \in {None, BillOf(prices, discounts, Selecting!Called, PricedGroup, group, at, tokens)}
  /\ example = "discounting" =>
       /\ DiscountingTables
       /\ bill \in {None, BillOf(prices, discounts, Discounting!Called, DiscountGroup, group, at, tokens)}

LEMMA PricesInitially == FunctionsInit => PricesInv
<1> SUFFICES ASSUME FunctionsInit PROVE PricesInv
  OBVIOUS
<1>1. example = "selecting" => Selecting!Init
  BY DEF FunctionsInit
<1>2. example = "discounting" => Discounting!Init
  BY DEF FunctionsInit
<1>3. QED
  BY <1>1, <1>2 DEF PricesInv, Selecting!Init, Discounting!Init, SelectingTables, DiscountingTables

\* Nothing but a resolution writes to a bill, and it leaves the tables alone.
LEMMA PricesKept == PricesInv /\ [FunctionsNext]_functionVars => PricesInv'
<1> SUFFICES ASSUME PricesInv, [FunctionsNext]_functionVars PROVE PricesInv'
  OBVIOUS
<1>1. example' = example
  BY DEF FunctionsNext, functionVars
<1>2. /\ example = "selecting" => Selecting!Next \/ UNCHANGED priceVars
      /\ example = "discounting" => Discounting!Next \/ UNCHANGED priceVars
  BY DEF FunctionsNext, functionVars
<1>3. CASE example = "selecting"
  <2>1. UNCHANGED <<prices, discounts, group, at, tokens>>
    BY <1>2, <1>3 DEF Selecting!Next, Selecting!Resolve, priceVars
  <2>2. bill' \in {bill, Selecting!Bill}
    BY <1>2, <1>3 DEF Selecting!Next, Selecting!Resolve, priceVars
  <2>3. SelectingTables'
    BY <1>3, <2>1 DEF PricesInv, SelectingTables
  <2>4. bill' \in {None, BillOf(prices', discounts', Selecting!Called, PricedGroup, group', at', tokens')}
    BY <1>3, <2>1, <2>2, SelectingBill DEF PricesInv
  <2>5. QED
    BY <1>1, <1>3, <2>3, <2>4 DEF PricesInv
<1>4. CASE example = "discounting"
  <2>1. UNCHANGED <<prices, discounts, group, at, tokens>>
    BY <1>2, <1>4 DEF Discounting!Next, Discounting!Resolve, priceVars
  <2>2. bill' \in {bill, Discounting!Bill}
    BY <1>2, <1>4 DEF Discounting!Next, Discounting!Resolve, priceVars
  <2>3. DiscountingTables'
    BY <1>4, <2>1 DEF PricesInv, DiscountingTables
  <2>4. bill' \in {None, BillOf(prices', discounts', Discounting!Called, DiscountGroup, group', at', tokens')}
    BY <1>4, <2>1, <2>2, DiscountingBill DEF PricesInv
  <2>5. QED
    BY <1>1, <1>4, <2>3, <2>4 DEF PricesInv
<1>5. CASE ~(example = "selecting" \/ example = "discounting")
  BY <1>1, <1>5 DEF PricesInv
<1>6. QED
  BY <1>3, <1>4, <1>5

LEMMA PricesFollow == PricesInv => PricesAreRight
<1> SUFFICES ASSUME PricesInv PROVE PricesAreRight
  OBVIOUS
<1>1. ASSUME example = "selecting"
      PROVE  /\ Selecting!BilledAtBestPrice /\ Selecting!NeverFree
             /\ Selecting!OrderFree /\ Selecting!PrefilterAgrees
  <2>1. SelectingTables /\ bill \in {None, Selecting!Bill}
    BY <1>1, SelectingBill DEF PricesInv
  <2>2. QED
    BY <2>1, SelectingBestPrice, SelectingNeverFree, SelectingOrderFree, SelectingPrefilter
<1>2. ASSUME example = "discounting"
      PROVE  /\ Discounting!BilledAtBestPrice /\ Discounting!NeverFree
             /\ Discounting!OrderFree /\ Discounting!PrefilterAgrees
             /\ Discounting!AppliedExplainsFactor /\ Discounting!NeverDearer
  <2>1. DiscountingTables /\ bill \in {None, Discounting!Bill}
    BY <1>2, DiscountingBill DEF PricesInv
  <2>2. QED
    BY <2>1, DiscountingBestPrice, DiscountingNeverFree, DiscountingOrderFree, DiscountingPrefilter,
       DiscountingExplained, DiscountingNeverDearer
<1>3. QED
  BY <1>1, <1>2 DEF PricesAreRight

\* Whatever tables of prices and discounts the administrator's handlers stored, of
\* any length and in any order: the price billed is the newest valid one of the
\* caller's tier, its group deleted or not; a call with a default price is never
\* free; the SQL conditions and the filters in memory pick the same; the discounts
\* logged explain the factor; and a discount makes no bill dearer or negative
\* (resolve.rs, lib.rs, charge.rs).
THEOREM PricesAlwaysRight == FunctionsSpec => []PricesAreRight
<1>1. FunctionsInit => PricesInv
  BY PricesInitially
<1>2. PricesInv /\ [FunctionsNext]_functionVars => PricesInv'
  BY PricesKept
<1>3. PricesInv => PricesAreRight
  BY PricesFollow
<1>4. QED
  BY <1>1, <1>2, <1>3, PTL DEF FunctionsSpec

-----------------------------------------------------------------------------
(* The channels tried: route.rs, for any channels of a model.                 *)

\* A fold over a function, as Routing has it, is the sum over its domain.
LEMMA FoldIsSum ==
  ASSUME NEW v
  PROVE  FoldFunction(+, 0, v) = SumOf(v)[DOMAIN v]
BY DEF FoldFunction, FoldFunctionOnSet, MapThenFoldSet, IsSum, SumOf, Pick

\* A sum depends on the values at its places alone.
LEMMA SumLocal ==
  ASSUME NEW v, NEW w, NEW S, IsFiniteSet(DOMAIN v), IsFiniteSet(DOMAIN w),
         S \subseteq DOMAIN v, S \subseteq DOMAIN w, \A i \in S : v[i] = w[i]
  PROVE  SumOf(v)[S] = SumOf(w)[S]
<1> DEFINE f == SumOf(v)
           g == SumOf(w)
           Bad == {s \in SUBSET S : f[s] # g[s]}
<1>1. IsFiniteSet(S)
  BY FS_Subset
<1>2. \A s \in SUBSET S : /\ f[s] = IF s = {} THEN 0 ELSE v[Pick(s)] + f[s \ {Pick(s)}]
                          /\ g[s] = IF s = {} THEN 0 ELSE w[Pick(s)] + g[s \ {Pick(s)}]
  BY SumStep
<1> HIDE DEF f, g
<1>3. Bad = {}
  <2> SUFFICES ASSUME Bad # {} PROVE FALSE
    OBVIOUS
  <2>1. PICK s \in Bad : \A u \in SUBSET s : u # s => u \notin Bad
    <3>1. Bad \in SUBSET SUBSET S
      OBVIOUS
    <3> HIDE DEF Bad
    <3>2. QED
      BY <1>1, <3>1, SmallestSet
  <2>2. s # {}
    BY <1>2, <2>1
  <2>3. Pick(s) \in s
    BY <2>2 DEF Pick
  <2>4. f[s \ {Pick(s)}] = g[s \ {Pick(s)}]
    BY <2>1, <2>3
  <2>5. f[s] = g[s]
    BY <1>2, <2>2, <2>3, <2>4
  <2>6. QED
    BY <2>1, <2>5
<1>4. QED
  BY <1>3 DEF f, g

\* Any of the places may be taken out first.
LEMMA SumTakesAny ==
  ASSUME NEW v, IsFiniteSet(DOMAIN v), \A i \in DOMAIN v : v[i] \in Nat,
         NEW S \in SUBSET DOMAIN v, NEW x \in S
  PROVE  SumOf(v)[S] = v[x] + SumOf(v)[S \ {x}]
<1> DEFINE f == SumOf(v)
           Bad == {s \in SUBSET S : \E i \in s : f[s] # v[i] + f[s \ {i}]}
<1>1. IsFiniteSet(S)
  BY FS_Subset
<1>2. \A s \in SUBSET S : s # {} => f[s] = v[Pick(s)] + f[s \ {Pick(s)}]
  BY SumStep
<1>3. \A s \in SUBSET S : f[s] \in Nat
  BY SumNat
<1> HIDE DEF f
<1>4. Bad = {}
  <2> SUFFICES ASSUME Bad # {} PROVE FALSE
    OBVIOUS
  <2>1. PICK s \in Bad : \A u \in SUBSET s : u # s => u \notin Bad
    <3>1. Bad \in SUBSET SUBSET S
      OBVIOUS
    <3> HIDE DEF Bad
    <3>2. QED
      BY <1>1, <3>1, SmallestSet
  <2>2. PICK i \in s : f[s] # v[i] + f[s \ {i}]
    BY <2>1
  <2> DEFINE c == Pick(s)
             rest == s \ {c, i}
  <2>3. c \in s /\ f[s] = v[c] + f[s \ {c}]
    BY <1>2, <2>2 DEF Pick
  <2> HIDE DEF c
  <2>4. c # i
    BY <2>2, <2>3
  <2>5. s \ {c} \notin Bad /\ s \ {i} \notin Bad
    BY <2>1, <2>2, <2>3
  <2>6. f[s \ {c}] = v[i] + f[rest]
    <3>1. (s \ {c}) \ {i} = rest /\ i \in s \ {c}
      BY <2>4
    <3>2. QED
      BY <2>5, <3>1
  <2>7. f[s \ {i}] = v[c] + f[rest]
    <3>1. (s \ {i}) \ {c} = rest /\ c \in s \ {i}
      BY <2>3, <2>4
    <3>2. QED
      BY <2>5, <3>1
  <2>8. f[rest] \in Nat /\ v[c] \in Nat /\ v[i] \in Nat
    BY <1>3, <2>1, <2>2, <2>3
  <2>9. QED
    BY <2>2, <2>3, <2>6, <2>7, <2>8
<1>5. QED
  BY <1>4 DEF f

\* More places, no smaller a sum.
LEMMA SumGrows ==
  ASSUME NEW v, IsFiniteSet(DOMAIN v), \A i \in DOMAIN v : v[i] \in Nat,
         NEW T \in SUBSET DOMAIN v, NEW S \in SUBSET T
  PROVE  SumOf(v)[S] <= SumOf(v)[T]
<1> DEFINE f == SumOf(v)
           Bad == {s \in SUBSET T : S \subseteq s /\ ~(f[S] <= f[s])}
<1>1. IsFiniteSet(T)
  BY FS_Subset
<1>2. \A s \in SUBSET T : f[s] \in Nat /\ \A x \in s : f[s] = v[x] + f[s \ {x}]
  BY SumNat, SumTakesAny
<1> HIDE DEF f
<1>3. Bad = {}
  <2> SUFFICES ASSUME Bad # {} PROVE FALSE
    OBVIOUS
  <2>1. PICK s \in Bad : \A u \in SUBSET s : u # s => u \notin Bad
    <3>1. Bad \in SUBSET SUBSET T
      OBVIOUS
    <3> HIDE DEF Bad
    <3>2. QED
      BY <1>1, <3>1, SmallestSet
  <2>2. f[S] \in Nat /\ f[s] \in Nat
    BY <1>2, <2>1
  <2>3. PICK x \in s : x \notin S
    <3>1. s # S /\ S \subseteq s
      BY <2>1, <2>2
    <3>2. QED
      BY <3>1
  <2>4. S \subseteq s \ {x} /\ s \ {x} \in SUBSET T /\ s \ {x} \notin Bad
    BY <2>1, <2>3
  <2>5. f[S] <= f[s \ {x}]
    BY <2>4
  <2>6. f[s] = v[x] + f[s \ {x}] /\ v[x] \in Nat /\ f[s \ {x}] \in Nat
    BY <1>2, <2>1, <2>3, <2>4
  <2>7. QED
    BY <2>1, <2>2, <2>5, <2>6
<1>4. QED
  BY <1>3 DEF f

\* It is zero when all values are, and then only.
LEMMA SumZero ==
  ASSUME NEW v, IsFiniteSet(DOMAIN v), \A i \in DOMAIN v : v[i] \in Nat, NEW S \in SUBSET DOMAIN v
  PROVE  SumOf(v)[S] = 0 <=> \A i \in S : v[i] = 0
<1>1. ASSUME NEW i \in S
      PROVE  v[i] <= SumOf(v)[S]
  <2>1. SumOf(v)[S] = v[i] + SumOf(v)[S \ {i}] /\ SumOf(v)[S \ {i}] \in Nat
    BY SumTakesAny, SumNat
  <2>2. QED
    BY <2>1
<1>2. SumOf(v)[S] \in Nat
  BY SumNat
<1>3. ASSUME \A i \in S : v[i] = 0
      PROVE  SumOf(v)[S] = 0
  <2> DEFINE f == SumOf(v)
             Bad == {s \in SUBSET S : f[s] # 0}
  <2>1. IsFiniteSet(S)
    BY FS_Subset
  <2>2. \A s \in SUBSET S : f[s] = IF s = {} THEN 0 ELSE v[Pick(s)] + f[s \ {Pick(s)}]
    BY SumStep
  <2> HIDE DEF f
  <2>3. Bad = {}
    <3> SUFFICES ASSUME Bad # {} PROVE FALSE
      OBVIOUS
    <3>1. PICK s \in Bad : \A u \in SUBSET s : u # s => u \notin Bad
      <4>1. Bad \in SUBSET SUBSET S
        OBVIOUS
      <4> HIDE DEF Bad
      <4>2. QED
        BY <2>1, <4>1, SmallestSet
    <3>2. s # {} /\ Pick(s) \in s
      BY <2>2, <3>1 DEF Pick
    <3>3. f[s \ {Pick(s)}] = 0 /\ v[Pick(s)] = 0
      BY <1>3, <3>1, <3>2
    <3>4. QED
      BY <2>2, <3>1, <3>2, <3>3
  <2>4. QED
    BY <2>3 DEF f
<1>4. QED
  BY <1>1, <1>2, <1>3

-----------------------------------------------------------------------------
(* Drawing from a tier: candidates at places, in the order of the places.     *)

\* A tier: candidates at finitely many places, which are numbers.
Standing(t) ==
  /\ t = [i \in DOMAIN t |-> t[i]] /\ DOMAIN t \subseteq Int /\ IsFiniteSet(DOMAIN t)
  /\ \A i \in DOMAIN t : t[i].weight \in Int

Weights(t) == [i \in DOMAIN t |-> Weight(t[i])]
UpTo(t, j) == {i \in DOMAIN t : i <= j}

\* The weight that stands up to a place, and before it.
SumUpTo(t, j) == SumOf(Weights(t))[UpTo(t, j)]
SumBelow(t, j) == SumOf(Weights(t))[UpTo(t, j) \ {j}]

LEMMA WeightsNat ==
  ASSUME NEW t, Standing(t)
  PROVE  /\ IsFiniteSet(DOMAIN Weights(t)) /\ DOMAIN Weights(t) = DOMAIN t
         /\ \A i \in DOMAIN t : Weights(t)[i] = Weight(t[i]) /\ Weights(t)[i] \in Nat
BY DEF Standing, Weights, Weight

\* The sums the walk over a tier compares with its target.
LEMMA TotalsAre ==
  ASSUME NEW t, Standing(t)
  PROVE  /\ Total(t) = SumOf(Weights(t))[DOMAIN t]
         /\ \A j : Total(RestrictDomain(t, LAMBDA i : i <= j)) = SumUpTo(t, j)
<1>1. Total(t) = SumOf(Weights(t))[DOMAIN t]
  <2>1. DOMAIN Weights(t) = DOMAIN t /\ Total(t) = FoldFunction(+, 0, Weights(t))
    BY DEF Total, Weights
  <2>2. QED
    BY <2>1, FoldIsSum
<1>2. ASSUME NEW j
      PROVE  Total(RestrictDomain(t, LAMBDA i : i <= j)) = SumUpTo(t, j)
  <2> DEFINE U == UpTo(t, j)
             v == Weights([i \in U |-> t[i]])
  <2>1. RestrictDomain(t, LAMBDA i : i <= j) = [i \in U |-> t[i]]
    BY DEF RestrictDomain, Restrict, UpTo
  <2>2. Total([i \in U |-> t[i]]) = FoldFunction(+, 0, v)
    BY DEF Total, Weights
  <2>3. FoldFunction(+, 0, v) = SumOf(v)[U]
    <3>1. DOMAIN v = U
      BY DEF Weights
    <3> HIDE DEF v
    <3>2. QED
      BY <3>1, FoldIsSum
  <2>4. /\ DOMAIN v = U /\ U \subseteq DOMAIN Weights(t) /\ IsFiniteSet(U)
        /\ IsFiniteSet(DOMAIN Weights(t)) /\ \A i \in U : v[i] = Weights(t)[i]
    <3>1. U \subseteq DOMAIN t /\ IsFiniteSet(U)
      BY FS_Subset DEF Standing, UpTo
    <3>2. QED
      BY <3>1, WeightsNat DEF Weights
  <2> HIDE DEF v
  <2>5. SumOf(v)[U] = SumOf(Weights(t))[U]
    BY <2>4, SumLocal
  <2>6. QED
    BY <2>1, <2>2, <2>3, <2>5 DEF SumUpTo
<1>3. QED
  BY <1>1, <1>2

\* The place drawn is the one whose own share of the total the target falls into.
LEMMA DrawnIs ==
  ASSUME NEW t, Standing(t), NEW aim \in Nat, aim < Total(t)
  PROVE  /\ Drawn(t, aim) \in DOMAIN t
         /\ \A k \in DOMAIN t :
              k = Drawn(t, aim) <=> SumBelow(t, k) <= aim /\ aim < SumUpTo(t, k)
<1> DEFINE D == DOMAIN t
           s == SumOf(Weights(t))
           Reached(j) == aim < SumUpTo(t, j)
           First(j) == Reached(j) /\ \A i \in D : i < j => ~Reached(i)
           R == {j \in D : Reached(j)}
<1>1. /\ IsFiniteSet(D) /\ D \subseteq Int
      /\ \A T \in SUBSET D : s[T] \in Nat /\ \A S \in SUBSET T : s[S] <= s[T]
  BY WeightsNat, SumNat, SumGrows DEF Standing
<1>2. /\ \A j : SumUpTo(t, j) = s[{i \in D : i <= j}] /\ {i \in D : i <= j} \in SUBSET D
      /\ \A j : SumBelow(t, j) = s[{i \in D : i <= j} \ {j}] /\ {i \in D : i <= j} \ {j} \in SUBSET D
  BY DEF SumUpTo, SumBelow, UpTo
<1>3. \A j : SumUpTo(t, j) \in Nat /\ SumBelow(t, j) \in Nat
  BY <1>1, <1>2
<1>4. Drawn(t, aim) = CHOOSE j \in D : First(j)
  BY TotalsAre DEF Drawn
<1>5. \A i, j \in D : First(i) /\ First(j) => i = j
  BY <1>1
<1>6. ASSUME NEW j \in D, First(j)
      PROVE  SumBelow(t, j) <= aim /\ aim < SumUpTo(t, j)
  <2> DEFINE L == {i \in D : i <= j} \ {j}
  <2>1. CASE L = {}
    <3>1. s[{}] = 0
      BY WeightsNat, SumStep
    <3>2. SumBelow(t, j) = s[L]
      BY <1>2
    <3>3. SumBelow(t, j) = 0
      BY <2>1, <3>1, <3>2
    <3>4. QED
      BY <1>6, <3>3
  <2>2. CASE L # {}
    <3>1. PICK p \in L : \A i \in L : i <= p
      <4> DEFINE f == [i \in L |-> i]
      <4>1. IsFiniteSet(L) /\ \A i \in L : f[i] \in Int
        BY <1>1, FS_Subset
      <4>2. \E p \in L : \A i \in L : f[i] <= f[p]
        <5> HIDE DEF L, f
        <5>1. QED
          BY <2>2, <4>1, Greatest
      <4>3. QED
        BY <4>2
    <3>2. {i \in D : i <= p} = L
      BY <1>1, <1>6, <3>1
    <3>3. ~Reached(p)
      BY <1>1, <1>6, <3>1
    <3>4. SumUpTo(t, p) = SumBelow(t, j)
      BY <1>2, <3>2
    <3>5. QED
      BY <1>3, <1>6, <3>3, <3>4
  <2>3. QED
    BY <2>1, <2>2
<1>7. ASSUME NEW j \in D, SumBelow(t, j) <= aim, aim < SumUpTo(t, j)
      PROVE  First(j)
  <2> SUFFICES ASSUME NEW i \in D, i < j PROVE ~Reached(i)
    BY <1>7
  <2>1. {l \in D : l <= i} \in SUBSET ({l \in D : l <= j} \ {j})
    BY <1>1
  <2>2. SumUpTo(t, i) <= SumBelow(t, j)
    BY <1>1, <1>2, <2>1
  <2>3. QED
    BY <1>3, <1>7, <2>2
<1>8. \E j \in D : First(j)
  <2>1. R # {}
    <3>1. Total(t) = s[D]
      BY TotalsAre
    <3>2. D # {}
      <4>1. s[{}] = 0
        BY WeightsNat, SumStep
      <4>2. QED
        BY <3>1, <4>1
    <3>3. PICK m \in D : \A i \in D : i <= m
      <4> DEFINE f == [i \in D |-> i]
      <4>1. \A i \in D : f[i] \in Int
        BY <1>1
      <4>2. \E m \in D : \A i \in D : f[i] <= f[m]
        <5> HIDE DEF D, f
        <5>1. QED
          BY <1>1, <3>2, <4>1, Greatest
      <4>3. QED
        BY <4>2
    <3>4. {i \in D : i <= m} = D
      BY <3>3
    <3>5. Reached(m)
      BY <1>2, <3>1, <3>4
    <3>6. QED
      BY <3>5
  <2>2. PICK j \in R : \A i \in R : j <= i
    <3> DEFINE f == [i \in R |-> -i]
    <3>1. IsFiniteSet(R) /\ R \subseteq Int /\ \A i \in R : f[i] \in Int
      BY <1>1, FS_Subset
    <3>2. \E j \in R : \A i \in R : f[i] <= f[j]
      <4> HIDE DEF R, f
      <4>1. QED
        BY <2>1, <3>1, Greatest
    <3>3. PICK j \in R : \A i \in R : f[i] <= f[j]
      BY <3>2
    <3>4. \A i \in R : -i <= -j
      BY <3>3
    <3> HIDE DEF R, f
    <3>5. \A i \in R : j <= i
      BY <3>1, <3>4
    <3>6. QED
      BY <3>5
  <2>3. First(j)
    BY <1>1, <2>2
  <2>4. QED
    BY <2>2, <2>3
<1>9. Drawn(t, aim) \in D /\ First(Drawn(t, aim))
  <2> HIDE DEF First
  <2>1. QED
    BY <1>4, <1>8
<1>10. QED
  <2> HIDE DEF First
  <2>1. QED
    BY <1>5, <1>6, <1>7, <1>9

\* Every place owns a stretch of the total as long as its weight.
LEMMA Shares ==
  ASSUME NEW t, Standing(t)
  PROVE  /\ Total(t) \in Nat
         /\ Total(t) = 0 <=> \A k \in DOMAIN t : Weight(t[k]) = 0
         /\ \A k \in DOMAIN t : /\ SumBelow(t, k) \in Nat /\ SumUpTo(t, k) \in Nat
                                /\ SumUpTo(t, k) = Weight(t[k]) + SumBelow(t, k)
                                /\ SumUpTo(t, k) <= Total(t)
                                /\ Weight(t[k]) \in Nat
<1> DEFINE v == Weights(t)
           D == DOMAIN t
<1>1. /\ IsFiniteSet(DOMAIN v) /\ DOMAIN v = D
      /\ \A i \in D : v[i] = Weight(t[i]) /\ v[i] \in Nat
  BY WeightsNat
<1>2. Total(t) = SumOf(v)[D]
  BY TotalsAre
<1> HIDE DEF v
<1>3. SumOf(v)[D] \in Nat /\ (SumOf(v)[D] = 0 <=> \A i \in D : v[i] = 0)
  BY <1>1, SumNat, SumZero
<1>4. ASSUME NEW k \in D
      PROVE  /\ SumBelow(t, k) \in Nat /\ SumUpTo(t, k) \in Nat
             /\ SumUpTo(t, k) = Weight(t[k]) + SumBelow(t, k)
             /\ SumUpTo(t, k) <= Total(t)
  <2> DEFINE U == UpTo(t, k)
  <2>1. U \in SUBSET D /\ U \ {k} \in SUBSET D /\ k \in U
    BY DEF UpTo, Standing
  <2>2. SumBelow(t, k) = SumOf(v)[U \ {k}] /\ SumUpTo(t, k) = SumOf(v)[U]
    BY DEF SumBelow, SumUpTo, v
  <2> HIDE DEF U
  <2>3. SumOf(v)[U \ {k}] \in Nat /\ SumOf(v)[U] \in Nat
    BY <1>1, <2>1, SumNat
  <2>4. SumOf(v)[U] = v[k] + SumOf(v)[U \ {k}]
    BY <1>1, <2>1, SumTakesAny
  <2>5. SumOf(v)[U] <= SumOf(v)[D]
    BY <1>1, <2>1, SumGrows
  <2>6. QED
    BY <1>1, <1>2, <2>2, <2>3, <2>4, <2>5
<1>5. QED
  BY <1>1, <1>2, <1>3, <1>4

\* Who can be drawn: exactly the candidates with a weight.
LEMMA DrawnHasWeight ==
  ASSUME NEW t, Standing(t)
  PROVE  /\ \A n \in 0..(Total(t) - 1) : /\ Drawn(t, n) \in DOMAIN t
                                         /\ Weight(t[Drawn(t, n)]) > 0
         /\ \A k \in DOMAIN t :
              Weight(t[k]) > 0 => \E n \in 0..(Total(t) - 1) : Drawn(t, n) = k
<1>1. ASSUME NEW n \in 0..(Total(t) - 1)
      PROVE  Drawn(t, n) \in DOMAIN t /\ Weight(t[Drawn(t, n)]) > 0
  <2>1. n \in Nat /\ n < Total(t)
    BY Shares
  <2>2. /\ Drawn(t, n) \in DOMAIN t
        /\ SumBelow(t, Drawn(t, n)) <= n /\ n < SumUpTo(t, Drawn(t, n))
    BY <2>1, DrawnIs
  <2>3. QED
    BY <2>1, <2>2, Shares
<1>2. ASSUME NEW k \in DOMAIN t, Weight(t[k]) > 0
      PROVE  \E n \in 0..(Total(t) - 1) : Drawn(t, n) = k
  <2> DEFINE n == SumBelow(t, k)
  <2>1. n \in Nat /\ n < SumUpTo(t, k) /\ n < Total(t) /\ Total(t) \in Nat
    BY <1>2, Shares
  <2>2. Drawn(t, n) = k
    BY <2>1, DrawnIs
  <2>3. n \in 0..(Total(t) - 1)
    BY <2>1
  <2>4. QED
    BY <2>2, <2>3
<1>3. QED
  BY <1>1, <1>2

\* Each as often as its weight says.
LEMMA DrawnByShare ==
  ASSUME NEW t, Standing(t), NEW k \in DOMAIN t
  PROVE  Cardinality({n \in 0..(Total(t) - 1) : Drawn(t, n) = k}) = Weight(t[k])
<1> DEFINE a == SumBelow(t, k)
           b == SumUpTo(t, k)
<1>1. a \in Nat /\ b \in Nat /\ b = Weight(t[k]) + a /\ b <= Total(t) /\ Total(t) \in Nat
  BY Shares
<1>2. \A n \in 0..(Total(t) - 1) : Drawn(t, n) = k <=> a <= n /\ n < b
  BY <1>1, DrawnIs
<1> HIDE DEF a, b
<1>3. {n \in 0..(Total(t) - 1) : Drawn(t, n) = k} = a..(b - 1)
  BY <1>1, <1>2
<1>4. Weight(t[k]) \in Nat
  BY Shares
<1>5. Cardinality(a..(b - 1)) = Weight(t[k])
  <2> DEFINE e == b - 1
  <2>1. a \in Int /\ e \in Int
    BY <1>1
  <2>2. Cardinality(a..e) = IF a > e THEN 0 ELSE e - a + 1
    <3> HIDE DEF e
    <3>1. QED
      BY <2>1, FS_Interval
  <2>3. QED
    BY <1>1, <1>4, <2>2
<1>6. QED
  BY <1>3, <1>5

-----------------------------------------------------------------------------
(* Candidates, known apart by their channels. *)

Known(C) ==
  /\ IsFiniteSet(C)
  /\ \A c \in C : c.channel \in Int /\ c.priority \in Int /\ c.weight \in Int
  /\ \A c, d \in C : c.channel = d.channel => c = d

LEMMA KnownSubset ==
  ASSUME NEW C, Known(C), NEW S \in SUBSET C
  PROVE  Known(S)
BY FS_Subset DEF Known

\* The lowest id exists, and is one candidate's.
LEMMA LowestIs ==
  ASSUME NEW C, Known(C), C # {}
  PROVE  /\ Lowest(C) \in C
         /\ \A c \in C : c = Lowest(C) <=> \A d \in C : c.channel <= d.channel
<1> DEFINE IsLowest(e) == \A d \in C : e.channel <= d.channel
<1>1. \E c \in C : IsLowest(c)
  <2> DEFINE f == [x \in C |-> -x.channel]
  <2>1. \A x \in C : f[x] \in Int /\ f[x] = -x.channel
    BY DEF Known
  <2> HIDE DEF f
  <2>2. PICK c \in C : \A d \in C : f[d] <= f[c]
    BY <2>1, Greatest DEF Known
  <2>3. \A d \in C : -d.channel <= -c.channel
    BY <2>1, <2>2
  <2>4. \A d \in C : c.channel <= d.channel
    BY <2>3 DEF Known
  <2>5. QED
    BY <2>4
<1>2. \A c, d \in C : IsLowest(c) /\ IsLowest(d) => c = d
  <2> SUFFICES ASSUME NEW c \in C, NEW d \in C, IsLowest(c), IsLowest(d) PROVE c = d
    OBVIOUS
  <2>1. c.channel <= d.channel /\ d.channel <= c.channel
    OBVIOUS
  <2>2. c.channel = d.channel
    BY <2>1 DEF Known
  <2>3. QED
    BY <2>2 DEF Known
<1>3. Lowest(C) = CHOOSE c \in C : IsLowest(c)
  BY DEF Lowest
<1>4. Lowest(C) \in C /\ IsLowest(Lowest(C))
  <2> HIDE DEF IsLowest
  <2>1. QED
    BY <1>1, <1>3
<1>5. QED
  <2> HIDE DEF IsLowest
  <2>1. \A c \in C : c = Lowest(C) <=> IsLowest(c)
    BY <1>2, <1>4
  <2>2. QED
    BY <1>4, <2>1 DEF IsLowest

\* In the order of the ids, each stands at its own.
LEMMA ByIdIs ==
  ASSUME NEW C, Known(C)
  PROVE  /\ Standing(ById(C)) /\ DOMAIN ById(C) = {c.channel : c \in C}
         /\ \A c \in C : ById(C)[c.channel] = c
<1> DEFINE t == ById(C)
<1>1. DOMAIN t = {c.channel : c \in C} /\ t = [i \in DOMAIN t |-> t[i]]
  BY DEF ById
<1>2. \A c \in C : t[c.channel] = c
  BY DEF ById, Known
<1>3. IsFiniteSet({c.channel : c \in C})
  <2> DEFINE f == [c \in C |-> c.channel]
  <2>1. f \in Surjection(C, {c.channel : c \in C})
    BY DEF Surjection
  <2>2. QED
    BY <2>1, FS_Surjection DEF Known
<1> HIDE DEF t
<1>4. Standing(t)
  BY <1>1, <1>2, <1>3 DEF Standing, Known
<1>5. QED
  BY <1>1, <1>2, <1>4 DEF t

\* Whom one round of the shuffle may take.
MayCome(C, c) ==
  IF \A d \in C : Weight(d) = 0 THEN \A d \in C : c.channel <= d.channel ELSE Weight(c) > 0

LEMMA TopIsThere ==
  ASSUME NEW S, Known(S), S # {}
  PROVE  Top(S) # {}
<1> DEFINE f == [c \in S |-> c.priority]
<1>1. IsFiniteSet(S) /\ \A c \in S : f[c] \in Int
  BY DEF Known
<1>2. \E c \in S : \A d \in S : f[d] <= f[c]
  <2> HIDE DEF f
  <2>1. QED
    BY <1>1, Greatest
<1>3. QED
  BY <1>2 DEF Top

\* The walk over the cumulated weights and the fallback for none come to that.
LEMMA DrawsAre ==
  ASSUME NEW S, Known(S), S # {}
  PROVE  Draws(S) = {c \in Top(S) : MayCome(Top(S), c)}
<1> DEFINE C == Top(S)
           t == ById(C)
<1>1. Known(C) /\ C # {}
  <2>1. C \in SUBSET S
    BY DEF Top
  <2>2. C # {}
    BY TopIsThere
  <2>3. QED
    BY <2>1, <2>2, KnownSubset
<1>2. Draws(S) = {c \in C : IF Total(t) = 0 THEN c = Lowest(C)
                           ELSE \E aim \in 0..(Total(t) - 1) : c = t[Drawn(t, aim)]}
  BY DEF Draws
<1> HIDE DEF C
<1>3. Standing(t) /\ DOMAIN t = {c.channel : c \in C} /\ \A c \in C : t[c.channel] = c
  BY <1>1, ByIdIs
<1> HIDE DEF t
<1>4. Total(t) = 0 <=> \A d \in C : Weight(d) = 0
  <2>1. Total(t) = 0 <=> \A k \in DOMAIN t : Weight(t[k]) = 0
    BY <1>3, Shares
  <2>2. QED
    BY <1>3, <2>1
<1>5. ASSUME NEW c \in C
      PROVE  (\E aim \in 0..(Total(t) - 1) : c = t[Drawn(t, aim)]) <=> Weight(c) > 0
  <2>1. ASSUME NEW n \in 0..(Total(t) - 1), c = t[Drawn(t, n)]
        PROVE  Weight(c) > 0
    BY <1>3, <2>1, DrawnHasWeight
  <2>2. ASSUME Weight(c) > 0
        PROVE  \E aim \in 0..(Total(t) - 1) : c = t[Drawn(t, aim)]
    <3>1. c.channel \in DOMAIN t /\ t[c.channel] = c
      BY <1>3
    <3>2. PICK n \in 0..(Total(t) - 1) : Drawn(t, n) = c.channel
      BY <1>3, <2>2, <3>1, DrawnHasWeight
    <3>3. QED
      BY <3>1, <3>2
  <2>3. QED
    BY <2>1, <2>2
<1>6. \A c \in C : c = Lowest(C) <=> \A d \in C : c.channel <= d.channel
  BY <1>1, LowestIs
<1>7. Draws(S) = {c \in C : MayCome(C, c)}
  BY <1>2, <1>4, <1>5, <1>6 DEF MayCome
<1>8. QED
  BY <1>7 DEF C

-----------------------------------------------------------------------------
(* Enumerations of a finite set: every element once. *)

LEMMA EnumerationIs ==
  ASSUME NEW C, IsFiniteSet(C), NEW s \in SetToSeqs(C)
  PROVE  /\ Len(s) = Cardinality(C) /\ Len(s) \in Nat /\ DOMAIN s = 1..Len(s)
         /\ s \in Seq(C) /\ \A i \in DOMAIN s : s[i] \in C
         /\ \A i, j \in DOMAIN s : s[i] = s[j] => i = j
         /\ \A c \in C : \E i \in DOMAIN s : s[i] = c
<1> DEFINE n == Cardinality(C)
<1>1. n \in Nat
  BY FS_CardinalityType
<1>2. s \in [1..n -> C] /\ \A i, j \in 1..n : i # j => s[i] # s[j]
  BY DEF SetToSeqs
<1>3. s \in Surjection(1..n, C)
  <2>1. s \in Injection(1..n, C)
    <3> HIDE DEF n
    <3>1. s \in [1..n -> C] /\ \A i, j \in 1..n : s[i] = s[j] => i = j
      BY <1>2
    <3>2. QED
      BY <3>1 DEF Injection, IsInjective
  <2>2. IsFiniteSet(1..n) /\ Cardinality(1..n) = n
    <3> HIDE DEF n
    <3>1. QED
      BY <1>1, FS_Interval
  <2>3. QED
    BY <2>1, <2>2, FS_Injection
<1>4. \A c \in C : \E i \in 1..n : s[i] = c
  BY <1>3 DEF Surjection
<1> HIDE DEF n
<1>5. s \in Seq(C) /\ Len(s) = n /\ DOMAIN s = 1..n
  BY <1>1, <1>2
<1>6. QED
  BY <1>1, <1>2, <1>4, <1>5 DEF n

\* TotalOrder, as sets of pairs.
TotalOrder(R, C) ==
  /\ \A a, b \in C : a # b => <<a, b>> \in R \/ <<b, a>> \in R
  /\ \A a, b, c \in C : <<a, b>> \in R /\ <<b, c>> \in R => <<a, c>> \in R

Sorted(s, R) == \A i, j \in DOMAIN s : i < j => <<s[i], s[j]>> \in R

\* A finite set has a last element in any total order of it ...
LEMMA LastExists ==
  ASSUME NEW C, IsFiniteSet(C), C # {}, NEW R, TotalOrder(R, C)
  PROVE  \E m \in C : \A d \in C : d # m => <<d, m>> \in R
<1> DEFINE Bad == {S \in SUBSET C : S # {} /\ ~\E m \in S : \A d \in S : d # m => <<d, m>> \in R}
<1>1. Bad = {}
  <2> SUFFICES ASSUME Bad # {} PROVE FALSE
    OBVIOUS
  <2>1. PICK S \in Bad : \A U \in SUBSET S : U # S => U \notin Bad
    <3>1. Bad \in SUBSET SUBSET C
      OBVIOUS
    <3> HIDE DEF Bad
    <3>2. QED
      BY <3>1, SmallestSet
  <2>2. PICK c \in S : TRUE
    BY <2>1
  <2> DEFINE U == S \ {c}
  <2>3. U \in SUBSET S /\ U # S /\ U \notin Bad
    <3> HIDE DEF Bad
    <3>1. QED
      BY <2>1, <2>2
  <2>4. U # {}
    BY <2>1, <2>2
  <2>5. PICK m \in U : \A d \in U : d # m => <<d, m>> \in R
    BY <2>1, <2>3, <2>4
  <2>6. c \in C /\ m \in C /\ U \subseteq C /\ m # c
    BY <2>1, <2>2
  <2>7. ~\E x \in S : \A d \in S : d # x => <<d, x>> \in R
    BY <2>1
  <2>8. \A d \in S : d = c \/ d \in U
    OBVIOUS
  <2> HIDE DEF U, Bad
  <2>9. CASE <<m, c>> \in R
    <3>1. \A d \in S : d # c => <<d, c>> \in R
      BY <2>5, <2>6, <2>8, <2>9 DEF TotalOrder
    <3>2. QED
      BY <2>2, <2>7, <3>1
  <2>10. CASE <<c, m>> \in R
    <3>1. \A d \in S : d # m => <<d, m>> \in R
      BY <2>5, <2>8, <2>10
    <3>2. m \in S
      BY <2>5 DEF U
    <3>3. QED
      BY <2>7, <3>1, <3>2
  <2>11. QED
    BY <2>6, <2>9, <2>10 DEF TotalOrder
<1>2. QED
  BY <1>1

\* ... and an enumeration in that order.
LEMMA SortedExists ==
  ASSUME NEW C, IsFiniteSet(C), NEW R, TotalOrder(R, C)
  PROVE  \E s \in SetToSeqs(C) : Sorted(s, R)
<1> DEFINE Bad == {S \in SUBSET C : ~\E s \in SetToSeqs(S) : Sorted(s, R)}
<1>1. Bad = {}
  <2> SUFFICES ASSUME Bad # {} PROVE FALSE
    OBVIOUS
  <2>1. PICK S \in Bad : \A U \in SUBSET S : U # S => U \notin Bad
    <3>1. Bad \in SUBSET SUBSET C
      OBVIOUS
    <3> HIDE DEF Bad
    <3>2. QED
      BY <3>1, SmallestSet
  <2>2. S \in SUBSET C /\ IsFiniteSet(S) /\ TotalOrder(R, S)
    BY <2>1, FS_Subset DEF TotalOrder
  <2>3. S # {}
    <3>1. ASSUME S = {} PROVE FALSE
      <4>1. Cardinality(S) = 0
        BY <3>1, FS_EmptySet
      <4>2. <<>> \in SetToSeqs(S)
        BY <4>1 DEF SetToSeqs
      <4>3. Sorted(<<>>, R)
        BY DEF Sorted
      <4>4. QED
        BY <2>1, <4>2, <4>3
    <3>2. QED
      BY <3>1
  <2>4. PICK m \in S : \A d \in S : d # m => <<d, m>> \in R
    <3> HIDE DEF Bad
    <3>1. QED
      BY <2>2, <2>3, LastExists
  <2> DEFINE U == S \ {m}
  <2>5. PICK q \in SetToSeqs(U) : Sorted(q, R)
    <3>1. U \in SUBSET S /\ U # S /\ U \in SUBSET C
      BY <2>2, <2>4
    <3>2. U \notin Bad
      BY <2>1, <3>1
    <3>3. QED
      BY <3>1, <3>2
  <2>6. IsFiniteSet(U) /\ Cardinality(U) = Cardinality(S) - 1
    BY <2>2, <2>4, FS_RemoveElement
  <2>7. Cardinality(S) \in Nat
    BY <2>2, FS_CardinalityType
  <2>8. ~\E s \in SetToSeqs(S) : Sorted(s, R)
    BY <2>1
  <2> HIDE DEF Bad
  <2> DEFINE k == Cardinality(S)
             s == [i \in 1..k |-> IF i = k THEN m ELSE q[i]]
  <2>9. /\ DOMAIN q = 1..(k - 1) /\ \A i \in 1..(k - 1) : q[i] \in U
        /\ \A i, j \in 1..(k - 1) : q[i] = q[j] => i = j
    BY <2>5, <2>6, EnumerationIs
  <2>10. k \in Nat /\ \A i \in 1..k : i = k \/ i \in 1..(k - 1)
    BY <2>7
  <2>11. \A i \in 1..k : /\ i = k => s[i] = m
                         /\ i # k => i \in 1..(k - 1) /\ s[i] = q[i] /\ q[i] \in U
    BY <2>9, <2>10
  <2>12. \A i \in 1..k : s[i] \in S
    BY <2>4, <2>11
  <2>13. \A i, j \in 1..k : s[i] = s[j] => i = j
    BY <2>9, <2>11
  <2>14. \A i, j \in 1..k : i < j => <<s[i], s[j]>> \in R
    <3> SUFFICES ASSUME NEW i \in 1..k, NEW j \in 1..k, i < j PROVE <<s[i], s[j]>> \in R
      OBVIOUS
    <3>1. i # k
      BY <2>10
    <3>2. CASE j = k
      <4>1. s[i] \in U /\ s[j] = m
        BY <2>11, <3>1, <3>2
      <4>2. QED
        BY <2>4, <4>1
    <3>3. CASE j # k
      <4>1. s[i] = q[i] /\ s[j] = q[j] /\ i \in DOMAIN q /\ j \in DOMAIN q
        BY <2>9, <2>11, <3>1, <3>3
      <4>2. QED
        BY <2>5, <4>1 DEF Sorted
    <3>4. QED
      BY <3>2, <3>3
  <2>15. DOMAIN s = 1..k /\ s \in [1..k -> S]
    BY <2>12
  <2> HIDE DEF s
  <2>16. s \in SetToSeqs(S) /\ Sorted(s, R)
    BY <2>13, <2>14, <2>15 DEF SetToSeqs, Sorted
  <2>17. QED
    BY <2>8, <2>16
<1>2. QED
  BY <1>1

-----------------------------------------------------------------------------
(* The order of the relay and the order of pick_weighted, for any candidates. *)

BeforePairs(C) == {p \in C \X C : Before(p[1], p[2])}
InOrderPairs(C) == {p \in C \X C : Tiers!InOrder(p[1], p[2])}

LEMMA WeightIsNat == ASSUME NEW C, Known(C), NEW c \in C PROVE Weight(c) \in Nat
BY DEF Known, Weight

\* Both orders are total.
LEMMA BeforeOrders == ASSUME NEW C, Known(C) PROVE TotalOrder(BeforePairs(C), C)
<1>1. ASSUME NEW a \in C, NEW b \in C, a # b
      PROVE  <<a, b>> \in BeforePairs(C) \/ <<b, a>> \in BeforePairs(C)
  <2>1. a.channel # b.channel
    BY <1>1 DEF Known
  <2>2. Before(a, b) \/ Before(b, a)
    BY <2>1 DEF Before, Known
  <2>3. QED
    BY <2>2 DEF BeforePairs
<1>2. ASSUME NEW a \in C, NEW b \in C, NEW c \in C,
             <<a, b>> \in BeforePairs(C), <<b, c>> \in BeforePairs(C)
      PROVE  <<a, c>> \in BeforePairs(C)
  <2>1. Before(a, b) /\ Before(b, c)
    BY <1>2 DEF BeforePairs
  <2>2. Before(a, c)
    BY <2>1 DEF Before, Known
  <2>3. QED
    BY <2>2 DEF BeforePairs
<1>3. QED
  BY <1>1, <1>2 DEF TotalOrder

LEMMA WeighsSame == ASSUME NEW c PROVE Tiers!Weight(c) = Weight(c)
BY DEF Tiers!Weight, Weight

LEMMA InOrderOrders == ASSUME NEW C, Known(C) PROVE TotalOrder(InOrderPairs(C), C)
<1>1. ASSUME NEW a \in C, NEW b \in C, a # b
      PROVE  <<a, b>> \in InOrderPairs(C) \/ <<b, a>> \in InOrderPairs(C)
  <2>1. a.channel # b.channel /\ Weight(a) \in Nat /\ Weight(b) \in Nat
    BY <1>1, WeightIsNat DEF Known
  <2>2. Tiers!InOrder(a, b) \/ Tiers!InOrder(b, a)
    BY <2>1, WeighsSame DEF Tiers!InOrder, Known
  <2>3. QED
    BY <2>2 DEF InOrderPairs
<1>2. ASSUME NEW a \in C, NEW b \in C, NEW c \in C,
             <<a, b>> \in InOrderPairs(C), <<b, c>> \in InOrderPairs(C)
      PROVE  <<a, c>> \in InOrderPairs(C)
  <2>1. Tiers!InOrder(a, b) /\ Tiers!InOrder(b, c)
    BY <1>2 DEF InOrderPairs
  <2>2. Weight(a) \in Nat /\ Weight(b) \in Nat /\ Weight(c) \in Nat
    BY WeightIsNat
  <2>3. Tiers!InOrder(a, c)
    BY <2>1, <2>2, WeighsSame DEF Tiers!InOrder, Known
  <2>4. QED
    BY <2>3 DEF InOrderPairs
<1>3. QED
  BY <1>1, <1>2 DEF TotalOrder

\* A draw takes whoever comes before all that are left.
LEMMA DrawsLeads ==
  ASSUME NEW S, Known(S), NEW c \in S
  PROVE  c \in Draws(S) <=> \A d \in S : d # c => Tiers!InOrder(c, d)
<1>1. Draws(S) = {x \in Top(S) : MayCome(Top(S), x)}
  BY DrawsAre
<1>2. \A d \in S : /\ Weight(d) \in Nat /\ Tiers!Weight(d) = Weight(d) /\ d.priority \in Int /\ d.channel \in Int
                   /\ d.channel = c.channel => d = c
  BY WeightIsNat, WeighsSame DEF Known
<1>3. ASSUME c \in Draws(S), NEW d \in S, d # c
      PROVE  Tiers!InOrder(c, d)
  <2>1. c \in Top(S) /\ MayCome(Top(S), c)
    BY <1>1, <1>3
  <2>2. d.priority <= c.priority
    BY <2>1 DEF Top
  <2>3. CASE d.priority = c.priority
    <3>1. d \in Top(S)
      BY <2>1, <2>3 DEF Top
    <3>2. Weight(c) > 0 \/ (Weight(d) = 0 /\ Weight(c) = 0 /\ c.channel <= d.channel)
      BY <2>1, <3>1 DEF MayCome
    <3>3. QED
      BY <1>2, <1>3, <2>3, <3>2 DEF Tiers!InOrder
  <2>4. CASE d.priority # c.priority
    BY <1>2, <2>2, <2>4 DEF Tiers!InOrder
  <2>5. QED
    BY <2>3, <2>4
<1>4. ASSUME \A d \in S : d # c => Tiers!InOrder(c, d)
      PROVE  c \in Draws(S)
  <2>1. c \in Top(S)
    BY <1>2, <1>4 DEF Tiers!InOrder, Top
  <2>2. \A d \in Top(S) : d.priority = c.priority /\ d \in S
    BY <1>2, <2>1 DEF Top
  <2>3. MayCome(Top(S), c)
    <3>1. CASE \A d \in Top(S) : Weight(d) = 0
      <4>1. \A d \in Top(S) : c.channel <= d.channel
        BY <1>2, <1>4, <2>1, <2>2, <3>1 DEF Tiers!InOrder
      <4>2. QED
        BY <3>1, <4>1 DEF MayCome
    <3>2. CASE ~\A d \in Top(S) : Weight(d) = 0
      <4>1. PICK e \in Top(S) : Weight(e) # 0
        BY <3>2
      <4>2. Weight(c) > 0
        BY <1>2, <1>4, <2>2, <4>1 DEF Tiers!InOrder
      <4>3. QED
        BY <3>2, <4>2 DEF MayCome
    <3>3. QED
      BY <3>1, <3>2
  <2>4. QED
    BY <1>1, <2>1, <2>3
<1>5. QED
  BY <1>3, <1>4

\* OrdersAreTiered: the orders of the shuffle are the enumerations in order.
LEMMA OrdersTiered ==
  ASSUME NEW C, Known(C)
  PROVE  weighted_failover_order(C) =
           {o \in SetToSeqs(C) : \A i, j \in DOMAIN o : i < j => Tiers!InOrder(o[i], o[j])}
<1>1. ASSUME NEW o \in SetToSeqs(C)
      PROVE  (\A i \in DOMAIN o : o[i] \in Draws({o[j] : j \in i..Len(o)}))
               <=> \A i, j \in DOMAIN o : i < j => Tiers!InOrder(o[i], o[j])
  <2>1. /\ Len(o) \in Nat /\ DOMAIN o = 1..Len(o) /\ \A i \in DOMAIN o : o[i] \in C
        /\ \A i, j \in DOMAIN o : o[i] = o[j] => i = j
    BY EnumerationIs DEF Known
  <2>2. ASSUME NEW i \in DOMAIN o
        PROVE  o[i] \in Draws({o[j] : j \in i..Len(o)})
                 <=> \A j \in DOMAIN o : i < j => Tiers!InOrder(o[i], o[j])
    <3> DEFINE S == {o[j] : j \in i..Len(o)}
    <3>1. \A j \in i..Len(o) : j \in DOMAIN o /\ o[j] \in C
      BY <2>1
    <3>2. S \in SUBSET C /\ o[i] \in S
      BY <2>1, <3>1
    <3>3. Known(S)
      <4> HIDE DEF S
      <4>1. QED
        BY <3>2, KnownSubset
    <3>4. (\A d \in S : d # o[i] => Tiers!InOrder(o[i], d))
            <=> \A j \in DOMAIN o : i < j => Tiers!InOrder(o[i], o[j])
      <4>1. ASSUME \A d \in S : d # o[i] => Tiers!InOrder(o[i], d), NEW j \in DOMAIN o, i < j
            PROVE  Tiers!InOrder(o[i], o[j])
        <5>1. j \in i..Len(o) /\ j # i
          BY <2>1, <4>1
        <5>2. o[j] \in S /\ o[j] # o[i]
          BY <2>1, <5>1
        <5>3. QED
          BY <4>1, <5>2
      <4>2. ASSUME \A j \in DOMAIN o : i < j => Tiers!InOrder(o[i], o[j]), NEW d \in S, d # o[i]
            PROVE  Tiers!InOrder(o[i], d)
        <5>1. PICK j \in i..Len(o) : d = o[j]
          OBVIOUS
        <5>2. j \in DOMAIN o /\ i < j
          BY <2>1, <4>2, <5>1
        <5>3. QED
          BY <4>2, <5>1, <5>2
      <4>3. QED
        BY <4>1, <4>2
    <3>5. QED
      <4> HIDE DEF S
      <4>1. o[i] \in Draws(S) <=> \A j \in DOMAIN o : i < j => Tiers!InOrder(o[i], o[j])
        BY <3>2, <3>3, <3>4, DrawsLeads
      <4>2. QED
        BY <4>1 DEF S
  <2>3. QED
    BY <2>2
<1>2. QED
  BY <1>1 DEF weighted_failover_order

\* rank_routes has a result: the order of the preview is total.
LEMMA RankIs ==
  ASSUME NEW C, Known(C)
  PROVE  rank_routes(C) \in SetToSeqs(C)
<1>1. \E s \in SetToSeqs(C) : Sorted(s, BeforePairs(C))
  BY BeforeOrders, SortedExists DEF Known
<1>2. ASSUME NEW s \in SetToSeqs(C), Sorted(s, BeforePairs(C))
      PROVE  \A i, j \in DOMAIN s : i < j => Before(s[i], s[j])
  BY <1>2 DEF Sorted, BeforePairs
<1>3. \E s \in SetToSeqs(C) : \A i, j \in DOMAIN s : i < j => Before(s[i], s[j])
  BY <1>1, <1>2
<1>4. QED
  BY <1>3 DEF rank_routes

\* The tier of pick_weighted holds the candidates of the first, each at one place.
LEMMA TopTierIs ==
  ASSUME NEW C, Known(C), NEW s \in SetToSeqs(C)
  PROVE  /\ Standing(TopTier(s)) /\ Range(TopTier(s)) = Top(C)
         /\ \A i \in DOMAIN TopTier(s) : TopTier(s)[i] \in Top(C)
         /\ \A i, j \in DOMAIN TopTier(s) : TopTier(s)[i] = TopTier(s)[j] => i = j
         /\ \A c \in Top(C) : \E i \in DOMAIN TopTier(s) : TopTier(s)[i] = c
<1>1. /\ Len(s) \in Nat /\ DOMAIN s = 1..Len(s) /\ \A i \in DOMAIN s : s[i] \in C
      /\ \A i, j \in DOMAIN s : s[i] = s[j] => i = j
      /\ \A c \in C : \E i \in DOMAIN s : s[i] = c
  BY EnumerationIs DEF Known
<1> DEFINE D == {i \in DOMAIN s : \A d \in C : d.priority <= s[i].priority}
           t == [i \in D |-> s[i]]
<1>2. Range(s) = C
  BY <1>1 DEF Range
<1>3. TopTier(s) = t
  BY <1>2 DEF TopTier, RestrictValues, Restrict
<1>4. D \subseteq Int /\ IsFiniteSet(D)
  <2>1. D \subseteq 1..Len(s)
    BY <1>1
  <2> HIDE DEF D
  <2>2. IsFiniteSet(1..Len(s)) /\ 1..Len(s) \subseteq Int
    BY <1>1, FS_Interval
  <2>3. QED
    BY <2>1, <2>2, FS_Subset
<1>5. /\ \A i \in D : t[i] = s[i] /\ s[i] \in C /\ s[i] \in Top(C)
      /\ \A c \in Top(C) : \E i \in D : s[i] = c
  BY <1>1 DEF Top
<1>6. \A i, j \in D : t[i] = t[j] => i = j
  BY <1>1
<1>7. DOMAIN t = D /\ t = [i \in DOMAIN t |-> t[i]]
  OBVIOUS
<1> HIDE DEF D, t
<1>8. Standing(t)
  BY <1>4, <1>5, <1>7 DEF Standing, Known
<1>9. Range(t) = Top(C)
  BY <1>5, <1>7 DEF Range
<1>10. QED
  BY <1>3, <1>5, <1>6, <1>7, <1>8, <1>9

\* What pick_weighted returns for a number.
LEMMA PickIs ==
  ASSUME NEW C, Known(C), C # {}, NEW s \in SetToSeqs(C), NEW n \in Nat
  PROVE  /\ Total(TopTier(s)) \in Nat
         /\ Total(TopTier(s)) = 0 => pick_weighted(s, n) = Lowest(Top(C))
         /\ Total(TopTier(s)) # 0 =>
              /\ n % Total(TopTier(s)) \in 0..(Total(TopTier(s)) - 1)
              /\ n < Total(TopTier(s)) => n % Total(TopTier(s)) = n
              /\ pick_weighted(s, n) = TopTier(s)[Drawn(TopTier(s), n % Total(TopTier(s)))]
<1> DEFINE t == TopTier(s)
<1>1. Standing(t) /\ Range(t) = Top(C)
  BY TopTierIs
<1>2. s # <<>>
  <2>1. PICK c \in C : TRUE
    OBVIOUS
  <2>2. \E i \in DOMAIN s : s[i] = c
    BY EnumerationIs DEF Known
  <2>3. QED
    BY <2>2
<1> HIDE DEF t
<1>3. Total(t) \in Nat
  BY <1>1, Shares
<1>4. pick_weighted(s, n) = IF Total(t) = 0 THEN Lowest(Top(C)) ELSE t[Drawn(t, n % Total(t))]
  BY <1>1, <1>2 DEF pick_weighted, t
<1>5. ASSUME Total(t) # 0
      PROVE  n % Total(t) \in 0..(Total(t) - 1) /\ (n < Total(t) => n % Total(t) = n)
  <2> DEFINE T == Total(t)
  <2>1. T \in Nat /\ T # 0
    BY <1>3, <1>5
  <2> HIDE DEF T
  <2>2. n % T \in 0..(T - 1) /\ (n < T => n % T = n)
    BY <2>1
  <2>3. QED
    BY <2>2 DEF T
<1>6. QED
  BY <1>3, <1>4, <1>5 DEF t

\* PickAgrees, first half: pick_weighted returns whom a draw can take.
LEMMA PicksAreDraws ==
  ASSUME NEW C, Known(C), C # {}, NEW s \in SetToSeqs(C)
  PROVE  {pick_weighted(s, n) : n \in 0..Total(TopTier(s))} = Draws(C)
<1> DEFINE t == TopTier(s)
           T == Total(t)
<1>1. /\ Standing(t) /\ \A i \in DOMAIN t : t[i] \in Top(C)
      /\ \A c \in Top(C) : \E i \in DOMAIN t : t[i] = c
  BY TopTierIs
<1>2. /\ T \in Nat
      /\ \A n \in Nat : /\ T = 0 => pick_weighted(s, n) = Lowest(Top(C))
                        /\ T # 0 => /\ n % T \in 0..(T - 1) /\ (n < T => n % T = n)
                                    /\ pick_weighted(s, n) = t[Drawn(t, n % T)]
  <2>1. T \in Nat
    BY <1>1, Shares
  <2>2. QED
    BY <2>1, PickIs
<1>3. Draws(C) = {c \in Top(C) : MayCome(Top(C), c)}
  BY DrawsAre
<1>4. T = 0 <=> \A c \in Top(C) : Weight(c) = 0
  <2>1. T = 0 <=> \A k \in DOMAIN t : Weight(t[k]) = 0
    BY <1>1, Shares
  <2>2. QED
    BY <1>1, <2>1
<1>5. Known(Top(C)) /\ Top(C) # {}
  <2>1. Top(C) \in SUBSET C
    BY DEF Top
  <2>2. Top(C) # {}
    BY TopIsThere
  <2>3. QED
    BY <2>1, <2>2, KnownSubset
<1>6. CASE T = 0
  <2>1. Lowest(Top(C)) \in Top(C) /\ \A c \in Top(C) : c = Lowest(Top(C)) <=> \A d \in Top(C) : c.channel <= d.channel
    BY <1>5, LowestIs
  <2>2. Draws(C) = {Lowest(Top(C))}
    BY <1>3, <1>4, <1>6, <2>1 DEF MayCome
  <2>3. {pick_weighted(s, n) : n \in 0..T} = {Lowest(Top(C))}
    <3> HIDE DEF T, t
    <3>1. 0 \in 0..T /\ \A n \in 0..T : pick_weighted(s, n) = Lowest(Top(C))
      BY <1>2, <1>6
    <3>2. QED
      BY <3>1
  <2>4. QED
    BY <2>2, <2>3
<1>7. CASE T # 0
  <2>1. Draws(C) = {c \in Top(C) : Weight(c) > 0}
    BY <1>3, <1>4, <1>7 DEF MayCome
  <2>2. /\ \A n \in 0..(T - 1) : Drawn(t, n) \in DOMAIN t /\ Weight(t[Drawn(t, n)]) > 0
        /\ \A k \in DOMAIN t : Weight(t[k]) > 0 => \E n \in 0..(T - 1) : Drawn(t, n) = k
    BY <1>1, DrawnHasWeight
  <2> HIDE DEF T, t
  <2>3. ASSUME NEW n \in 0..T
        PROVE  pick_weighted(s, n) \in Draws(C)
    <3>1. n \in Nat /\ n % T \in 0..(T - 1) /\ pick_weighted(s, n) = t[Drawn(t, n % T)]
      BY <1>2, <1>7
    <3>2. QED
      BY <1>1, <2>1, <2>2, <3>1
  <2>4. ASSUME NEW c \in Draws(C)
        PROVE  \E n \in 0..T : pick_weighted(s, n) = c
    <3>1. c \in Top(C) /\ Weight(c) > 0
      BY <2>1
    <3>2. PICK k \in DOMAIN t : t[k] = c
      BY <1>1, <3>1
    <3>3. PICK n \in 0..(T - 1) : Drawn(t, n) = k
      BY <2>2, <3>1, <3>2
    <3>4. n \in Nat /\ n \in 0..T /\ n < T
      BY <1>2
    <3>5. n % T = n /\ pick_weighted(s, n) = t[Drawn(t, n % T)]
      BY <1>2, <1>7, <3>4
    <3>6. QED
      BY <3>2, <3>3, <3>4, <3>5
  <2>5. {pick_weighted(s, n) : n \in 0..T} = Draws(C)
    BY <2>3, <2>4
  <2>6. QED
    BY <2>5 DEF T, t
<1>8. QED
  BY <1>6, <1>7

\* PickAgrees, second half: an order of the shuffle can start with any of them.
LEMMA DrawsStart ==
  ASSUME NEW C, Known(C), C # {}
  PROVE  {o[1] : o \in weighted_failover_order(C)} = Draws(C)
<1>1. ASSUME NEW o \in weighted_failover_order(C)
      PROVE  o[1] \in Draws(C)
  <2>1. o \in SetToSeqs(C) /\ \A i \in DOMAIN o : o[i] \in Draws({o[j] : j \in i..Len(o)})
    BY DEF weighted_failover_order
  <2>2. /\ Len(o) \in Nat /\ DOMAIN o = 1..Len(o) /\ \A i \in DOMAIN o : o[i] \in C
        /\ \A c \in C : \E i \in DOMAIN o : o[i] = c
    BY <2>1, EnumerationIs DEF Known
  <2>3. 1 \in DOMAIN o
    BY <2>2
  <2>4. {o[j] : j \in 1..Len(o)} = C
    BY <2>2
  <2>5. QED
    BY <2>1, <2>3, <2>4
<1>2. ASSUME NEW c \in Draws(C)
      PROVE  \E o \in weighted_failover_order(C) : o[1] = c
  <2>1. c \in C
    BY DEF Draws, Top
  <2>2. \A d \in C : d # c => Tiers!InOrder(c, d)
    BY <2>1, DrawsLeads
  <2> DEFINE R == {p \in C \X C : p[1] = c \/ (p[2] # c /\ p \in InOrderPairs(C))}
  <2>3. \A a, b \in C : <<a, b>> \in R <=> a = c \/ (b # c /\ <<a, b>> \in InOrderPairs(C))
    OBVIOUS
  <2> HIDE DEF R
  <2>4. TotalOrder(R, C)
    <3>1. TotalOrder(InOrderPairs(C), C)
      BY InOrderOrders
    <3>2. \A a, b \in C : a # b => <<a, b>> \in R \/ <<b, a>> \in R
      BY <2>3, <3>1 DEF TotalOrder
    <3>3. \A a, b, d \in C : <<a, b>> \in R /\ <<b, d>> \in R => <<a, d>> \in R
      BY <2>3, <3>1 DEF TotalOrder
    <3>4. QED
      BY <3>2, <3>3 DEF TotalOrder
  <2>5. PICK o \in SetToSeqs(C) : Sorted(o, R)
    BY <2>4, SortedExists DEF Known
  <2>6. /\ Len(o) \in Nat /\ DOMAIN o = 1..Len(o) /\ \A i \in DOMAIN o : o[i] \in C
        /\ \A i, j \in DOMAIN o : o[i] = o[j] => i = j
        /\ \A d \in C : \E i \in DOMAIN o : o[i] = d
    BY EnumerationIs DEF Known
  <2>7. \A i, j \in DOMAIN o : i < j => Tiers!InOrder(o[i], o[j])
    <3> SUFFICES ASSUME NEW i \in DOMAIN o, NEW j \in DOMAIN o, i < j PROVE Tiers!InOrder(o[i], o[j])
      OBVIOUS
    <3>1. o[i] # o[j] /\ o[i] \in C /\ o[j] \in C
      BY <2>6
    <3>2. o[i] = c \/ <<o[i], o[j]>> \in InOrderPairs(C)
      BY <2>3, <2>5, <3>1 DEF Sorted
    <3>3. QED
      BY <2>2, <3>1, <3>2 DEF InOrderPairs
  <2>8. o \in weighted_failover_order(C)
    BY <2>7, OrdersTiered
  <2>9. o[1] = c
    <3>1. PICK i \in DOMAIN o : o[i] = c
      BY <2>1, <2>6
    <3>2. CASE i = 1
      BY <3>1, <3>2
    <3>3. CASE i # 1
      <4>1. 1 \in DOMAIN o /\ 1 < i
        BY <2>6, <3>3
      <4>2. <<o[1], c>> \in R
        BY <2>5, <3>1, <4>1 DEF Sorted
      <4>3. o[1] = c
        BY <2>1, <2>3, <2>6, <4>1, <4>2
      <4>4. QED
        BY <4>3
    <3>4. QED
      BY <3>2, <3>3
  <2>10. QED
    BY <2>8, <2>9
<1>3. QED
  BY <1>1, <1>2

\* Proportional: a channel owns as many numbers as its weight.
LEMMA PicksByShare ==
  ASSUME NEW C, Known(C), C # {}, NEW s \in SetToSeqs(C), NEW c \in Top(C), Total(TopTier(s)) # 0
  PROVE  Cardinality({n \in 0..(Total(TopTier(s)) - 1) : pick_weighted(s, n) = c}) = Weight(c)
<1> DEFINE t == TopTier(s)
           T == Total(t)
<1>1. /\ Standing(t)
      /\ \A i, j \in DOMAIN t : t[i] = t[j] => i = j
      /\ \E i \in DOMAIN t : t[i] = c
  BY TopTierIs
<1>2. PICK k \in DOMAIN t : t[k] = c
  BY <1>1
<1>3. ASSUME NEW n \in 0..(T - 1)
      PROVE  pick_weighted(s, n) = c <=> Drawn(t, n) = k
  <2>1. T \in Nat
    BY <1>1, Shares
  <2>2. n \in Nat /\ n < T
    BY <2>1
  <2>3. pick_weighted(s, n) = t[Drawn(t, n)]
    BY <2>2, PickIs
  <2>4. Drawn(t, n) \in DOMAIN t
    BY <1>1, DrawnHasWeight
  <2>5. QED
    BY <1>1, <1>2, <2>3, <2>4
<1>4. {n \in 0..(T - 1) : pick_weighted(s, n) = c} = {n \in 0..(T - 1) : Drawn(t, n) = k}
  BY <1>3
<1>5. Cardinality({n \in 0..(T - 1) : Drawn(t, n) = k}) = Weight(t[k])
  BY <1>1, DrawnByShare
<1>6. QED
  BY <1>2, <1>4, <1>5

-----------------------------------------------------------------------------
(* The channels of the example, routed by the instance of MCFunctions.        *)

LEMMA CardinalitySame == ASSUME NEW S PROVE Tiers!Cardinality(S) = Cardinality(S)
BY DEF Tiers!Cardinality, Cardinality

\* The instance routes with the operators of Routing.
LEMMA TiersRoute ==
  /\ \A C : Tiers!rank_routes(C) = rank_routes(C)
  /\ \A C : Tiers!weighted_failover_order(C) = weighted_failover_order(C)
  /\ \A s : Tiers!TopTier(s) = TopTier(s)
  /\ \A t : Tiers!Total(t) = Total(t)
  /\ \A s, n : Tiers!pick_weighted(s, n) = pick_weighted(s, n)
<1>1. ASSUME NEW C
      PROVE  Tiers!rank_routes(C) = rank_routes(C)
  BY CardinalitySame DEF Tiers!rank_routes, rank_routes, Tiers!SetToSeqs, SetToSeqs, Tiers!Before, Before
<1>2. ASSUME NEW t
      PROVE  Tiers!Total(t) = Total(t)
  BY DEF Tiers!Total, Total, Tiers!Weight, Weight, Tiers!FoldFunction, FoldFunction,
         Tiers!FoldFunctionOnSet, FoldFunctionOnSet, Tiers!MapThenFoldSet, MapThenFoldSet
<1>3. ASSUME NEW s
      PROVE  Tiers!TopTier(s) = TopTier(s)
  BY DEF Tiers!TopTier, TopTier, Tiers!RestrictValues, RestrictValues, Tiers!Restrict, Restrict,
         Tiers!Range, Range
<1>4. ASSUME NEW t, NEW n
      PROVE  Tiers!Drawn(t, n) = Drawn(t, n)
  BY DEF Tiers!Drawn, Drawn, Tiers!RestrictDomain, RestrictDomain, Tiers!Restrict, Restrict,
         Tiers!Total, Total, Tiers!Weight, Weight, Tiers!FoldFunction, FoldFunction,
         Tiers!FoldFunctionOnSet, FoldFunctionOnSet, Tiers!MapThenFoldSet, MapThenFoldSet
<1>5. ASSUME NEW S
      PROVE  Tiers!Lowest(S) = Lowest(S) /\ Tiers!Top(S) = Top(S) /\ Tiers!ById(S) = ById(S)
  BY DEF Tiers!Lowest, Lowest, Tiers!Top, Top, Tiers!ById, ById
<1>6. ASSUME NEW s, NEW n
      PROVE  Tiers!pick_weighted(s, n) = pick_weighted(s, n)
  <2>1. Tiers!Range(TopTier(s)) = Range(TopTier(s))
    BY DEF Tiers!Range, Range
  <2>2. QED
    BY <1>2, <1>3, <1>4, <1>5, <2>1 DEF Tiers!pick_weighted, pick_weighted
<1>7. ASSUME NEW S
      PROVE  Tiers!Draws(S) = Draws(S)
  BY <1>2, <1>4, <1>5 DEF Tiers!Draws, Draws
<1>8. ASSUME NEW C
      PROVE  Tiers!weighted_failover_order(C) = weighted_failover_order(C)
  <2>1. Tiers!SetToSeqs(C) = SetToSeqs(C)
    BY CardinalitySame DEF Tiers!SetToSeqs, SetToSeqs
  <2>2. QED
    BY <1>7, <2>1 DEF Tiers!weighted_failover_order, weighted_failover_order
<1>9. QED
  BY <1>1, <1>2, <1>3, <1>6, <1>8

\* Routes and channels as Init of RoutingCases chooses them.
RouteTables ==
  /\ routes \in [RoutedChannel -> [enabled : {TRUE}, priority : OwnPriority, weight : OwnWeight]]
  /\ channels \in [RoutedChannel -> [status : {"Enabled", "CircuitBroken"},
                                     priority : RoutedPriority, weight : RoutedWeight]]

\* A model has one route to a channel: candidates are known by their channels.
LEMMA CandidatesAreKnown ==
  ASSUME RouteTables
  PROVE  Known(Tiers!Cands)
<1>1. /\ IsFiniteSet(RoutedChannel) /\ RoutedChannel \cup RoutedPriority \cup RoutedWeight \subseteq Int
      /\ OwnPriority \cup OwnWeight \subseteq Int \cup {None}
  BY RoutesAssumption DEF Tiers!RoutingAssumption, Tiers!IsFiniteSet, IsFiniteSet
<1> DEFINE E == {d \in DOMAIN routes \cap DOMAIN channels :
                   routes[d].enabled /\ channels[d].status = "Enabled"}
           Cand(c) == [channel |-> c,
                       priority |-> Tiers!Effective(routes[c].priority, channels[c].priority),
                       weight |-> Tiers!Effective(routes[c].weight, channels[c].weight)]
           f == [c \in E |-> Cand(c)]
<1>2. Tiers!Cands = {Cand(c) : c \in E}
  BY DEF Tiers!Cands, Tiers!Candidates
<1>3. E \subseteq RoutedChannel
  BY DEF RouteTables
<1>4. \A c \in E : /\ c \in Int /\ Cand(c).channel = c
                   /\ Cand(c).priority \in Int /\ Cand(c).weight \in Int
  <2> SUFFICES ASSUME NEW c \in E
               PROVE  /\ c \in Int /\ Cand(c).channel = c
                      /\ Cand(c).priority \in Int /\ Cand(c).weight \in Int
    OBVIOUS
  <2>1. /\ routes[c].priority \in Int \cup {None} /\ routes[c].weight \in Int \cup {None}
        /\ channels[c].priority \in Int /\ channels[c].weight \in Int
    BY <1>1, <1>3 DEF RouteTables
  <2>2. QED
    BY <1>1, <1>3, <2>1 DEF Tiers!Effective
<1>5. IsFiniteSet({Cand(c) : c \in E})
  <2>1. IsFiniteSet(E)
    BY <1>1, <1>3, FS_Subset
  <2>2. f \in Surjection(E, {Cand(c) : c \in E})
    <3> HIDE DEF Cand, E
    <3>1. QED
      BY DEF Surjection
  <2>3. QED
    BY <2>1, <2>2, FS_Surjection
<1> HIDE DEF Cand, E
<1>6. QED
  BY <1>2, <1>4, <1>5 DEF Known

\* The inductive invariant: tables of the example, and of them the order.
RoutesInv ==
  /\ example # "routes" => failover = None
  /\ example = "routes" =>
       /\ RouteTables
       /\ failover # None =>
            failover = [ranked |-> Tiers!rank_routes(Tiers!Cands),
                        orders |-> Tiers!weighted_failover_order(Tiers!Cands)]

LEMMA RoutesInitially == FunctionsInit => RoutesInv
BY DEF FunctionsInit, RoutesInv, RouteTables, Tiers!Init, NoRoute

\* Only a resolution writes an order, and it leaves the tables alone.
LEMMA RoutesKept == RoutesInv /\ [FunctionsNext]_functionVars => RoutesInv'
<1> SUFFICES ASSUME RoutesInv, [FunctionsNext]_functionVars PROVE RoutesInv'
  OBVIOUS
<1>1. CASE example = "routes" /\ Tiers!Next /\ example' = example
  BY <1>1 DEF RoutesInv, RouteTables, Tiers!Next, Tiers!Resolve, Tiers!Cands
<1>2. CASE UNCHANGED <<example, routeVars>>
  BY <1>2 DEF RoutesInv, RouteTables, routeVars, Tiers!Cands
<1>3. QED
  <2>1. CASE UNCHANGED functionVars
    BY <1>2, <2>1 DEF functionVars
  <2>2. CASE FunctionsNext
    BY <1>1, <1>2, <2>2 DEF FunctionsNext, Conversions!Next, Chunking!Next, Limits!Next
  <2>3. QED
    BY <2>1, <2>2

LEMMA RoutesFollow == RoutesInv => ChannelsInTiers
<1> SUFFICES ASSUME RoutesInv PROVE ChannelsInTiers
  OBVIOUS
<1>1. CASE failover = None
  BY <1>1 DEF ChannelsInTiers, Tiers!OrdersAreTiered, Tiers!PickAgrees, Tiers!Proportional, Tiers!Resolved
<1>2. CASE failover # None
  <2> DEFINE C == Tiers!Cands
             s == rank_routes(C)
  <2>1. /\ RouteTables
        /\ failover = [ranked |-> Tiers!rank_routes(C), orders |-> Tiers!weighted_failover_order(C)]
    BY <1>2 DEF RoutesInv
  <2>2. Known(C)
    BY <2>1, CandidatesAreKnown
  <2>3. failover.ranked = s /\ failover.orders = weighted_failover_order(C)
    BY <2>1, TiersRoute
  <2> HIDE DEF C
  <2>4. s \in SetToSeqs(C)
    BY <2>2, RankIs
  <2> HIDE DEF s
  <2>5. Tiers!OrdersAreTiered
    <3>1. weighted_failover_order(C) =
            {o \in SetToSeqs(C) : \A i, j \in DOMAIN o : i < j => Tiers!InOrder(o[i], o[j])}
      BY <2>2, OrdersTiered
    <3>2. Tiers!SetToSeqs(C) = SetToSeqs(C)
      BY CardinalitySame DEF Tiers!SetToSeqs, SetToSeqs
    <3>3. QED
      BY <2>3, <3>1, <3>2 DEF Tiers!OrdersAreTiered, C
  <2>6. Tiers!PickAgrees
    <3>1. ASSUME C # {}
          PROVE  {o[1] : o \in weighted_failover_order(C)} = {pick_weighted(s, n) : n \in 0..Total(TopTier(s))}
      BY <2>2, <2>4, <3>1, PicksAreDraws, DrawsStart
    <3>2. {Tiers!pick_weighted(failover.ranked, n) : n \in 0..Tiers!Total(Tiers!TopTier(failover.ranked))}
            = {pick_weighted(s, n) : n \in 0..Total(TopTier(s))}
      BY <2>3, TiersRoute
    <3>3. {o[1] : o \in failover.orders} = {o[1] : o \in weighted_failover_order(C)}
      BY <2>3
    <3>4. QED
      BY <3>1, <3>2, <3>3 DEF Tiers!PickAgrees, C
  <2>7. Tiers!Proportional
    <3>1. ASSUME C # {}, Total(TopTier(s)) > 0, NEW c \in Range(TopTier(s))
          PROVE  Cardinality({n \in 0..(Total(TopTier(s)) - 1) : pick_weighted(s, n) = c}) = Weight(c)
      <4>1. c \in Top(C) /\ Total(TopTier(s)) # 0
        BY <2>2, <2>4, <3>1, TopTierIs
      <4>2. QED
        BY <2>2, <2>4, <3>1, <4>1, PicksByShare
    <3>2. QED
      BY <2>3, <3>1, TiersRoute, WeighsSame, CardinalitySame DEF Tiers!Proportional, Tiers!Range, Range, C
  <2>8. QED
    BY <2>5, <2>6, <2>7 DEF ChannelsInTiers
<1>3. QED
  BY <1>1, <1>2

\* For any channels, priorities and weights of channels and routes: the orders in which a request
\* may try the channels are exactly the enumerations of the candidates by tiers, pick_weighted
\* returns whom they can start with, and returns each for as many numbers as its weight
\* (rank_routes, pick_weighted and weighted_failover_order of route.rs).
THEOREM ChannelsAlwaysInTiers == FunctionsSpec => []ChannelsInTiers
<1>1. RoutesInv /\ UNCHANGED functionVars => RoutesInv'
  BY RoutesKept
<1>2. QED
  BY RoutesInitially, RoutesKept, RoutesFollow, PTL DEF FunctionsSpec
=============================================================================
