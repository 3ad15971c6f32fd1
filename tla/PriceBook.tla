----------------------------- MODULE PriceBook -----------------------------
(***************************************************************************)
(* The price table of one model under concurrent administration            *)
(* (crates/pricing/src/price.rs, gateway/src/model.rs): prices get a       *)
(* version when they are created, may be corrected in place or deleted,    *)
(* and compete in Pricing!select_price.                                    *)
(***************************************************************************)
EXTENDS Pricing, FiniteSetsExt

CONSTANTS
  Group,       \* groups that can have a price of their own
  Handler,     \* create requests in progress
  MaxPrices,   \* bound: prices ever inserted
  MaxEdits,    \* bound: corrections and deletions
  MaxUnits,    \* bound: changes of the model's billing unit
  MaxTime      \* bound: the clock

VARIABLES
  unit,    \* models.billing_unit
  book,    \* rows of prices: [id, group, unit, version, from, to]
  nextId,
  now,
  pos,     \* a handler: position
  draft,   \* a handler: group and validity asked for, unit and version found
  before,  \* history: prices that existed when it read the newest version
  edits, units

vars == <<unit, book, nextId, now, pos, draft, before, edits, units>>

Unit == {"token", "image"}
Time == 1..MaxTime
Row == [id : 1..MaxPrices, group : Group \cup {None}, unit : Unit,
        version : 1..MaxPrices, from : Time, to : (Time \cup {MaxTime + 1}) \cup {None}]
Draft == [group : Group \cup {None}, unit : Unit, version : 0..(MaxPrices + 1),
          from : Time, to : (Time \cup {MaxTime + 1}) \cup {None}]

PriceBookAssumption ==
  /\ {MaxPrices, MaxEdits, MaxUnits} \subseteq Nat /\ MaxTime \in Nat \ {0}
  /\ None \notin Group \cup Row \cup Draft

TypeOK ==
  /\ unit \in Unit
  /\ book \subseteq Row
  /\ \A p, q \in book : p.id = q.id => p = q
  /\ \A p \in book : p.id < nextId /\ validate_window(p.from, p.to)
  /\ nextId \in 1..(MaxPrices + 1)
  /\ now \in Time
  /\ pos \in [Handler -> {"idle", "version", "insert"}]
  /\ draft \in [Handler -> Draft \cup {None}]
  /\ \A h \in Handler : pos[h] = "insert" => draft[h] # None /\ draft[h].version > 0
  /\ before \in [Handler -> SUBSET (1..MaxPrices)]
  /\ edits \in 0..MaxEdits /\ units \in 0..MaxUnits

Init ==
  /\ unit = "token" /\ book = {} /\ nextId = 1 /\ now = 1
  /\ pos = [h \in Handler |-> "idle"]
  /\ draft = [h \in Handler |-> None]
  /\ before = [h \in Handler |-> {}]
  /\ edits = 0 /\ units = 0

\* The handler finds the model, copies its unit and validates the rest.
Begin(h) ==
  /\ pos[h] = "idle" /\ nextId <= MaxPrices
  /\ \E g \in Group \cup {None}, f \in Time, t \in Time \cup {None} :
       /\ validate_window(f, t)
       /\ draft' = [draft EXCEPT ![h] =
            [group |-> g, unit |-> unit, version |-> 0, from |-> f, to |-> t]]
  /\ pos' = [pos EXCEPT ![h] = "version"]
  /\ UNCHANGED <<unit, book, nextId, now, before, edits, units>>

SameTier(p, d) == p.group = d.group /\ p.unit = d.unit

Highest(rows) == IF rows = {} THEN 0 ELSE Max({p.version : p \in rows})

\* Slip: the number of prices for the highest version.
counted_version(d) == Cardinality({p \in book : SameTier(p, d)}) + 1

next_version(d) == Highest({p \in book : SameTier(p, d)}) + 1

ReadVersion(h) ==
  /\ pos[h] = "version"
  /\ draft' = [draft EXCEPT ![h].version = next_version(draft[h])]
  /\ before' = [before EXCEPT ![h] = {p.id : p \in book}]
  /\ pos' = [pos EXCEPT ![h] = "insert"]
  /\ UNCHANGED <<unit, book, nextId, now, edits, units>>

\* There is no unique index on (model, group, unit, version).
NewRow(d) == [id |-> nextId, group |-> d.group, unit |-> d.unit, version |-> d.version,
              from |-> d.from, to |-> d.to]

Insert(h) ==
  /\ pos[h] = "insert"
  /\ IF nextId <= MaxPrices
     THEN book' = book \cup {NewRow(draft[h])} /\ nextId' = nextId + 1
     ELSE UNCHANGED <<book, nextId>>
  /\ pos' = [pos EXCEPT ![h] = "idle"]
  /\ draft' = [draft EXCEPT ![h] = None]
  /\ before' = [before EXCEPT ![h] = {}]
  /\ UNCHANGED <<unit, now, edits, units>>

\* The validity is corrected in place; an end, once set, can only be moved.
Update(p) ==
  /\ edits < MaxEdits /\ edits' = edits + 1
  /\ \E f \in Time, t \in Time \cup {p.to} :
       /\ validate_window(f, t)
       /\ book' = (book \ {p}) \cup {[p EXCEPT !.from = f, !.to = t]}
  /\ UNCHANGED <<unit, nextId, now, pos, draft, before, units>>

Delete(p) ==
  /\ edits < MaxEdits /\ edits' = edits + 1
  /\ book' = book \ {p}
  /\ UNCHANGED <<unit, nextId, now, pos, draft, before, units>>

\* gateway/model.rs: an update may change billing_unit; the prices stay.
ChangeUnit ==
  /\ units < MaxUnits /\ units' = units + 1
  /\ unit' \in Unit \ {unit}
  /\ UNCHANGED <<book, nextId, now, pos, draft, before, edits>>

Tick ==
  /\ now < MaxTime /\ now' = now + 1
  /\ UNCHANGED <<unit, book, nextId, pos, draft, before, edits, units>>

Next ==
  \/ \E h \in Handler : Begin(h) \/ ReadVersion(h) \/ Insert(h)
  \/ \E p \in book : Update(p) \/ Delete(p)
  \/ ChangeUnit \/ Tick

Spec == Init /\ [][Next]_vars

-----------------------------------------------------------------------------
(* Properties. *)

Added == book' \ book

\* Newer prices have higher versions: a price gets a version above that of
\* every price of its tier that was there when its version was read.
NewerVersionWins ==
  [][nextId' > nextId =>
       \E h \in Handler : \A p \in Added, q \in book :
         pos[h] = "insert" /\ (q.id \in before[h] /\ SameTier(q, p) => q.version < p.version)]_vars

\* What a group may pay now: the query returns its rows in any order.
Current(g) ==
  LET found == {p \in book : sql_admits(p, g, now)}
  IN {select_price(s, g, now) : s \in Bijection(1..Cardinality(found), found)}

\* A new version takes the place of the old one (price.rs:9-10): when a price
\* that is valid now is inserted, it is what its group pays, unless another was
\* inserted since its version was read or the model's unit has changed.
NewPriceTakesOver ==
  [][nextId' > nextId =>
       \A p \in Added : \/ ~is_valid_at(p, now)
                        \/ \E h \in Handler : /\ pos[h] = "insert" /\ pos'[h] = "idle"
                                              /\ {q.id : q \in book} \ before[h] # {}
                        \/ \E q \in book : q.unit # p.unit
                        \/ Current(p.group)' = {p}]_vars

\* Deleting or ending the price of a group never leaves its members without a
\* price while a default price is valid, and never gives them another group's.
FallsBackToDefault ==
  \A g \in Group :
    (\E p \in book : p.group = None /\ is_valid_at(p, now))
      => None \notin Current(g) /\ \A p \in Current(g) : p.group \in {None, g}
=============================================================================
