------------------------------ MODULE Catalog ------------------------------
(***************************************************************************)
(* Deleting what other rows refer to: models, channels, groups and         *)
(* organisations (gateway/{model,channel,model_channel}.rs,                *)
(* pricing/{group,price}.rs, identity/organization.rs).                    *)
(*                                                                         *)
(* A delete handler finds the row, counts the rows that refer to it, one   *)
(* table per statement, and deletes by id; a create handler looks up what  *)
(* its row will refer to and inserts.  No transaction holds these          *)
(* statements together.  The foreign keys of the schema (migration/) let a *)
(* delete take the referring rows along.                                   *)
(***************************************************************************)
EXTENDS Missing, Integers, FiniteSets, Sequences, SequencesExt

CONSTANTS
  Model, Channel, Group, Org,  \* ids of the rows that are referred to
  Handler,                     \* administrator requests in progress
  MaxRows                      \* bound: referring rows ever inserted

Parent == Model \cup Channel \cup Group \cup Org

ASSUME CatalogAssumption ==
  /\ IsFiniteSet(Parent) /\ IsFiniteSet(Handler)
  /\ MaxRows \in Nat /\ None \notin Parent

VARIABLES
  parents,   \* the rows that exist
  rows,      \* referring rows: [id, kind, refs]
  nextId,    \* the id sequence of the referring tables
  pos,       \* a handler: position
  target,    \* a delete: the row it is about
  counts,    \* a delete: tables it still has to count
  blocked,   \* a delete: a count was positive
  draft,     \* a create: the row it is about to insert
  lookups,   \* a create: rows it still has to look up
  since      \* history of a delete: rows inserted after it counted their table

handlerVars == <<pos, target, counts, blocked, draft, lookups>>
vars == <<parents, rows, nextId, handlerVars, since>>

\* The tables a delete handler counts, in the order of its statements.
CountedOfModel == <<"route", "price">>
CountedOfChannel == <<"route">>
CountedOfGroup == <<"membership", "price">>
CountedOfOrg == <<"key", "wallet", "order">>

Counted(p) ==
  CASE p \in Model   -> CountedOfModel
    [] p \in Channel -> CountedOfChannel
    [] p \in Group   -> CountedOfGroup
    [] p \in Org     -> CountedOfOrg

\* The rows a create handler looks up before it inserts.  A "membership" is
\* the group_id of an organisation: deleting the group sets it to NULL.
RouteDrafts == [kind : {"route"}, refs : {{m, c} : m \in Model, c \in Channel}]
PriceDrafts == [kind : {"price"},
                refs : {{m} : m \in Model} \cup {{m, g} : m \in Model, g \in Group}]
MembershipDrafts == [kind : {"membership"}, refs : {{o, g} : o \in Org, g \in Group}]
AccountDrafts == [kind : {"key", "wallet", "order"}, refs : {{o} : o \in Org}]

Drafts == RouteDrafts \cup PriceDrafts \cup MembershipDrafts \cup AccountDrafts

Row == [id : 1..MaxRows, draft : Drafts]
RefersTo(r, p) == p \in r.draft.refs

\* Unique indexes: one route per (model, channel), one group and one wallet
\* per organisation.
Unique(d) ==
  CASE d.kind = "route" -> \A r \in rows : r.draft # d
    [] d.kind = "wallet" -> \A r \in rows : r.draft # d
    [] OTHER -> TRUE

TypeOK ==
  /\ parents \subseteq Parent
  /\ rows \subseteq Row
  /\ nextId \in 1..(MaxRows + 1)
  /\ pos \in [Handler -> {"idle", "count", "delete", "lookup", "insert"}]
  /\ target \in [Handler -> Parent \cup {None}]
  /\ \A h \in Handler : pos[h] \in {"count", "delete"} <=> target[h] # None
  /\ \A h \in Handler : pos[h] \in {"count", "delete"} => IsSuffix(counts[h], Counted(target[h]))
  /\ blocked \in [Handler -> BOOLEAN]
  /\ draft \in [Handler -> Drafts \cup {None}]
  /\ lookups \in [Handler -> SUBSET Parent]
  /\ since \in [Handler -> SUBSET (1..MaxRows)]

Init ==
  /\ parents = Parent
  /\ rows = {} /\ nextId = 1
  /\ pos = [h \in Handler |-> "idle"]
  /\ target = [h \in Handler |-> None]
  /\ counts = [h \in Handler |-> <<>>]
  /\ blocked = [h \in Handler |-> FALSE]
  /\ draft = [h \in Handler |-> None]
  /\ lookups = [h \in Handler |-> {}]
  /\ since = [h \in Handler |-> {}]

Idle(h) ==
  /\ pos' = [pos EXCEPT ![h] = "idle"]
  /\ target' = [target EXCEPT ![h] = None]
  /\ counts' = [counts EXCEPT ![h] = <<>>]
  /\ blocked' = [blocked EXCEPT ![h] = FALSE]
  /\ draft' = [draft EXCEPT ![h] = None]
  /\ lookups' = [lookups EXCEPT ![h] = {}]
  /\ since' = [since EXCEPT ![h] = {}]

-----------------------------------------------------------------------------
(* Delete handlers. *)

Find(h, p) ==
  /\ pos[h] = "idle" /\ p \in parents
  /\ pos' = [pos EXCEPT ![h] = "count"]
  /\ target' = [target EXCEPT ![h] = p]
  /\ counts' = [counts EXCEPT ![h] = Counted(p)]
  /\ UNCHANGED <<parents, rows, nextId, blocked, draft, lookups, since>>

Referring(p, kind) == {r \in rows : r.draft.kind = kind /\ RefersTo(r, p)}

\* Slip: only the last table counted decides.
CountLastOnly(h) ==
  /\ pos[h] = "count" /\ counts[h] # <<>>
  /\ blocked' = [blocked EXCEPT ![h] = Referring(target[h], Head(counts[h])) # {}]
  /\ counts' = [counts EXCEPT ![h] = Tail(@)]
  /\ UNCHANGED <<parents, rows, nextId, pos, target, draft, lookups, since>>

Count(h) ==
  /\ pos[h] = "count" /\ counts[h] # <<>>
  /\ blocked' = [blocked EXCEPT ![h] = @ \/ Referring(target[h], Head(counts[h])) # {}]
  /\ counts' = [counts EXCEPT ![h] = Tail(@)]
  /\ UNCHANGED <<parents, rows, nextId, pos, target, draft, lookups, since>>

Judge(h) ==
  /\ pos[h] = "count" /\ counts[h] = <<>>
  /\ IF blocked[h] THEN Idle(h)
     ELSE /\ pos' = [pos EXCEPT ![h] = "delete"]
          /\ UNCHANGED <<target, counts, blocked, draft, lookups, since>>
  /\ UNCHANGED <<parents, rows, nextId>>

\* The delete and what the foreign keys do with it: every referring row goes,
\* or, for a group of an organisation, its reference does.
Swept(p) == {r \in rows : RefersTo(r, p)}

Delete(h) ==
  /\ pos[h] = "delete"
  /\ parents' = parents \ {target[h]}
  /\ rows' = rows \ Swept(target[h])
  /\ Idle(h)
  /\ UNCHANGED nextId

-----------------------------------------------------------------------------
(* Create handlers. *)

Propose(h, d) ==
  /\ pos[h] = "idle" /\ nextId <= MaxRows
  /\ pos' = [pos EXCEPT ![h] = "lookup"]
  /\ draft' = [draft EXCEPT ![h] = d]
  /\ lookups' = [lookups EXCEPT ![h] = d.refs]
  /\ UNCHANGED <<parents, rows, nextId, target, counts, blocked, since>>

\* Each row the draft refers to must exist; a missing one is a 400.
Lookup(h) ==
  /\ pos[h] = "lookup"
  /\ \E p \in lookups[h] :
       IF p \in parents
       THEN /\ lookups' = [lookups EXCEPT ![h] = @ \ {p}]
            /\ UNCHANGED <<pos, target, counts, blocked, draft, since>>
       ELSE Idle(h)
  /\ UNCHANGED <<parents, rows, nextId>>

\* The duplicate check answers 400 where the unique index would answer 500.
CheckDuplicate(h) ==
  /\ pos[h] = "lookup" /\ lookups[h] = {}
  /\ IF Unique(draft[h])
     THEN /\ pos' = [pos EXCEPT ![h] = "insert"]
          /\ UNCHANGED <<target, counts, blocked, draft, lookups, since>>
     ELSE Idle(h)
  /\ UNCHANGED <<parents, rows, nextId>>

\* Setting the group of an organisation replaces the one it had.
Replaced(d) ==
  {r \in rows : /\ d.kind = "membership" /\ r.draft.kind = "membership"
                /\ r.draft.refs \cap d.refs \cap Org # {}}

\* Rows a delete in progress cannot have counted.
Uncounted(g, d) ==
  /\ pos[g] \in {"count", "delete"} /\ target[g] \in d.refs
  /\ ~Contains(counts[g], d.kind)

Insert(h) ==
  /\ pos[h] = "insert"
  /\ LET d == draft[h]
         ok == d.refs \subseteq parents /\ Unique(d) /\ nextId <= MaxRows
     IN /\ rows' = IF ok THEN (rows \ Replaced(d)) \cup {[id |-> nextId, draft |-> d]} ELSE rows
        /\ nextId' = IF ok THEN nextId + 1 ELSE nextId
        /\ since' = [g \in Handler |->
             IF g = h THEN {}
             ELSE IF ok /\ Uncounted(g, d) THEN since[g] \cup {nextId} ELSE since[g]]
  /\ pos' = [pos EXCEPT ![h] = "idle"]
  /\ draft' = [draft EXCEPT ![h] = None]
  /\ UNCHANGED <<parents, target, counts, blocked, lookups>>

\* A referring row is deleted by id, or a group cleared: no check is made.
RemoveRow(r) ==
  /\ rows' = rows \ {r}
  /\ UNCHANGED <<parents, nextId, handlerVars, since>>

Next ==
  \/ \E h \in Handler :
       \/ \E p \in Parent : Find(h, p)
       \/ Count(h) \/ Judge(h) \/ Delete(h)
       \/ \E d \in Drafts : Propose(h, d)
       \/ Lookup(h) \/ CheckDuplicate(h) \/ Insert(h)
  \/ \E r \in rows : RemoveRow(r)

Spec == Init /\ [][Next]_vars
-----------------------------------------------------------------------------
(* Properties. *)

\* A referring row refers to rows that exist, whatever inserts and deletes
\* cross each other (the schema's foreign keys, migration/).
ReferencesExist == \A r \in rows : r.draft.refs \subseteq parents

\* Rows that go with p although the handler counts their table.
Guarded(p, r) == RefersTo(r, p) /\ Contains(Counted(p), r.draft.kind)

\* What the count protects (model.rs:215-227, channel.rs:302-310,
\* group.rs:193-205, organization.rs:211-226): a delete takes along only rows
\* that were inserted after the handler had counted their table, so whatever
\* was there when the request began survives it.
SweepsOnlyUncounted ==
  [][parents' # parents =>
       \E h \in Handler :
         /\ pos[h] = "delete" /\ parents' = parents \ {target[h]}
         /\ \A r \in rows \ rows' : Guarded(target[h], r) => r.id \in since[h]]_vars

\* The same, as an invariant of the handlers on their way: a table counted
\* without a hit holds no older row.
CountsHold ==
  \A h \in Handler, r \in rows :
    /\ pos[h] \in {"count", "delete"} /\ ~blocked[h]
    /\ Guarded(target[h], r) /\ ~Contains(counts[h], r.draft.kind)
    => r.id \in since[h]

\* Every reference has its target, a handler's count is of rows that are there
\* or were swept since, and tables and requests have their types (the foreign
\* keys of the migrations, the look-ups of the handlers).
TablesHold == TypeOK /\ ReferencesExist /\ CountsHold

=============================================================================
