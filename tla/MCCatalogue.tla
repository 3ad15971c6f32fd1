---------------------------- MODULE MCCatalogue ----------------------------
(* Catalog and PriceBook for TLC.  A behaviour is one of the referring tables *)
(* or one of a model's prices: the other module stands still.                 *)
EXTENDS Catalog, TLC

CONSTANTS
  g1, g2,                  \* the groups
  BookGroup, BookHandler,  \* the price table's
  MaxPrices, MaxEdits, MaxUnits, MaxTime

VARIABLES
  part,   \* "tables" or "book"
  unit, book, bookId, now, bookPos, bookDraft, before, edits, units

Book == INSTANCE PriceBook WITH
  Group <- BookGroup, Handler <- BookHandler,
  nextId <- bookId, pos <- bookPos, draft <- bookDraft

ASSUME BookAssumption == Book!PriceBookAssumption

bookVars == <<unit, book, bookId, now, bookPos, bookDraft, before, edits, units>>
allVars == <<part, vars, bookVars>>

Symmetry == Permutations(Handler) \cup Permutations(BookHandler)

-----------------------------------------------------------------------------
Kinds == {r.draft.kind : r \in rows} \cup {draft[h].kind : h \in {i \in Handler : draft[i] # None}}
Busy == {h \in Handler : pos[h] # "idle"}

\* Three requests and two rows about the model, the channel and one group.
AboutModels ==
  /\ Kinds \subseteq {"route", "price"} /\ Org \cup {g2} \subseteq parents
  /\ \A h \in Handler : target[h] \notin Org \cup {g2} /\ g2 \notin lookups[h]
  /\ \A r \in rows : ~RefersTo(r, g2)
  /\ nextId <= 3

\* Two requests and three rows about the organisation and two groups.
AboutAccounts ==
  /\ Kinds \cap {"route", "price"} = {} /\ Model \cup Channel \subseteq parents
  /\ \A h \in Handler : target[h] \notin Model \cup Channel
  /\ Cardinality(Busy) <= 2

CatalogueInit == part \in {"tables", "book"} /\ Init /\ Book!Init
CatalogueNext ==
  \/ part = "tables" /\ Next /\ (AboutModels \/ AboutAccounts)' /\ UNCHANGED <<part, bookVars>>
  \/ part = "book" /\ Book!Next /\ UNCHANGED <<part, vars>>

CatalogueSpec == CatalogueInit /\ [][CatalogueNext]_allVars

-----------------------------------------------------------------------------
(* Promises of several parts. *)

\* A price that is set is paid: its version is above all that could be seen, it
\* takes over from the day it is valid when created alone and in the same unit,
\* and deleting a group's price leaves the default (price.rs:9-10 and 88-97,
\* resolve.rs:88-100); with the types of the price table.
PricesTakeOver ==
  /\ []Book!TypeOK /\ []Book!FallsBackToDefault
  /\ Book!NewerVersionWins /\ Book!NewPriceTakesOver
=============================================================================
