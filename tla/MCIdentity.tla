----------------------------- MODULE MCIdentity -----------------------------
(* Sessions, Crm and Reports for TLC.  A behaviour is one of the logins, of   *)
(* the customers of sales or of the reports: the other modules stand still.   *)
EXTENDS Sessions

CONSTANTS
  p1, q1, q2,         \* telephones
  s1, s2, boss, fin,  \* staff accounts
  w1, w2, w3,         \* requests about customers
  u1, u2, o1, o2, r1, \* users of the reports, their organisations, a request
  StaffRoles, PageSize,
  Team, TeamPhone, TeamWorker, TeamOrgs, TeamRows, TeamWrites, TeamGrants,             \* who reassigns
  ListStaff, ListPhone, ListWorker, ListOrgs, ListRows, ListWrites, ListGrants,  \* who lists
  Reader, Company, CompanyOf, Request, StartRoles, MaxEdits, MaxDefs       \* the reports'

VARIABLES
  part,   \* "logins", "reassigning", "listing", "querying" or "saving"
  owner, crmAccount, assigned, written, nextOrg, nextRow, lock, crmPos, crmJob, page,
  founded, granted, apart,
  roles, edits, defs, nextDef, reportPos, reportJob, held, reportAnswer

RolesOfStaff == s1 :> {"sales"} @@ s2 :> {"sales"} @@ boss :> {"admin"} @@ fin :> {"finance"}
CompanyOfReaders == u1 :> o1 @@ u2 :> o2

\* One customer, two salespeople and an administrator, two requests at once; the
\* list is not read (Listing does).
Reassigning == INSTANCE Crm WITH
  User <- Team, RolesOf <- [u \in Team |-> StaffRoles[u]],
  Phone <- TeamPhone, Worker <- TeamWorker,
  MaxOrgs <- TeamOrgs, MaxRows <- TeamRows, MaxWrites <- TeamWrites, MaxGrants <- TeamGrants,
  account <- crmAccount, pos <- crmPos, job <- crmJob

\* Three organisations come and go while the list is read a row at a time.
Listing == INSTANCE Crm WITH
  User <- ListStaff, RolesOf <- [u \in ListStaff |-> StaffRoles[u]],
  Phone <- ListPhone, Worker <- ListWorker,
  MaxOrgs <- ListOrgs, MaxRows <- ListRows, MaxWrites <- ListWrites, MaxGrants <- ListGrants,
  account <- crmAccount, pos <- crmPos, job <- crmJob

Desk == INSTANCE Reports WITH
  User <- Reader, Org <- Company, OrgOf <- CompanyOf, Handler <- Request,
  pos <- reportPos, job <- reportJob, answer <- reportAnswer

AtMostTwoRoles == {rs \in SUBSET Reassigning!Roles : Cardinality(rs) <= 2}

ASSUME ReassigningAssumption == Reassigning!CrmAssumption
ASSUME ListingAssumption == Listing!CrmAssumption
ASSUME DeskAssumption == Desk!ReportsAssumption

crmVars == <<owner, crmAccount, assigned, written, nextOrg, nextRow, lock, crmPos, crmJob, page,
             founded, granted, apart>>
reportVars == <<roles, edits, defs, nextDef, reportPos, reportJob, held, reportAnswer>>
allVars == <<part, vars, crmVars, reportVars>>

Symmetry == Permutations(Handler) \cup Permutations(TeamWorker) \cup Permutations(ListPhone)

-----------------------------------------------------------------------------
Untried == \A c \in CodeIds : misses[c] = 0 /\ codes[c].consumed = None
\* Two codes, mistyped or not.
Guesses == Len(codes) <= 2 /\ now <= 2 /\ disabled = [p \in Phone |-> None] /\ admins = {}
\* Three codes sent, of which none is tried.
Sends == Untried /\ \A h \in Handler : pos[h] \in {"idle", "store"}
\* Two codes, typed correctly, until the first expires.
Accounts == /\ Len(codes) <= 2 /\ \A c \in CodeIds : misses[c] = 0
            /\ \A h \in Handler : pos[h] # "miss"

Asking == {reportJob[h] : h \in {i \in Request : reportPos[i] # "idle"}}
\* Queries of one user, whose roles change twice, from any two roles.
Queries == roles[u2] = {} /\ \A j \in Asking : j.ask.kind = "query" /\ j.p.user # u2
\* One definition after another, saved, listed, opened and deleted by two users.
Saves == edits <= 1 /\ \A j \in Asking : j.ask.kind # "query"

CustomersAreIdle == Listing!Init
ReportsAreIdle == Desk!Init /\ roles = [u \in Reader |-> {"customer"}]

IdentityInit ==
  /\ Init
  /\ \/ part = "logins" /\ CustomersAreIdle /\ ReportsAreIdle
     \/ part = "reassigning" /\ Reassigning!Init /\ ReportsAreIdle
     \/ part = "listing" /\ Listing!Init /\ ReportsAreIdle
     \/ part = "querying" /\ CustomersAreIdle /\ Desk!Init /\ roles[u2] = {}
     \/ /\ part = "saving" /\ CustomersAreIdle /\ Desk!Init
        /\ roles \in [Reader -> {{"customer"}, {"sales"}, {"admin", "sales"}}]

IdentityNext ==
  \/ /\ part = "logins" /\ Next /\ (Guesses \/ Sends \/ Accounts)'
     /\ UNCHANGED <<part, crmVars, reportVars>>
  \/ /\ \/ part = "reassigning" /\ Reassigning!Next /\ page' = None
        \/ part = "listing" /\ Listing!Next
     /\ UNCHANGED <<part, vars, reportVars>>
  \/ /\ Desk!Next
     /\ \/ part = "querying" /\ Queries'
        \/ part = "saving" /\ Saves'
     /\ UNCHANGED <<part, vars, crmVars>>

IdentitySpec == IdentityInit /\ [][IdentityNext]_allVars

-----------------------------------------------------------------------------
(* Promises of several parts. *)

\* One active assignment, the newest, names a customer's owner, whatever
\* reassignments run at once (assignment.rs:73-74), unless POST or PUT
\* /organizations wrote the owner since (organization.rs:85, 185).
HistoryIsOwnership == part = "reassigning" => Reassigning!HistoryIsOwnership

\* No half customer is left behind (onboard.rs, session.rs): an organisation
\* without an account is one that POST /organizations made.  What sales wrote is
\* by an owner of then, by the history or by the word of organization.rs, or by
\* one who may read all (note.rs, recharge.rs).  A list read to its end is
\* complete (customer.rs).  With the types of the tables and requests.
CustomersHold ==
  /\ part = "reassigning" =>
       Reassigning!TypeOK /\ Reassigning!AttributionBacked /\ Reassigning!WholeCustomers
  /\ part = "listing" => Listing!TypeOK /\ Listing!WholeCustomers /\ Listing!PagesComplete

\* Nobody is shown a row beyond the roles held while the request read them
\* (dataset.rs), the list shows what opens, and a definition goes only by its
\* owner or an administrator (report_def.rs); with the types of requests and definitions.
ReportsObeyRoles ==
  /\ [](part \in {"querying", "saving"} =>
         Desk!TypeOK /\ Desk!ServedIsEntitled /\ Desk!ListsWhatOpens)
  /\ Desk!OnlyOwnersDelete
=============================================================================
