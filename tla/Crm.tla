--------------------------------- MODULE Crm ---------------------------------
(***************************************************************************)
(* Customers and who owns them (crates/crm): onboarding, reassignment with *)
(* its history, notes and recharges by sales, the paged customer list; and *)
(* the endpoints of crates/identity that touch the same tables.            *)
(*                                                                         *)
(* A handler is a sequence of database statements.  A transaction's writes *)
(* are visible when it commits; it waits for the rows others have locked.  *)
(***************************************************************************)
EXTENDS Rbac, FiniteSetsExt

CONSTANTS
  User,          \* staff accounts
  RolesOf,       \* the roles each of them holds
  Phone,         \* telephone numbers of future customers
  Worker,        \* requests in progress
  None,
  PageSize,      \* limit of the customer list
  MaxOrgs,       \* bound: organisations ever created
  MaxRows,       \* bound: assignment rows
  MaxWrites,     \* bound: notes and recharge orders
  MaxGrants      \* bound: owners that organization.rs wrote

VARIABLES
  owner,     \* organizations.owner_sales_id of the organisations that exist
  account,   \* users: phone -> organisation, or None
  assigned,  \* customer_assignments: [id, org, sales, active]
  written,   \* customer_notes and orders: [id, org, author, kind]
  nextOrg, nextRow,
  lock,      \* who holds the row lock of an organisation
  pos, job,  \* a handler: position, request and what it has read or written
  page,      \* the paged list: [reader, cursor, seen, kept, full] or None
  founded,   \* organisations that POST /organizations created
  granted,   \* owners that POST and PUT /organizations wrote: [org, sales]
  apart      \* organisations whose owner was last written by one of the two

\* What organization.rs did: for the properties only, no handler reads it.
grants == <<founded, granted, apart>>
vars == <<owner, account, assigned, written, nextOrg, nextRow, lock, pos, job, page, grants>>

OrgId == 1..MaxOrgs
Orgs == DOMAIN owner

Perms(u) == user_permissions(RolesOf[u])
\* Access::owned_by: only its own customers, unless it may read all.
Restricted(u) == ~Unrestricted(Perms(u), "crm.read.all")
IsSales(u) == "sales" \in RolesOf[u]
Reachable(u, o) == o \in Orgs /\ (Restricted(u) => owner[o] = u)

Jobs == [kind : {"assign"}, org : OrgId, sales : User, closing : SUBSET (1..MaxRows)]
        \cup [kind : {"onboard"}, phone : Phone, sales : User]
        \cup [kind : {"note", "recharge"}, org : OrgId, author : User]
        \cup [kind : {"delete"}, org : OrgId]

CrmAssumption ==
  /\ IsFiniteSet(User) /\ IsFiniteSet(Phone) /\ IsFiniteSet(Worker)
  /\ RolesOf \in [User -> SUBSET Roles]
  /\ {PageSize, MaxOrgs, MaxRows, MaxWrites, MaxGrants} \subseteq Nat /\ PageSize > 0
  /\ None \notin User \cup Phone \cup Worker \cup OrgId \cup Jobs

TypeOK ==
  /\ Orgs \subseteq 1..(nextOrg - 1)
  /\ \A o \in Orgs : owner[o] \in User \cup {None}
  /\ account \in [Phone -> Orgs \cup {None}]
  /\ assigned \subseteq [id : 1..(nextRow - 1), org : Orgs, sales : User, active : BOOLEAN]
  /\ \A r, s \in assigned : r.id = s.id => r = s
  /\ written \subseteq [id : 1..MaxWrites, org : Orgs, author : User, kind : {"note", "recharge"}]
  /\ nextOrg \in 1..(MaxOrgs + 1) /\ nextRow \in 1..(MaxRows + 1)
  /\ lock \in [OrgId -> Worker \cup {None}]
  /\ pos \in [Worker -> {"idle", "lock", "close", "commit", "insert", "write", "delete"}]
  /\ job \in [Worker -> Jobs \cup {None}]
  /\ \A w \in Worker : (job[w] = None) = (pos[w] = "idle")
  /\ \A o \in OrgId : lock[o] # None =>
       /\ pos[lock[o]] \in {"close", "commit"} /\ job[lock[o]].org = o
  /\ page # None => page.cursor \in 0..MaxOrgs /\ page.seen \subseteq OrgId
  /\ granted \subseteq [org : Orgs, sales : User \cup {None}]
  /\ founded \subseteq Orgs /\ apart \subseteq Orgs

Init ==
  /\ owner = <<>> /\ account = [p \in Phone |-> None] /\ assigned = {} /\ written = {}
  /\ nextOrg = 1 /\ nextRow = 1
  /\ lock = [o \in OrgId |-> None]
  /\ pos = [w \in Worker |-> "idle"] /\ job = [w \in Worker |-> None]
  /\ page = None
  /\ founded = {} /\ granted = {} /\ apart = {}

Goto(w, p, j) == pos' = [pos EXCEPT ![w] = p] /\ job' = [job EXCEPT ![w] = j]
Done(w) == Goto(w, "idle", None)
Release(w) == lock' = [o \in OrgId |-> IF lock[o] = w THEN None ELSE lock[o]]

\* An organisation leaves the promise of a paged list when its owner changes.
Kept(os) == page' = IF page = None THEN None ELSE [page EXCEPT !.kept = @ \ os]

-----------------------------------------------------------------------------
(* Onboarding: the salesperson becomes the owner; one who may read all has *)
(* to name a salesperson.  The phone is checked, then inserted.            *)

BeginOnboard(w) ==
  /\ pos[w] = "idle"
  /\ \E u \in User, s \in User, p \in Phone :
       /\ Passes(Perms(u), "crm.write")
       /\ IF Restricted(u) THEN s = u ELSE IsSales(s)
       /\ account[p] = None
       /\ Goto(w, "insert", [kind |-> "onboard", phone |-> p, sales |-> s])
  /\ UNCHANGED <<owner, account, assigned, written, nextOrg, nextRow, lock, page, grants>>

NewOrg(p, s) ==
  /\ owner' = [o \in Orgs \cup {nextOrg} |-> IF o = nextOrg THEN s ELSE owner[o]]
  /\ account' = [account EXCEPT ![p] = nextOrg]
  /\ nextOrg' = nextOrg + 1

FirstAssignment(o, s) ==
  /\ assigned' = assigned \cup {[id |-> nextRow, org |-> o, sales |-> s, active |-> TRUE]}
  /\ nextRow' = nextRow + 1

\* Slip: no unique index on users.phone.
OnboardUnchecked(w) ==
  LET j == job[w] IN
  /\ pos[w] = "insert"
  /\ IF nextOrg <= MaxOrgs /\ nextRow <= MaxRows
     THEN NewOrg(j.phone, j.sales) /\ FirstAssignment(nextOrg, j.sales)
     ELSE UNCHANGED <<owner, account, assigned, nextOrg, nextRow>>
  /\ Done(w)
  /\ UNCHANGED <<written, lock, page, grants>>

\* One transaction: organisation, account and first assignment, or nothing
\* when the phone was registered meanwhile (unique index on users.phone).
Onboard(w) ==
  LET j == job[w] IN
  /\ pos[w] = "insert"
  /\ IF account[j.phone] = None /\ nextOrg <= MaxOrgs /\ nextRow <= MaxRows
     THEN NewOrg(j.phone, j.sales) /\ FirstAssignment(nextOrg, j.sales)
     ELSE UNCHANGED <<owner, account, assigned, nextOrg, nextRow>>
  /\ Done(w)
  /\ UNCHANGED <<written, lock, page, grants>>

\* session::login registers an unknown phone: an organisation nobody owns.
Register(p) ==
  /\ account[p] = None /\ nextOrg <= MaxOrgs
  /\ NewOrg(p, None)
  /\ UNCHANGED <<assigned, written, nextRow, lock, pos, job, page, grants>>

-----------------------------------------------------------------------------
(* Reassignment, by those who hold crm.assign.                             *)

BeginAssign(w) ==
  /\ pos[w] = "idle" /\ (\E u \in User : Passes(Perms(u), "crm.assign"))
  /\ \E o \in Orgs, s \in User :
       Goto(w, "lock", [kind |-> "assign", org |-> o, sales |-> s, closing |-> {}])
  /\ UNCHANGED <<owner, account, assigned, written, nextOrg, nextRow, lock, page, grants>>

\* Slip: the organisation is read without a lock.
ReadOrg(w) ==
  LET j == job[w] IN
  /\ pos[w] = "lock"
  /\ IF j.org \notin Orgs \/ (j.org \in Orgs /\ owner[j.org] = j.sales)
     THEN Done(w) ELSE Goto(w, "close", j)
  /\ UNCHANGED <<owner, account, assigned, written, nextOrg, nextRow, lock, page, grants>>

\* SELECT ... FOR UPDATE of the organisation; nothing to do when it already
\* has this owner, 404 when it is gone.
LockOrg(w) ==
  LET j == job[w] IN
  /\ pos[w] = "lock" /\ lock[j.org] = None
  /\ IF j.org \notin Orgs \/ (j.org \in Orgs /\ owner[j.org] = j.sales)
     THEN Done(w) /\ UNCHANGED lock
     ELSE /\ Goto(w, "close", j)
          /\ lock' = [lock EXCEPT ![j.org] = w]
  /\ UNCHANGED <<owner, account, assigned, written, nextOrg, nextRow, page, grants>>

\* UPDATE of the active rows it sees; it waits for rows another closes.
Close(w) ==
  LET j == job[w]
      rows == {r.id : r \in {q \in assigned : q.org = j.org /\ q.active}} IN
  /\ pos[w] = "close"
  /\ \A v \in Worker \ {w} : pos[v] = "commit" => job[v].closing \cap rows = {}
  /\ Goto(w, "commit", [j EXCEPT !.closing = rows])
  /\ UNCHANGED <<owner, account, assigned, written, nextOrg, nextRow, lock, page, grants>>

\* The new active row and the new owner, committed together.
CommitAssign(w) ==
  LET j == job[w] IN
  /\ pos[w] = "commit" /\ nextRow <= MaxRows /\ j.org \in Orgs
  /\ assigned' =
       {IF r.id \in j.closing THEN [r EXCEPT !.active = FALSE] ELSE r : r \in assigned}
       \cup {[id |-> nextRow, org |-> j.org, sales |-> j.sales, active |-> TRUE]}
  /\ nextRow' = nextRow + 1
  /\ owner' = [owner EXCEPT ![j.org] = j.sales]
  /\ Done(w) /\ Release(w) /\ Kept({j.org})
  /\ apart' = apart \ {j.org}
  /\ UNCHANGED <<account, written, nextOrg, founded, granted>>

\* A statement fails or the process dies: the transaction is undone.
Abort(w) ==
  /\ pos[w] # "idle" /\ Done(w) /\ Release(w)
  /\ UNCHANGED <<owner, account, assigned, written, nextOrg, nextRow, page, grants>>

-----------------------------------------------------------------------------
(* Notes and recharges: the customer is looked up, then the row written.   *)

load_scoped_org(u, o) == Reachable(u, o)

BeginWrite(w) ==
  /\ pos[w] = "idle"
  /\ \E u \in User, o \in Orgs, k \in {"note", "recharge"} :
       /\ Passes(Perms(u), "crm.write")
       /\ load_scoped_org(u, o)
       /\ Goto(w, "write", [kind |-> k, org |-> o, author |-> u])
  /\ UNCHANGED <<owner, account, assigned, written, nextOrg, nextRow, lock, page, grants>>

\* A foreign key refuses the row of an organisation that is gone.
Write(w) ==
  LET j == job[w] IN
  /\ pos[w] = "write"
  /\ written' = IF Cardinality(written) < MaxWrites /\ j.org \in Orgs
                THEN written \cup {[id |-> Cardinality(written) + 1, org |-> j.org,
                                    author |-> j.author, kind |-> j.kind]}
                ELSE written
  /\ Done(w)
  /\ UNCHANGED <<owner, account, assigned, nextOrg, nextRow, lock, page, grants>>

-----------------------------------------------------------------------------
(* The customer list, ascending by id, a page at a time.                   *)

Listed(u) == {o \in Orgs : Reachable(u, o)}
After(rows, c) == {o \in rows : o > c}
Least(rows, n) == {o \in rows : Cardinality({q \in rows : q < o}) < n}

FirstPage(u) ==
  /\ page = None /\ Passes(Perms(u), "crm.read")
  /\ LET got == Least(Listed(u), PageSize) IN
     page' = [reader |-> u, cursor |-> IF got = {} THEN 0 ELSE Max(got), seen |-> got,
              kept |-> Listed(u), full |-> Cardinality(got) = PageSize]
  /\ UNCHANGED <<owner, account, assigned, written, nextOrg, nextRow, lock, pos, job, grants>>

NextPage ==
  /\ page # None /\ page.full
  /\ LET got == Least(After(Listed(page.reader), page.cursor), PageSize) IN
     page' = [page EXCEPT !.seen = @ \cup got, !.full = Cardinality(got) = PageSize,
                          !.cursor = IF got = {} THEN @ ELSE Max(got)]
  /\ UNCHANGED <<owner, account, assigned, written, nextOrg, nextRow, lock, pos, job, grants>>

LeaveList ==
  /\ page # None /\ ~page.full /\ page' = None
  /\ UNCHANGED <<owner, account, assigned, written, nextOrg, nextRow, lock, pos, job, grants>>

-----------------------------------------------------------------------------
(* organization.rs, for who holds identity.manage: administrators, sales.   *)
(* Neither a new organisation nor an update writes an assignment.          *)

MayManage == \E u \in User : Passes(Perms(u), "identity.manage")

\* The owner o gets without a history.
Grant(o, s) ==
  /\ granted' = granted \cup {[org |-> o, sales |-> s]}
  /\ apart' = apart \cup {o}
  /\ Cardinality(granted') <= MaxGrants

\* An organisation with or without an owner, and without an account.
CreateOrg ==
  /\ MayManage /\ nextOrg <= MaxOrgs
  /\ \E s \in User \cup {None} :
       /\ owner' = [o \in Orgs \cup {nextOrg} |-> IF o = nextOrg THEN s ELSE owner[o]]
       /\ Grant(nextOrg, s)
  /\ nextOrg' = nextOrg + 1 /\ founded' = founded \cup {nextOrg}
  /\ UNCHANGED <<account, assigned, written, nextRow, lock, pos, job, page>>

\* A general update may set or clear the owner.
UpdateOrg ==
  /\ MayManage
  /\ \E o \in Orgs, s \in User \cup {None} :
       /\ lock[o] = None
       /\ owner' = [owner EXCEPT ![o] = s] /\ Kept({o}) /\ Grant(o, s)
  /\ UNCHANGED <<account, assigned, written, nextOrg, nextRow, lock, pos, job, founded>>

\* A delete counts keys and wallets (Catalog) and orders, and nothing else.
BeginDelete(w) ==
  /\ pos[w] = "idle" /\ MayManage
  /\ \E o \in Orgs :
       /\ ~\E m \in written : m.org = o /\ m.kind = "recharge"
       /\ Goto(w, "delete", [kind |-> "delete", org |-> o])
  /\ UNCHANGED <<owner, account, assigned, written, nextOrg, nextRow, lock, page, grants>>

\* Every foreign key to an organisation cascades, orders since then included.
DeleteOrg(w) ==
  LET o == job[w].org IN
  /\ pos[w] = "delete" /\ lock[o] = None
  /\ owner' = [x \in Orgs \ {o} |-> owner[x]]
  /\ account' = [p \in Phone |-> IF account[p] = o THEN None ELSE account[p]]
  /\ assigned' = {r \in assigned : r.org # o}
  /\ written' = {m \in written : m.org # o}
  /\ founded' = founded \ {o} /\ apart' = apart \ {o}
  /\ granted' = {g \in granted : g.org # o}
  /\ Kept({o}) /\ Done(w)
  /\ UNCHANGED <<nextOrg, nextRow, lock>>

Next ==
  \/ \E w \in Worker :
       \/ BeginOnboard(w) \/ Onboard(w)
       \/ BeginAssign(w) \/ LockOrg(w) \/ Close(w) \/ CommitAssign(w)
       \/ BeginWrite(w) \/ Write(w) \/ Abort(w)
       \/ BeginDelete(w) \/ DeleteOrg(w)
  \/ \E p \in Phone : Register(p)
  \/ \E u \in User : FirstPage(u)
  \/ NextPage \/ LeaveList \/ CreateOrg \/ UpdateOrg

Spec == Init /\ [][Next]_vars

-----------------------------------------------------------------------------
(* Properties. *)

RowsOf(o) == {r \in assigned : r.org = o}

\* At most one assignment of a customer is active, whatever reassignments run
\* at once (assignment.rs:73-74); it is the newest, so that the history can be
\* replayed, and it names the owner of the customer (the "true source"), unless
\* POST or PUT /organizations wrote the owner since, which leaves no history.
HistoryIsOwnership ==
  \A o \in Orgs :
    /\ \A r, s \in RowsOf(o) : r.active /\ s.active => r = s
    /\ \A r \in RowsOf(o) : r.active = (\A s \in RowsOf(o) : s.id <= r.id)
    /\ o \notin apart =>
         owner[o] = IF RowsOf(o) = {} THEN None
                    ELSE (CHOOSE r \in RowsOf(o) : r.active).sales

\* Sales write only for customers of theirs: the author may write, and is either
\* not restricted or was the customer's owner at some time - by an assignment
\* of the history, the basis on which performance is attributed (onboard,
\* recharge), or because POST or PUT /organizations said so without one.
AttributionBacked ==
  \A m \in written :
    /\ "crm.write" \in Perms(m.author)
    /\ \/ "crm.read.all" \in Perms(m.author)
       \/ \E r \in RowsOf(m.org) : r.sales = m.author
       \/ [org |-> m.org, sales |-> m.author] \in granted

\* Neither onboarding nor registration leaves half a customer: an organisation
\* without an account is one that POST /organizations created, which makes
\* none, and no account has two organisations.
WholeCustomers ==
  /\ \A o \in Orgs \ founded : \E p \in Phone : account[p] = o
  /\ \A p, q \in Phone : p # q /\ account[p] # None => account[p] # account[q]

\* Reading the customer list to its end shows every customer that was the
\* reader's all the while, though others come and go between the pages.
PagesComplete ==
  page # None /\ ~page.full => page.kept \subseteq page.seen
=============================================================================
