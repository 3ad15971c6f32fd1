------------------------------ MODULE CrmProofs ------------------------------
(* Customers and their owners, for any staff, telephones and requests.        *)
EXTENDS Crm, FiniteSetTheorems, WellFoundedInduction, TLAPS

----------------------------------------------------------------------------
(* Types                                                                   *)

Positions == {"idle", "lock", "close", "commit", "insert", "write", "delete"}

\* What a request is about, by where it is.
Kinds(s) == IF s \in {"lock", "close", "commit"} THEN {"assign"}
            ELSE IF s = "insert" THEN {"onboard"}
            ELSE IF s = "delete" THEN {"delete"} ELSE {"note", "recharge"}

\* The tables.
Tables ==
  /\ owner = [o \in Orgs |-> owner[o]]
  /\ Orgs \subseteq 1..(nextOrg - 1)
  /\ \A o \in Orgs : owner[o] \in User \cup {None}
  /\ account \in [Phone -> Orgs \cup {None}]
  /\ assigned \subseteq [id : 1..(nextRow - 1), org : Orgs, sales : User, active : BOOLEAN]
  /\ \A r, s \in assigned : r.id = s.id => r = s
  /\ nextOrg \in 1..(MaxOrgs + 1) /\ nextRow \in 1..(MaxRows + 1)
Writings ==
  /\ IsFiniteSet(written)
  /\ written \subseteq [id : 1..MaxWrites, org : Orgs, author : User, kind : {"note", "recharge"}]

\* What organization.rs wrote.
Given ==
  /\ granted \subseteq [org : Orgs, sales : User \cup {None}]
  /\ founded \subseteq Orgs /\ apart \subseteq Orgs

\* The requests, and the locks: held by exactly the requests past theirs.
Requests ==
  /\ pos \in [Worker -> Positions] /\ job \in [Worker -> Jobs \cup {None}]
  /\ \A w \in Worker : IF pos[w] = "idle" THEN job[w] = None
                       ELSE job[w] \in Jobs /\ job[w].kind \in Kinds(pos[w])
Locks ==
  /\ lock \in [OrgId -> Worker \cup {None}]
  /\ \A o \in OrgId, w \in Worker :
       lock[o] = w <=> pos[w] \in {"close", "commit"} /\ job[w].org = o
Paging ==
  page # None =>
    /\ page = [reader |-> page.reader, cursor |-> page.cursor, seen |-> page.seen,
               kept |-> page.kept, full |-> page.full]
    /\ page.cursor \in 0..MaxOrgs /\ page.seen \subseteq OrgId /\ page.full \in BOOLEAN

Types == Tables /\ Writings /\ Given /\ Requests /\ Locks /\ Paging

LEMMA JobKinds ==
  ASSUME NEW j \in Jobs
  PROVE  /\ j.kind = "assign" => j \in [kind : {"assign"}, org : OrgId, sales : User, closing : SUBSET (1..MaxRows)]
         /\ j.kind = "onboard" => j \in [kind : {"onboard"}, phone : Phone, sales : User]
         /\ j.kind \in {"note", "recharge"} => j \in [kind : {"note", "recharge"}, org : OrgId, author : User]
         /\ j.kind = "delete" => j \in [kind : {"delete"}, org : OrgId]
BY DEF Jobs

LEMMA Numbers ==
  ASSUME CrmAssumption
  PROVE  /\ PageSize \in Nat \ {0} /\ MaxOrgs \in Nat /\ MaxRows \in Nat /\ MaxWrites \in Nat
         /\ None \notin User /\ None \notin Phone /\ None \notin Worker /\ None \notin OrgId /\ None \notin Jobs
BY DEF CrmAssumption

LEMMA OrgsInRange ==
  ASSUME CrmAssumption, Tables
  PROVE  /\ nextOrg \in Nat /\ nextRow \in Nat /\ Orgs \subseteq OrgId /\ nextOrg \notin Orgs
         /\ \A o \in Orgs : o \in Nat /\ o < nextOrg /\ o # None
BY Numbers DEF Tables, OrgId

\* A request moves; the others stay where they are.
LEMMA GotoRequests ==
  ASSUME Requests, NEW w \in Worker, NEW s \in Positions, NEW j, Goto(w, s, j),
         IF s = "idle" THEN j = None ELSE j \in Jobs /\ j.kind \in Kinds(s)
  PROVE  /\ Requests' /\ pos'[w] = s /\ job'[w] = j
         /\ \A v \in Worker \ {w} : pos'[v] = pos[v] /\ job'[v] = job[v]
<1>1. /\ pos'[w] = s /\ job'[w] = j
      /\ \A v \in Worker \ {w} : pos'[v] = pos[v] /\ job'[v] = job[v]
  BY DEF Goto, Requests
<1>2. pos' \in [Worker -> Positions] /\ job' \in [Worker -> Jobs \cup {None}]
  BY DEF Goto, Requests
<1>3. \A v \in Worker : IF pos'[v] = "idle" THEN job'[v] = None
                        ELSE job'[v] \in Jobs /\ job'[v].kind \in Kinds(pos'[v])
  BY <1>1 DEF Requests
<1>4. QED
  BY <1>1, <1>2, <1>3 DEF Requests

\* One that holds no lock, before or after.
LEMMA GotoUnlocked ==
  ASSUME CrmAssumption, Requests, Locks, NEW w \in Worker, NEW s \in Positions, NEW j, Goto(w, s, j),
         IF s = "idle" THEN j = None ELSE j \in Jobs /\ j.kind \in Kinds(s),
         pos[w] \notin {"close", "commit"}, s \notin {"close", "commit"}, UNCHANGED lock
  PROVE  Requests' /\ Locks'
<1>1. /\ Requests' /\ pos'[w] = s /\ job'[w] = j
      /\ \A v \in Worker \ {w} : pos'[v] = pos[v] /\ job'[v] = job[v]
  BY GotoRequests
<1>2. Locks'
  BY <1>1 DEF Locks
<1>3. QED
  BY <1>1, <1>2

\* One that ends and gives up what it held.
LEMMA DoneReleased ==
  ASSUME CrmAssumption, Requests, Locks, NEW w \in Worker, Done(w), Release(w)
  PROVE  Requests' /\ Locks'
<1>1. Goto(w, "idle", None) /\ "idle" \in Positions
  BY DEF Done, Positions
<1>2. /\ Requests' /\ pos'[w] = "idle" /\ job'[w] = None
      /\ \A v \in Worker \ {w} : pos'[v] = pos[v] /\ job'[v] = job[v]
  BY <1>1, GotoRequests
<1>3. lock' \in [OrgId -> Worker \cup {None}]
  BY DEF Release, Locks
<1>4. ASSUME NEW o \in OrgId, NEW v \in Worker
      PROVE  lock'[o] = v <=> pos'[v] \in {"close", "commit"} /\ job'[v].org = o
  <2>1. lock'[o] = IF lock[o] = w THEN None ELSE lock[o]
    BY DEF Release
  <2>2. None # v
    BY Numbers
  <2>3. QED
    BY <1>2, <2>1, <2>2 DEF Locks
<1>5. QED
  BY <1>2, <1>3, <1>4 DEF Locks

LEMMA CloseLocked ==
  ASSUME CrmAssumption, Tables, Requests, Locks, NEW w \in Worker, Close(w)
  PROVE  Requests' /\ Locks'
<1> DEFINE j == job[w]
           rows == {r.id : r \in {q \in assigned : q.org = j.org /\ q.active}}
           k == [j EXCEPT !.closing = rows]
<1>1. j \in [kind : {"assign"}, org : OrgId, sales : User, closing : SUBSET (1..MaxRows)]
  BY JobKinds DEF Close, Requests, Kinds
<1>2. rows \subseteq 1..MaxRows
  <2>1. \A r \in assigned : r.id \in 1..(nextRow - 1)
    BY DEF Tables
  <2>2. nextRow \in 1..(MaxRows + 1) /\ MaxRows \in Nat
    BY Numbers DEF Tables
  <2>3. QED
    BY <2>1, <2>2
<1>3. k \in [kind : {"assign"}, org : OrgId, sales : User, closing : SUBSET (1..MaxRows)]
      /\ k.org = j.org /\ k.kind = "assign"
  BY <1>1, <1>2
<1>4. Goto(w, "commit", k) /\ UNCHANGED lock /\ pos[w] = "close"
  BY DEF Close
<1> HIDE DEF k
<1>5. k \in Jobs /\ k.kind \in Kinds("commit") /\ "commit" \in Positions
  BY <1>3 DEF Jobs, Kinds, Positions
<1>6. /\ Requests' /\ pos'[w] = "commit" /\ job'[w] = k
      /\ \A v \in Worker \ {w} : pos'[v] = pos[v] /\ job'[v] = job[v]
  BY <1>4, <1>5, GotoRequests
<1>7. Locks'
  BY <1>3, <1>4, <1>6 DEF Locks
<1>8. QED
  BY <1>6, <1>7

LEMMA LockLocked ==
  ASSUME CrmAssumption, Requests, Locks, NEW w \in Worker, LockOrg(w)
  PROVE  Requests' /\ Locks'
<1> DEFINE j == job[w]
<1>1. pos[w] = "lock" /\ lock[j.org] = None /\ j \in Jobs /\ j.kind = "assign" /\ j.org \in OrgId
  BY JobKinds DEF LockOrg, Requests, Kinds
<1>2. CASE Done(w) /\ UNCHANGED lock
  <2>1. Goto(w, "idle", None) /\ "idle" \in Positions
    BY <1>2 DEF Done, Positions
  <2>2. QED
    BY <1>1, <1>2, <2>1, GotoUnlocked
<1>3. CASE Goto(w, "close", j) /\ lock' = [lock EXCEPT ![j.org] = w]
  <2>1. /\ Requests' /\ pos'[w] = "close" /\ job'[w] = j
        /\ \A v \in Worker \ {w} : pos'[v] = pos[v] /\ job'[v] = job[v]
    BY <1>1, <1>3, GotoRequests DEF Kinds, Positions
  <2>2. lock' \in [OrgId -> Worker \cup {None}]
    BY <1>3 DEF Locks
  <2>3. ASSUME NEW o \in OrgId, NEW v \in Worker
        PROVE  lock'[o] = v <=> pos'[v] \in {"close", "commit"} /\ job'[v].org = o
    <3>1. None # v /\ None # w
      BY Numbers
    <3>2. CASE o = j.org
      <4>1. lock'[o] = w
        BY <1>1, <1>3, <3>2 DEF Locks
      <4>2. v # w => ~(pos[v] \in {"close", "commit"} /\ job[v].org = o)
        BY <1>1, <3>1, <3>2 DEF Locks
      <4>3. QED
        BY <2>1, <3>2, <4>1, <4>2
    <3>3. CASE o # j.org
      <4>1. lock'[o] = lock[o]
        BY <1>1, <1>3, <3>3 DEF Locks
      <4>2. lock[o] # w
        BY <1>1 DEF Locks
      <4>3. QED
        BY <2>1, <3>3, <4>1, <4>2 DEF Locks
    <3>4. QED
      BY <3>2, <3>3
  <2>4. QED
    BY <2>1, <2>2, <2>3 DEF Locks
<1>4. QED
  BY <1>2, <1>3 DEF LockOrg

LEMMA RequestsStep ==
  ASSUME CrmAssumption, Types, [Next]_vars
  PROVE  Requests' /\ Locks'
<1>1. Tables /\ Requests /\ Locks
  BY DEF Types
<1>2. CASE UNCHANGED <<pos, job, lock>>
  BY <1>1, <1>2 DEF Requests, Locks
<1>3. ASSUME NEW w \in Worker,
             \/ BeginOnboard(w) \/ Onboard(w) \/ BeginAssign(w) \/ LockOrg(w) \/ Close(w)
             \/ CommitAssign(w) \/ BeginWrite(w) \/ Write(w) \/ Abort(w)
             \/ BeginDelete(w) \/ DeleteOrg(w)
      PROVE  Requests' /\ Locks'
  <2>1. CASE BeginOnboard(w)
    <3>1. PICK u \in User, s \in User, p \in Phone :
            Goto(w, "insert", [kind |-> "onboard", phone |-> p, sales |-> s])
      BY <2>1 DEF BeginOnboard
    <3>2. [kind |-> "onboard", phone |-> p, sales |-> s] \in Jobs
      BY DEF Jobs
    <3>3. pos[w] = "idle" /\ UNCHANGED lock
      BY <2>1 DEF BeginOnboard
    <3>4. QED
      BY <1>1, <3>1, <3>2, <3>3, GotoUnlocked DEF Kinds, Positions
  <2>2. CASE Onboard(w) \/ Write(w) \/ DeleteOrg(w)
    <3>1. Goto(w, "idle", None) /\ UNCHANGED lock /\ pos[w] \in {"insert", "write", "delete"}
      BY <2>2 DEF Onboard, Write, DeleteOrg, Done
    <3>2. QED
      BY <1>1, <3>1, GotoUnlocked DEF Positions
  <2>3. CASE BeginAssign(w)
    <3>1. PICK o \in Orgs, s \in User :
            Goto(w, "lock", [kind |-> "assign", org |-> o, sales |-> s, closing |-> {}])
      BY <2>3 DEF BeginAssign
    <3>2. [kind |-> "assign", org |-> o, sales |-> s, closing |-> {}] \in Jobs
      BY <1>1, OrgsInRange DEF Jobs
    <3>3. pos[w] = "idle" /\ UNCHANGED lock
      BY <2>3 DEF BeginAssign
    <3>4. QED
      BY <1>1, <3>1, <3>2, <3>3, GotoUnlocked DEF Kinds, Positions
  <2>4. CASE LockOrg(w) \/ Close(w)
    BY <1>1, <2>4, LockLocked, CloseLocked
  <2>5. CASE CommitAssign(w) \/ Abort(w)
    <3>1. Done(w) /\ Release(w)
      BY <2>5 DEF CommitAssign, Abort
    <3>2. QED
      BY <1>1, <3>1, DoneReleased
  <2>6. CASE BeginWrite(w)
    <3>1. PICK u \in User, o \in Orgs, k \in {"note", "recharge"} :
            Goto(w, "write", [kind |-> k, org |-> o, author |-> u])
      BY <2>6 DEF BeginWrite
    <3>2. [kind |-> k, org |-> o, author |-> u] \in Jobs
      BY <1>1, OrgsInRange DEF Jobs
    <3>3. pos[w] = "idle" /\ UNCHANGED lock
      BY <2>6 DEF BeginWrite
    <3>4. QED
      BY <1>1, <3>1, <3>2, <3>3, GotoUnlocked DEF Kinds, Positions
  <2>7. CASE BeginDelete(w)
    <3>1. PICK o \in Orgs : Goto(w, "delete", [kind |-> "delete", org |-> o])
      BY <2>7 DEF BeginDelete
    <3>2. [kind |-> "delete", org |-> o] \in Jobs
      BY <1>1, OrgsInRange DEF Jobs
    <3>3. pos[w] = "idle" /\ UNCHANGED lock
      BY <2>7 DEF BeginDelete
    <3>4. QED
      BY <1>1, <3>1, <3>2, <3>3, GotoUnlocked DEF Kinds, Positions
  <2>8. QED
    BY <1>3, <2>1, <2>2, <2>3, <2>4, <2>5, <2>6, <2>7
<1>4. QED
  BY <1>2, <1>3 DEF Next, Register, FirstPage, NextPage, LeaveList, CreateOrg, UpdateOrg, vars

----------------------------------------------------------------------------
(* What an operation does to the tables.                                   *)

\* A new customer: the organisation and its account, its first assignment or
\* none (onboarding, registration).
Joins(p, s) ==
  /\ NewOrg(p, s) /\ account[p] = None /\ p \in Phone /\ s \in User \cup {None} /\ nextOrg <= MaxOrgs
  /\ UNCHANGED <<written, page, founded, granted, apart>>
  /\ IF s = None THEN UNCHANGED <<assigned, nextRow>>
     ELSE FirstAssignment(nextOrg, s) /\ nextRow <= MaxRows
\* A customer goes to another owner (CommitAssign).
Reassigned(j) ==
  /\ j \in [kind : {"assign"}, org : OrgId, sales : User, closing : SUBSET (1..MaxRows)]
  /\ nextRow <= MaxRows /\ j.org \in Orgs
  /\ assigned' =
       {IF r.id \in j.closing THEN [r EXCEPT !.active = FALSE] ELSE r : r \in assigned}
       \cup {[id |-> nextRow, org |-> j.org, sales |-> j.sales, active |-> TRUE]}
  /\ nextRow' = nextRow + 1
  /\ owner' = [owner EXCEPT ![j.org] = j.sales]
  /\ Kept({j.org}) /\ apart' = apart \ {j.org}
  /\ UNCHANGED <<account, written, nextOrg, founded, granted>>
\* Sales write about a customer (Write).
Wrote(j) ==
  /\ j \in [kind : {"note", "recharge"}, org : OrgId, author : User]
  /\ Cardinality(written) < MaxWrites /\ j.org \in Orgs
  /\ written' = written \cup {[id |-> Cardinality(written) + 1, org |-> j.org,
                               author |-> j.author, kind |-> j.kind]}
  /\ UNCHANGED <<owner, account, assigned, nextOrg, nextRow, page, founded, granted, apart>>
\* An organisation goes with all that refers to it (DeleteOrg).
Gone(o) ==
  /\ lock[o] = None
  /\ owner' = [x \in Orgs \ {o} |-> owner[x]]
  /\ account' = [p \in Phone |-> IF account[p] = o THEN None ELSE account[p]]
  /\ assigned' = {r \in assigned : r.org # o} /\ written' = {m \in written : m.org # o}
  /\ founded' = founded \ {o} /\ apart' = apart \ {o} /\ granted' = {g \in granted : g.org # o}
  /\ Kept({o}) /\ UNCHANGED <<nextOrg, nextRow>>
Deletes == \E o \in OrgId : Gone(o)
Pages == (\E u \in User : FirstPage(u)) \/ NextPage \/ LeaveList
Untouched == UNCHANGED <<owner, account, assigned, written, nextOrg, nextRow, page, founded, granted, apart>>

LEMMA Effects ==
  ASSUME CrmAssumption, Requests, [Next]_vars
  PROVE  \/ \E p \in Phone, s \in User : Joins(p, s)
         \/ \E p \in Phone : Joins(p, None)
         \/ \E w \in Worker : pos[w] = "commit" /\ pos'[w] = "idle" /\ Reassigned(job[w])
         \/ \E w \in Worker : pos[w] = "write" /\ Wrote(job[w])
         \/ Pages \/ CreateOrg \/ UpdateOrg \/ Deletes \/ Untouched
<1>1. ASSUME NEW w \in Worker, Onboard(w)
      PROVE  (\E p \in Phone, s \in User : Joins(p, s)) \/ Untouched
  <2>1. job[w] \in [kind : {"onboard"}, phone : Phone, sales : User] /\ job[w].sales # None
    BY <1>1, JobKinds, Numbers DEF Onboard, Requests, Kinds
  <2>2. CASE account[job[w].phone] = None /\ nextOrg <= MaxOrgs /\ nextRow <= MaxRows
    <3>1. Joins(job[w].phone, job[w].sales)
      BY <1>1, <2>1, <2>2 DEF Onboard, Joins, grants
    <3>2. QED
      BY <2>1, <3>1
  <2>3. CASE ~(account[job[w].phone] = None /\ nextOrg <= MaxOrgs /\ nextRow <= MaxRows)
    BY <1>1, <2>3 DEF Onboard, Untouched, grants
  <2>4. QED
    BY <2>2, <2>3
<1>2. ASSUME NEW p \in Phone, Register(p) PROVE Joins(p, None)
  BY <1>2 DEF Register, Joins, grants
<1>3. ASSUME NEW w \in Worker, CommitAssign(w)
      PROVE  pos[w] = "commit" /\ pos'[w] = "idle" /\ Reassigned(job[w])
  BY <1>3, JobKinds DEF CommitAssign, Reassigned, Requests, Kinds, Done, Goto
<1>4. ASSUME NEW w \in Worker, Write(w) PROVE (pos[w] = "write" /\ Wrote(job[w])) \/ Untouched
  <2>1. job[w] \in [kind : {"note", "recharge"}, org : OrgId, author : User] /\ pos[w] = "write"
    BY <1>4, JobKinds DEF Write, Requests, Kinds
  <2>2. QED
    BY <1>4, <2>1 DEF Write, Wrote, Untouched, grants
<1>5. ASSUME NEW w \in Worker,
             \/ BeginOnboard(w) \/ BeginAssign(w) \/ LockOrg(w) \/ Close(w)
             \/ BeginWrite(w) \/ BeginDelete(w) \/ Abort(w)
      PROVE  Untouched
  BY <1>5 DEF BeginOnboard, BeginAssign, LockOrg, Close, BeginWrite, BeginDelete, Abort, Untouched, grants
<1>6. CASE UNCHANGED vars
  BY <1>6 DEF vars, grants, Untouched
<1>7. ASSUME NEW w \in Worker, DeleteOrg(w) PROVE Deletes
  <2>1. job[w].org \in OrgId
    BY <1>7, JobKinds DEF DeleteOrg, Requests, Kinds
  <2>2. Gone(job[w].org)
    BY <1>7 DEF DeleteOrg, Gone
  <2>3. QED
    BY <2>1, <2>2 DEF Deletes
<1>8. QED
  BY <1>1, <1>2, <1>3, <1>4, <1>5, <1>6, <1>7 DEF Next, Pages

LEMMA JoinsTables ==
  ASSUME CrmAssumption, Tables, Writings, NEW p, NEW s, Joins(p, s)
  PROVE  /\ Tables' /\ Writings'
         /\ Orgs' = Orgs \cup {nextOrg} /\ owner'[nextOrg] = s /\ \A o \in Orgs : owner'[o] = owner[o]
<1>1. /\ nextOrg \in Nat /\ nextRow \in Nat /\ nextOrg \in 1..MaxOrgs
      /\ MaxOrgs \in Nat /\ MaxRows \in Nat /\ nextOrg \notin Orgs
  BY OrgsInRange, Numbers DEF Joins, Tables
<1>2. /\ Orgs' = Orgs \cup {nextOrg} /\ owner' = [o \in Orgs' |-> owner'[o]]
      /\ owner'[nextOrg] = s /\ \A o \in Orgs : owner'[o] = owner[o]
  BY <1>1 DEF Joins, NewOrg, Orgs
<1>3. nextOrg' = nextOrg + 1 /\ nextOrg' \in 1..(MaxOrgs + 1) /\ nextOrg' - 1 = nextOrg
  BY <1>1 DEF Joins, NewOrg
<1>4. Orgs' \subseteq 1..(nextOrg' - 1)
  BY <1>1, <1>2, <1>3 DEF Tables
<1>5. \A o \in Orgs' : owner'[o] \in User \cup {None}
  BY <1>2 DEF Tables, Joins
<1>6. account' \in [Phone -> Orgs' \cup {None}]
  BY <1>2 DEF Tables, Joins, NewOrg
<1>7. /\ assigned' \subseteq [id : 1..(nextRow' - 1), org : Orgs', sales : User, active : BOOLEAN]
      /\ (\A r, t \in assigned' : r.id = t.id => r = t) /\ nextRow' \in 1..(MaxRows + 1)
  <2>1. CASE s = None
    BY <1>2, <2>1 DEF Joins, Tables
  <2>2. CASE s # None
    <3>1. /\ assigned' = assigned \cup {[id |-> nextRow, org |-> nextOrg, sales |-> s, active |-> TRUE]}
          /\ nextRow' = nextRow + 1 /\ nextRow <= MaxRows /\ s \in User /\ nextRow \in 1..(MaxRows + 1)
      BY <2>2 DEF Joins, FirstAssignment, Tables
    <3>2. nextRow' - 1 = nextRow /\ nextRow' \in 1..(MaxRows + 1) /\ nextRow \in 1..nextRow
      BY <1>1, <3>1
    <3>3. \A r \in assigned : r.id \in 1..nextRow /\ r.id < nextRow
      BY <1>1 DEF Tables
    <3>4. assigned \subseteq [id : 1..nextRow, org : Orgs', sales : User, active : BOOLEAN]
      BY <1>2, <3>3 DEF Tables
    <3>5. [id |-> nextRow, org |-> nextOrg, sales |-> s, active |-> TRUE]
            \in [id : 1..nextRow, org : Orgs', sales : User, active : BOOLEAN]
      BY <1>2, <3>1, <3>2
    <3>6. \A r, t \in assigned' : r.id = t.id => r = t
      <4> DEFINE n == [id |-> nextRow, org |-> nextOrg, sales |-> s, active |-> TRUE]
      <4>1. n.id = nextRow /\ assigned' = assigned \cup {n}
        BY <3>1
      <4>2. \A r \in assigned : r.id # n.id
        BY <1>1, <3>3, <4>1
      <4> HIDE DEF n
      <4>3. QED
        BY <4>1, <4>2 DEF Tables
    <3>7. QED
      BY <3>1, <3>2, <3>4, <3>5, <3>6
  <2>3. QED
    BY <2>1, <2>2
<1>8. Writings'
  BY <1>2 DEF Joins, Writings
<1>9. QED
  BY <1>2, <1>3, <1>4, <1>5, <1>6, <1>7, <1>8 DEF Tables

\* Closing a row leaves what it is about.
LEMMA ClosedRow ==
  ASSUME Tables, NEW r \in assigned
  PROVE  [r EXCEPT !.active = FALSE] = [id |-> r.id, org |-> r.org, sales |-> r.sales, active |-> FALSE]
<1>1. /\ r = [id |-> r.id, org |-> r.org, sales |-> r.sales, active |-> r.active]
      /\ DOMAIN r = {"id", "org", "sales", "active"}
  <2>1. r \in [id : 1..(nextRow - 1), org : Orgs, sales : User, active : BOOLEAN]
    BY DEF Tables
  <2>2. QED
    BY <2>1
<1> DEFINE e == [r EXCEPT !.active = FALSE]
<1>2. e = [f \in {"id", "org", "sales", "active"} |-> IF f = "active" THEN FALSE ELSE r[f]]
  BY <1>1
<1> HIDE DEF e
<1>3. e = [id |-> r.id, org |-> r.org, sales |-> r.sales, active |-> FALSE]
  BY <1>2
<1>4. QED
  BY <1>3 DEF e

LEMMA ReassignedTables ==
  ASSUME CrmAssumption, Tables, Writings, NEW j, Reassigned(j)
  PROVE  /\ Tables' /\ Writings'
         /\ Orgs' = Orgs /\ owner'[j.org] = j.sales /\ \A o \in Orgs \ {j.org} : owner'[o] = owner[o]
         /\ \A t \in assigned' :
              \/ t = [id |-> nextRow, org |-> j.org, sales |-> j.sales, active |-> TRUE]
              \/ \E r \in assigned : /\ t.id = r.id /\ t.org = r.org /\ t.sales = r.sales
                                     /\ t.active = (r.active /\ r.id \notin j.closing)
         /\ \A r \in assigned : \E t \in assigned' :
              /\ t.id = r.id /\ t.org = r.org /\ t.sales = r.sales
              /\ t.active = (r.active /\ r.id \notin j.closing)
<1> DEFINE new == [id |-> nextRow, org |-> j.org, sales |-> j.sales, active |-> TRUE]
           Shut(r) == IF r.id \in j.closing THEN [r EXCEPT !.active = FALSE] ELSE r
<1>1. nextRow \in Nat /\ MaxRows \in Nat /\ nextRow <= MaxRows /\ j.org \in Orgs /\ j.sales \in User
  BY OrgsInRange, Numbers DEF Reassigned
<1>2. Orgs' = Orgs /\ owner'[j.org] = j.sales /\ \A o \in Orgs \ {j.org} : owner'[o] = owner[o]
  BY <1>1 DEF Reassigned, Orgs, Tables
<1>3. owner' = [o \in Orgs' |-> owner'[o]] /\ \A o \in Orgs' : owner'[o] \in User \cup {None}
  BY <1>1, <1>2 DEF Reassigned, Tables, Orgs
<1>4. ASSUME NEW r \in assigned
      PROVE  /\ Shut(r) = [id |-> r.id, org |-> r.org, sales |-> r.sales,
                           active |-> (r.active /\ r.id \notin j.closing)]
             /\ r.id \in 1..(nextRow - 1) /\ r.org \in Orgs /\ r.sales \in User /\ r.active \in BOOLEAN
  <2>1. r \in [id : 1..(nextRow - 1), org : Orgs, sales : User, active : BOOLEAN]
    BY DEF Tables
  <2>2. CASE r.id \in j.closing
    BY <2>1, <2>2, ClosedRow
  <2>3. CASE r.id \notin j.closing
    BY <2>1, <2>3
  <2>4. QED
    BY <2>1, <2>2, <2>3
<1>5. assigned' = {Shut(r) : r \in assigned} \cup {new} /\ nextRow' = nextRow + 1
  BY DEF Reassigned
<1> HIDE DEF Shut
<1>6. \A t \in assigned' :
        \/ t = new
        \/ \E r \in assigned : /\ t.id = r.id /\ t.org = r.org /\ t.sales = r.sales
                               /\ t.active = (r.active /\ r.id \notin j.closing)
  BY <1>4, <1>5
<1>7. \A r \in assigned : \E t \in assigned' :
        /\ t.id = r.id /\ t.org = r.org /\ t.sales = r.sales
        /\ t.active = (r.active /\ r.id \notin j.closing)
  BY <1>4, <1>5
<1>8. nextRow' \in 1..(MaxRows + 1) /\ nextRow' - 1 = nextRow
  BY <1>1, <1>5
<1>9. assigned' \subseteq [id : 1..(nextRow' - 1), org : Orgs', sales : User, active : BOOLEAN]
  <2>1. ASSUME NEW r \in assigned
        PROVE  Shut(r) \in [id : 1..nextRow, org : Orgs, sales : User, active : BOOLEAN]
    <3>1. r.id \in 1..nextRow
      BY <1>1, <1>4
    <3>2. PICK a \in BOOLEAN :
            Shut(r) = [id |-> r.id, org |-> r.org, sales |-> r.sales, active |-> a]
      BY <1>4
    <3>3. QED
      BY <1>4, <3>1, <3>2
  <2>2. nextRow \in 1..nextRow
    BY <1>1 DEF Tables
  <2>3. new \in [id : 1..nextRow, org : Orgs, sales : User, active : BOOLEAN]
    BY <1>1, <2>2
  <2>4. QED
    BY <1>2, <1>5, <1>8, <2>1, <2>3
<1>10. \A r, t \in assigned' : r.id = t.id => r = t
  <2>1. \A r \in assigned : r.id < nextRow /\ Shut(r).id = r.id
    BY <1>1, <1>4
  <2>2. \A r, t \in assigned : r.id = t.id => r = t
    BY DEF Tables
  <2>3. \A r, t \in assigned : Shut(r).id = Shut(t).id => Shut(r) = Shut(t)
    BY <2>1, <2>2
  <2>4. \A r \in assigned : Shut(r).id # new.id
    BY <1>1, <2>1
  <2> HIDE DEF new
  <2>5. QED
    BY <1>5, <2>3, <2>4
<1>11. Tables'
  BY <1>2, <1>3, <1>8, <1>9, <1>10 DEF Tables, Reassigned
<1>12. Writings'
  BY <1>2 DEF Reassigned, Writings
<1>13. QED
  BY <1>2, <1>6, <1>7, <1>11, <1>12

LEMMA WroteTables ==
  ASSUME CrmAssumption, Tables, Writings, NEW j, Wrote(j)
  PROVE  Tables' /\ Writings'
<1> DEFINE m == [id |-> Cardinality(written) + 1, org |-> j.org, author |-> j.author, kind |-> j.kind]
<1>1. Cardinality(written) \in Nat /\ MaxWrites \in Nat /\ Cardinality(written) < MaxWrites
  BY Numbers, FS_CardinalityType DEF Writings, Wrote
<1>2. Cardinality(written) + 1 \in 1..MaxWrites
  BY <1>1
<1>3. m \in [id : 1..MaxWrites, org : Orgs, author : User, kind : {"note", "recharge"}]
  BY <1>2 DEF Wrote
<1>4. written' = written \cup {m}
  BY DEF Wrote
<1>5. Orgs' = Orgs
  BY DEF Wrote, Orgs
<1> HIDE DEF m
<1>6. IsFiniteSet(written')
  BY <1>4, FS_AddElement DEF Writings
<1>7. QED
  BY <1>3, <1>4, <1>5, <1>6 DEF Wrote, Tables, Writings

LEMMA CreateTables ==
  ASSUME CrmAssumption, Tables, Writings, CreateOrg
  PROVE  /\ Tables' /\ Writings'
         /\ Orgs' = Orgs \cup {nextOrg} /\ nextOrg \notin Orgs /\ \A o \in Orgs : owner'[o] = owner[o]
         /\ \E s \in User \cup {None} : owner'[nextOrg] = s /\ Grant(nextOrg, s)
<1>1. /\ nextOrg \in Nat /\ nextOrg <= MaxOrgs /\ MaxOrgs \in Nat /\ nextOrg \notin Orgs
      /\ nextOrg' = nextOrg + 1
  BY OrgsInRange, Numbers DEF CreateOrg
<1>2. PICK s \in User \cup {None} :
        /\ owner' = [o \in Orgs \cup {nextOrg} |-> IF o = nextOrg THEN s ELSE owner[o]]
        /\ Grant(nextOrg, s)
  BY DEF CreateOrg
<1>3. /\ Orgs' = Orgs \cup {nextOrg} /\ owner' = [o \in Orgs' |-> owner'[o]]
      /\ owner'[nextOrg] = s /\ \A o \in Orgs : owner'[o] = owner[o]
  BY <1>1, <1>2 DEF Orgs
<1>4. nextOrg' \in 1..(MaxOrgs + 1) /\ nextOrg' - 1 = nextOrg /\ nextOrg \in 1..(MaxOrgs + 1)
  BY <1>1 DEF Tables
<1>5. Orgs' \subseteq 1..(nextOrg' - 1)
  BY <1>1, <1>3, <1>4 DEF Tables
<1>6. \A o \in Orgs' : owner'[o] \in User \cup {None}
  BY <1>3 DEF Tables
<1>7. assigned \subseteq [id : 1..(nextRow - 1), org : Orgs', sales : User, active : BOOLEAN]
  BY <1>3 DEF Tables
<1>8. Tables'
  BY <1>3, <1>4, <1>5, <1>6, <1>7 DEF CreateOrg, Tables
<1>9. Writings'
  BY <1>3 DEF CreateOrg, Writings
<1>10. QED
  BY <1>1, <1>2, <1>3, <1>8, <1>9

LEMMA UpdateTables ==
  ASSUME Tables, Writings, UpdateOrg
  PROVE  /\ Tables' /\ Writings' /\ Orgs' = Orgs
         /\ \E o \in Orgs, s \in User \cup {None} :
              /\ \A x \in Orgs \ {o} : owner'[x] = owner[x]
              /\ owner'[o] = s /\ Kept({o}) /\ Grant(o, s)
<1>1. PICK o \in Orgs, s \in User \cup {None} :
        owner' = [owner EXCEPT ![o] = s] /\ Kept({o}) /\ Grant(o, s)
  BY DEF UpdateOrg
<1>2. /\ Orgs' = Orgs /\ owner' = [x \in Orgs' |-> owner'[x]] /\ owner'[o] = s
      /\ \A x \in Orgs' : owner'[x] \in User \cup {None}
      /\ \A x \in Orgs \ {o} : owner'[x] = owner[x]
  BY <1>1 DEF Orgs, Tables
<1>3. Tables' /\ Writings'
  BY <1>2 DEF UpdateOrg, Tables, Writings
<1>4. QED
  BY <1>1, <1>2, <1>3

LEMMA DeleteTables ==
  ASSUME CrmAssumption, Tables, Writings, Deletes
  PROVE  /\ Tables' /\ Writings'
         /\ \E o \in OrgId :
              /\ Orgs' = Orgs \ {o} /\ lock[o] = None /\ Kept({o})
              /\ \A x \in Orgs' : owner'[x] = owner[x]
              /\ account' = [p \in Phone |-> IF account[p] = o THEN None ELSE account[p]]
              /\ assigned' = {r \in assigned : r.org # o} /\ written' = {m \in written : m.org # o}
              /\ founded' = founded \ {o} /\ apart' = apart \ {o}
              /\ granted' = {g \in granted : g.org # o}
<1>1. PICK o \in OrgId :
        /\ lock[o] = None
        /\ owner' = [x \in Orgs \ {o} |-> owner[x]]
        /\ account' = [p \in Phone |-> IF account[p] = o THEN None ELSE account[p]]
        /\ assigned' = {r \in assigned : r.org # o}
        /\ written' = {m \in written : m.org # o}
        /\ founded' = founded \ {o} /\ apart' = apart \ {o}
        /\ granted' = {g \in granted : g.org # o}
        /\ Kept({o}) /\ UNCHANGED <<nextOrg, nextRow>>
  BY DEF Deletes, Gone
<1>2. Orgs' = Orgs \ {o} /\ (\A x \in Orgs' : owner'[x] = owner[x]) /\ owner' = [x \in Orgs' |-> owner'[x]]
  BY <1>1 DEF Orgs
<1>3. account' \in [Phone -> Orgs' \cup {None}]
  BY <1>1, <1>2 DEF Tables
<1>4. assigned' \subseteq [id : 1..(nextRow - 1), org : Orgs', sales : User, active : BOOLEAN]
  <2>1. ASSUME NEW r \in assigned, r.org # o
        PROVE  r \in [id : 1..(nextRow - 1), org : Orgs', sales : User, active : BOOLEAN]
    <3>1. r \in [id : 1..(nextRow - 1), org : Orgs, sales : User, active : BOOLEAN]
      BY DEF Tables
    <3>2. QED
      BY <1>2, <2>1, <3>1
  <2>2. QED
    BY <1>1, <2>1
<1>5. UNCHANGED <<nextOrg, nextRow>>
  BY <1>1
<1>6. Tables'
  BY <1>1, <1>2, <1>3, <1>4, <1>5 DEF Tables
<1>7. Writings'
  <2>1. written' \subseteq written /\ IsFiniteSet(written')
    BY <1>1, FS_Subset DEF Writings
  <2>2. ASSUME NEW m \in written, m.org # o
        PROVE  m \in [id : 1..MaxWrites, org : Orgs', author : User, kind : {"note", "recharge"}]
    <3>1. m \in [id : 1..MaxWrites, org : Orgs, author : User, kind : {"note", "recharge"}]
      BY DEF Writings
    <3>2. QED
      BY <1>2, <2>2, <3>1
  <2>3. QED
    BY <1>1, <2>1, <2>2 DEF Writings
<1>8. QED
  BY <1>1, <1>2, <1>6, <1>7

LEMMA TablesStep ==
  ASSUME CrmAssumption, Types, [Next]_vars
  PROVE  Tables' /\ Writings'
<1>1. Tables /\ Writings /\ Requests
  BY DEF Types
<1>2. CASE Pages \/ Untouched
  <2>1. UNCHANGED <<owner, account, assigned, written, nextOrg, nextRow>>
    BY <1>2 DEF Pages, FirstPage, NextPage, LeaveList, Untouched
  <2>2. QED
    BY <1>1, <2>1 DEF Tables, Writings, Orgs
<1>3. QED
  BY <1>1, <1>2, Effects, JoinsTables, ReassignedTables, WroteTables, CreateTables, UpdateTables, DeleteTables

LEMMA GivenStep ==
  ASSUME CrmAssumption, Types, [Next]_vars
  PROVE  Given'
<1>1. Tables /\ Writings /\ Requests /\ Given
  BY DEF Types
<1>2. ASSUME Orgs \subseteq Orgs', NEW o \in Orgs', NEW s \in User \cup {None}, Grant(o, s),
             founded' \subseteq Orgs'
      PROVE  Given'
  <2>1. [org |-> o, sales |-> s] \in [org : Orgs', sales : User \cup {None}]
    OBVIOUS
  <2>2. granted' \subseteq [org : Orgs', sales : User \cup {None}]
    BY <1>1, <1>2, <2>1 DEF Given, Grant
  <2>3. QED
    BY <1>1, <1>2, <2>2 DEF Given, Grant
<1>3. ASSUME Orgs \subseteq Orgs', UNCHANGED <<founded, granted>>, apart' \subseteq apart PROVE Given'
  BY <1>1, <1>3 DEF Given
<1>4. CASE CreateOrg
  <2>1. founded' = founded \cup {nextOrg} /\ Orgs' = Orgs \cup {nextOrg}
        /\ \E s \in User \cup {None} : Grant(nextOrg, s)
    BY <1>1, <1>4, CreateTables DEF CreateOrg
  <2>2. QED
    BY <1>1, <1>2, <2>1 DEF Given
<1>5. CASE UpdateOrg
  <2>1. founded' = founded /\ Orgs' = Orgs /\ \E o \in Orgs, s \in User \cup {None} : Grant(o, s)
    BY <1>1, <1>5, UpdateTables DEF UpdateOrg
  <2>2. QED
    BY <1>1, <1>2, <2>1 DEF Given
<1>6. CASE Deletes
  <2>1. PICK x \in OrgId : /\ Orgs' = Orgs \ {x} /\ founded' = founded \ {x} /\ apart' = apart \ {x}
                           /\ granted' = {g \in granted : g.org # x}
    BY <1>1, <1>6, DeleteTables
  <2>2. ASSUME NEW g \in granted, g.org # x PROVE g \in [org : Orgs', sales : User \cup {None}]
    <3>1. g \in [org : Orgs, sales : User \cup {None}]
      BY <1>1 DEF Given
    <3>2. QED
      BY <2>1, <2>2, <3>1
  <2>3. QED
    BY <1>1, <2>1, <2>2 DEF Given
<1>7. ASSUME NEW p, NEW s, Joins(p, s) PROVE Given'
  BY <1>1, <1>3, <1>7, JoinsTables DEF Joins
<1>8. ASSUME NEW j, Reassigned(j) PROVE Given'
  BY <1>1, <1>3, <1>8, ReassignedTables DEF Reassigned
<1>9. CASE Pages \/ Untouched \/ \E w \in Worker : Wrote(job[w])
  BY <1>3, <1>9 DEF Pages, FirstPage, NextPage, LeaveList, Untouched, Wrote, Orgs, grants
<1>10. QED
  BY <1>1, <1>4, <1>5, <1>6, <1>7, <1>8, <1>9, Effects

----------------------------------------------------------------------------
(* The paged list                                                          *)

LEMMA LargestOrg ==
  ASSUME NEW n \in Nat, NEW S, S \subseteq 1..n, S # {}
  PROVE  Max(S) \in S /\ \A y \in S : Max(S) >= y
<1> DEFINE T == {n - i : i \in S}
<1>1. T \subseteq Nat /\ T # {}
  <2>1. \A i \in S : n - i \in Nat
    OBVIOUS
  <2>2. PICK i \in S : TRUE
    OBVIOUS
  <2>3. n - i \in T
    OBVIOUS
  <2>4. QED
    BY <2>1, <2>3
<1>2. PICK x \in T : \A y \in T : ~(<<y, x>> \in OpToRel(<, Nat))
  <2> HIDE DEF T
  <2>1. \E x \in T : \A y \in T : ~(<<y, x>> \in OpToRel(<, Nat))
    BY <1>1, NatLessThanWellFounded, WFMin
  <2>2. QED
    BY <2>1
<1>3. PICK i \in S : x = n - i
  BY <1>2
<1>4. ASSUME NEW y \in S PROVE i >= y
  <2>1. n - y \in T /\ n - y \in Nat /\ x \in Nat
    BY <1>1, <1>2
  <2>2. ~(n - y < x)
    BY <1>2, <2>1 DEF OpToRel
  <2>3. i \in Nat /\ y \in Nat
    OBVIOUS
  <2>4. QED
    BY <1>3, <2>2, <2>3
<1>5. QED
  BY <1>4 DEF Max

LEMMA SmallestOrg ==
  ASSUME NEW n \in Nat, NEW S, S \subseteq 1..n, S # {}
  PROVE  \E i \in S : \A y \in S : i <= y
<1>1. S \subseteq Nat
  OBVIOUS
<1>2. PICK i \in S : \A y \in S : ~(<<y, i>> \in OpToRel(<, Nat))
  BY <1>1, NatLessThanWellFounded, WFMin
<1>3. ASSUME NEW y \in S PROVE i <= y
  <2>1. y \in Nat /\ i \in Nat /\ ~(y < i)
    BY <1>1, <1>2 DEF OpToRel
  <2>2. QED
    BY <2>1
<1>4. QED
  BY <1>3

\* A page holds at most its limit, everything up to its last row, and
\* everything there is when it is not full.
LEMMA LeastRows ==
  ASSUME NEW n \in Nat, NEW rows, rows \subseteq 1..n, NEW k \in Nat \ {0}
  PROVE  /\ Least(rows, k) \subseteq rows
         /\ \A o \in rows, q \in Least(rows, k) : o <= q => o \in Least(rows, k)
         /\ Cardinality(Least(rows, k)) # k => Least(rows, k) = rows
<1> DEFINE L == Least(rows, k)
           Below(o) == {q \in rows : q < o}
<1> HIDE DEF Below
<1>a. /\ \A y \in rows : y \in Nat
      /\ \A o, y : y \in Below(o) <=> y \in rows /\ y < o
  BY DEF Below
<1>1. IsFiniteSet(rows) /\ \A o : IsFiniteSet(Below(o)) /\ Cardinality(Below(o)) \in Nat
  <2>1. IsFiniteSet(1..n)
    BY FS_Interval
  <2>2. IsFiniteSet(rows)
    BY <2>1, FS_Subset
  <2>3. \A o : Below(o) \subseteq rows
    BY <1>a
  <2>4. QED
    BY <2>2, <2>3, FS_Subset, FS_CardinalityType
<1>2. L = {o \in rows : Cardinality(Below(o)) < k}
  BY DEF Least, Below
<1> HIDE DEF L
<1>3. ASSUME NEW o \in rows, NEW q \in L, o <= q PROVE o \in L
  <2>1. o \in Nat /\ q \in Nat /\ q \in rows /\ Cardinality(Below(q)) < k
    BY <1>a, <1>2
  <2>2. Below(o) \subseteq Below(q)
    <3>1. ASSUME NEW y \in Below(o) PROVE y \in rows /\ y < q
      <4>1. y \in Nat /\ y \in rows /\ y < o
        BY <1>a
      <4>2. QED
        BY <1>3, <2>1, <4>1
    <3>2. QED
      BY <1>a, <3>1
  <2>3. Cardinality(Below(o)) <= Cardinality(Below(q))
    BY <1>1, <2>2, FS_Subset
  <2>4. Cardinality(Below(o)) < k
    BY <1>1, <2>1, <2>3
  <2>5. QED
    BY <1>2, <2>4
<1>4. IsFiniteSet(L) /\ L \subseteq rows /\ Cardinality(L) \in Nat
  BY <1>1, <1>2, FS_Subset, FS_CardinalityType
<1>5. Cardinality(L) <= k
  <2>1. CASE L = {}
    BY <2>1, FS_EmptySet
  <2>2. CASE L # {}
    <3>1. Max(L) \in L /\ \A y \in L : Max(L) >= y
      BY <1>4, <2>2, LargestOrg
    <3>2. L \subseteq Below(Max(L)) \cup {Max(L)} /\ Max(L) \notin Below(Max(L))
      <4>1. ASSUME NEW y \in L PROVE y = Max(L) \/ y \in Below(Max(L))
        <5>1. y \in Nat /\ Max(L) \in Nat /\ Max(L) >= y /\ y \in rows
          BY <1>a, <1>4, <3>1
        <5>2. QED
          BY <1>a, <5>1
      <4>2. Max(L) \in Nat
        BY <1>a, <1>4, <3>1
      <4>3. \A t \in Nat : ~(t < t)
        OBVIOUS
      <4>4. QED
        BY <1>a, <4>1, <4>2, <4>3
    <3>3. Cardinality(Below(Max(L)) \cup {Max(L)}) = Cardinality(Below(Max(L))) + 1
          /\ IsFiniteSet(Below(Max(L)) \cup {Max(L)})
      BY <1>1, <3>2, FS_AddElement
    <3>4. Cardinality(L) <= Cardinality(Below(Max(L)) \cup {Max(L)})
      BY <3>2, <3>3, FS_Subset
    <3>5. Cardinality(Below(Max(L))) < k /\ Cardinality(Below(Max(L))) \in Nat
      BY <1>1, <1>2, <3>1
    <3>6. QED
      BY <1>4, <3>3, <3>4, <3>5
  <2>3. QED
    BY <2>1, <2>2
<1>6. ASSUME L # rows PROVE Cardinality(L) >= k
  <2>1. rows \ L # {} /\ rows \ L \subseteq 1..n
    BY <1>4, <1>6
  <2>2. PICK o \in rows \ L : \A y \in rows \ L : o <= y
    BY <2>1, SmallestOrg
  <2>3. Below(o) \subseteq L
    <3>1. ASSUME NEW y \in Below(o), y \notin L PROVE FALSE
      <4>1. y \in rows /\ y \in Nat /\ o \in Nat /\ y < o /\ o <= y
        BY <1>a, <2>2, <3>1
      <4>2. QED
        BY <4>1
    <3>2. QED
      BY <3>1
  <2>4. Cardinality(Below(o)) <= Cardinality(L) /\ ~(Cardinality(Below(o)) < k)
    BY <1>2, <1>4, <2>2, <2>3, FS_Subset
  <2>5. QED
    BY <1>1, <1>4, <2>4
<1>7. QED
  BY <1>3, <1>4, <1>5, <1>6 DEF L

LEMMA LargestOnPage ==
  ASSUME NEW n \in Nat, NEW rows, rows \subseteq 1..n, NEW k \in Nat \ {0},
         Least(rows, k) # {}
  PROVE  Max(Least(rows, k)) \in rows /\ \A o \in rows : o <= Max(Least(rows, k)) => o \in Least(rows, k)
<1>1. Least(rows, k) \subseteq 1..n
  BY LeastRows
<1>2. Max(Least(rows, k)) \in Least(rows, k)
  BY <1>1, LargestOrg
<1>3. QED
  BY <1>2, LeastRows

\* Everything kept of the list is the reader's, and what is not behind the
\* cursor has been seen.
PageInv ==
  page # None =>
    /\ page.kept \subseteq Listed(page.reader)
    /\ \A o \in page.kept : o <= page.cursor => o \in page.seen
    /\ ~page.full => page.kept \subseteq page.seen

LEMMA ListedOrgs ==
  ASSUME CrmAssumption, Tables, NEW u
  PROVE  Listed(u) \subseteq 1..MaxOrgs /\ \A c : After(Listed(u), c) \subseteq 1..MaxOrgs
BY OrgsInRange DEF Listed, After, OrgId

LEMMA FirstPageKept ==
  ASSUME CrmAssumption, Tables, NEW u \in User, FirstPage(u)
  PROVE  Paging' /\ PageInv'
<1> DEFINE rows == Listed(u)
           got == Least(rows, PageSize)
           top == IF got = {} THEN 0 ELSE Max(got)
<1>1. /\ page' = [reader |-> u, cursor |-> top, seen |-> got, kept |-> rows,
                  full |-> Cardinality(got) = PageSize]
      /\ UNCHANGED owner
  BY DEF FirstPage
<1>2. rows \subseteq 1..MaxOrgs /\ MaxOrgs \in Nat /\ PageSize \in Nat \ {0}
  BY ListedOrgs, Numbers
<1> HIDE DEF rows
<1>4. /\ got \subseteq rows
      /\ Cardinality(got) # PageSize => got = rows
      /\ got # {} => Max(got) \in rows /\ \A o \in rows : o <= Max(got) => o \in got
  BY <1>2, LeastRows, LargestOnPage
<1> HIDE DEF got
<1>5. top \in 0..MaxOrgs
  <2>1. 0 \in 0..MaxOrgs /\ 1..MaxOrgs \subseteq 0..MaxOrgs
    BY <1>2
  <2>2. QED
    BY <1>2, <1>4, <2>1
<1>6. \A o \in rows : o <= top => o \in got
  <2>1. CASE got = {}
    <3>1. \A o \in rows : ~(o <= 0)
      BY <1>2
    <3>2. QED
      BY <2>1, <3>1
  <2>2. CASE got # {}
    BY <1>4, <2>2
  <2>3. QED
    BY <2>1, <2>2
<1> HIDE DEF top
<1>7. /\ page'.reader = u /\ page'.cursor = top /\ page'.seen = got /\ page'.kept = rows
      /\ page'.full = (Cardinality(got) = PageSize)
  BY <1>1
<1>8. Paging'
  BY <1>1, <1>2, <1>4, <1>5, <1>7 DEF Paging, OrgId
<1>9. \A o \in page'.kept : o \in Orgs' /\ (Restricted(page'.reader) => owner'[o] = page'.reader)
  BY <1>1, <1>7 DEF Listed, Reachable, Orgs, rows
<1>10. QED
  BY <1>4, <1>6, <1>7, <1>8, <1>9 DEF PageInv, Listed, Reachable

LEMMA NextPageKept ==
  ASSUME CrmAssumption, Tables, Paging, PageInv, NextPage
  PROVE  Paging' /\ PageInv'
<1> DEFINE rows == After(Listed(page.reader), page.cursor)
           got == Least(rows, PageSize)
           top == IF got = {} THEN page.cursor ELSE Max(got)
<1>1. /\ page # None /\ UNCHANGED owner
      /\ page' = [page EXCEPT !.seen = @ \cup got, !.full = Cardinality(got) = PageSize, !.cursor = top]
  BY DEF NextPage
<1>2. rows \subseteq 1..MaxOrgs /\ MaxOrgs \in Nat /\ PageSize \in Nat \ {0}
  BY ListedOrgs, Numbers
<1>3. \A o : o \in rows <=> o \in Listed(page.reader) /\ o > page.cursor
  BY DEF After
<1> HIDE DEF rows
<1>4. /\ got \subseteq rows
      /\ Cardinality(got) # PageSize => got = rows
      /\ got # {} => Max(got) \in rows /\ \A o \in rows : o <= Max(got) => o \in got
  BY <1>2, LeastRows, LargestOnPage
<1> HIDE DEF got
<1>5. /\ page.cursor \in 0..MaxOrgs /\ page.seen \subseteq OrgId
      /\ page = [reader |-> page.reader, cursor |-> page.cursor, seen |-> page.seen,
                 kept |-> page.kept, full |-> page.full]
      /\ page.kept \subseteq Listed(page.reader)
      /\ \A o \in page.kept : o <= page.cursor => o \in page.seen
  BY <1>1 DEF Paging, PageInv
<1>6. top \in 0..MaxOrgs
  BY <1>2, <1>4, <1>5
<1>7. \A o \in page.kept : o \in Nat
  BY <1>5, ListedOrgs
<1>8. \A o \in page.kept : o <= top => o \in page.seen \cup got
  <2>1. ASSUME NEW o \in page.kept, o <= top, ~(o <= page.cursor) PROVE o \in got
    <3>1. o \in Nat /\ page.cursor \in Nat /\ o > page.cursor
      BY <1>5, <1>7, <2>1
    <3>2. o \in rows /\ got # {}
      BY <1>3, <1>5, <2>1, <3>1
    <3>3. QED
      BY <1>4, <2>1, <3>2
  <2>2. QED
    BY <1>5, <2>1
<1>9. got = rows => page.kept \subseteq page.seen \cup got
  <2>1. ASSUME NEW o \in page.kept, ~(o <= page.cursor) PROVE o \in rows
    <3>1. o \in Nat /\ page.cursor \in Nat /\ o > page.cursor
      BY <1>5, <1>7, <2>1
    <3>2. QED
      BY <1>3, <1>5, <3>1
  <2>2. QED
    BY <1>5, <2>1
<1> HIDE DEF top
<1>10. page' = [reader |-> page.reader, cursor |-> top, seen |-> page.seen \cup got,
                kept |-> page.kept, full |-> Cardinality(got) = PageSize]
  <2>1. /\ DOMAIN page = {"reader", "cursor", "seen", "kept", "full"}
        /\ page = [f \in {"reader", "cursor", "seen", "kept", "full"} |-> page[f]]
    BY <1>5
  <2>2. page' = [f \in {"reader", "cursor", "seen", "kept", "full"} |->
                   IF f = "cursor" THEN top
                   ELSE IF f = "full" THEN Cardinality(got) = PageSize
                   ELSE IF f = "seen" THEN page.seen \cup got ELSE page[f]]
    BY <1>1, <2>1
  <2>3. QED
    BY <2>2
<1>11. /\ page'.reader = page.reader /\ page'.cursor = top /\ page'.seen = page.seen \cup got
       /\ page'.kept = page.kept /\ page'.full = (Cardinality(got) = PageSize)
  BY <1>10
<1>12. Paging'
  BY <1>2, <1>4, <1>5, <1>6, <1>10, <1>11 DEF Paging, OrgId
<1>13. \A o \in page'.kept : o \in Orgs' /\ (Restricted(page'.reader) => owner'[o] = page'.reader)
  BY <1>1, <1>5, <1>11 DEF Listed, Reachable, Orgs
<1>14. QED
  BY <1>4, <1>8, <1>9, <1>11, <1>12, <1>13 DEF PageInv, Listed, Reachable

\* The owners of others change, or customers come: what is kept is still listed.
LEMMA OthersKept ==
  ASSUME Paging, PageInv, NEW os, Kept(os),
         \A o \in Orgs \ os : o \in Orgs' /\ owner'[o] = owner[o]
  PROVE  Paging' /\ PageInv'
<1>1. CASE page = None
  BY <1>1 DEF Kept, Paging, PageInv
<1>2. CASE page # None
  <2>1. page = [reader |-> page.reader, cursor |-> page.cursor, seen |-> page.seen,
                kept |-> page.kept, full |-> page.full]
    BY <1>2 DEF Paging
  <2>2. page' = [page EXCEPT !.kept = @ \ os]
    BY <1>2 DEF Kept
  <2>3. page' = [reader |-> page.reader, cursor |-> page.cursor, seen |-> page.seen,
                 kept |-> page.kept \ os, full |-> page.full]
    <3>1. /\ DOMAIN page = {"reader", "cursor", "seen", "kept", "full"}
          /\ page = [f \in {"reader", "cursor", "seen", "kept", "full"} |-> page[f]]
      BY <2>1
    <3>2. page' = [f \in {"reader", "cursor", "seen", "kept", "full"} |->
                     IF f = "kept" THEN page.kept \ os ELSE page[f]]
      BY <2>2, <3>1
    <3>3. QED
      BY <3>2
  <2>4. /\ page'.reader = page.reader /\ page'.cursor = page.cursor /\ page'.seen = page.seen
        /\ page'.kept = page.kept \ os /\ page'.full = page.full
    BY <2>3
  <2>5. Paging'
    BY <1>2, <2>3, <2>4 DEF Paging
  <2>6. \A o \in page'.kept : o \in Orgs' /\ (Restricted(page'.reader) => owner'[o] = page'.reader)
    BY <1>2, <2>4 DEF PageInv, Listed, Reachable
  <2>7. QED
    BY <1>2, <2>4, <2>5, <2>6 DEF PageInv, Listed, Reachable
<1>3. QED
  BY <1>1, <1>2

LEMMA PagingStep ==
  ASSUME CrmAssumption, Types, PageInv, [Next]_vars
  PROVE  Paging' /\ PageInv'
<1>1. Tables /\ Writings /\ Requests /\ Paging
  BY DEF Types
<1>2. ASSUME NEW p, NEW s, Joins(p, s) PROVE Paging' /\ PageInv'
  <2>1. /\ Orgs' = Orgs \cup {nextOrg} /\ \A o \in Orgs : owner'[o] = owner[o]
        /\ UNCHANGED page
    BY <1>1, <1>2, JoinsTables DEF Joins
  <2>2. Paging'
    BY <1>1, <2>1 DEF Paging
  <2>3. PageInv'
    BY <2>1 DEF PageInv, Listed, Reachable
  <2>4. QED
    BY <2>2, <2>3
<1>3. ASSUME NEW j, Reassigned(j) PROVE Paging' /\ PageInv'
  <2>1. Kept({j.org}) /\ \A o \in Orgs \ {j.org} : o \in Orgs' /\ owner'[o] = owner[o]
    BY <1>1, <1>3, ReassignedTables DEF Reassigned
  <2>2. QED
    BY <1>1, <2>1, OthersKept
<1>9. CASE CreateOrg
  <2>1. Orgs \subseteq Orgs' /\ (\A o \in Orgs : owner'[o] = owner[o]) /\ UNCHANGED page
    BY <1>1, <1>9, CreateTables DEF CreateOrg
  <2>2. Paging'
    BY <1>1, <2>1 DEF Paging
  <2>3. PageInv'
    BY <2>1 DEF PageInv, Listed, Reachable
  <2>4. QED
    BY <2>2, <2>3
<1>4. CASE UpdateOrg
  <2>1. PICK o \in Orgs : (\A x \in Orgs \ {o} : x \in Orgs' /\ owner'[x] = owner[x]) /\ Kept({o})
    BY <1>1, <1>4, UpdateTables
  <2>2. QED
    BY <1>1, <2>1, OthersKept
<1>5. CASE Deletes
  <2>1. PICK o \in OrgId : (\A x \in Orgs \ {o} : x \in Orgs' /\ owner'[x] = owner[x]) /\ Kept({o})
    BY <1>1, <1>5, DeleteTables
  <2>2. QED
    BY <1>1, <2>1, OthersKept
<1>6. CASE UNCHANGED <<owner, page>>
  BY <1>1, <1>6 DEF Paging, PageInv, Listed, Reachable, Orgs
<1>7. CASE Pages
  <2>1. CASE LeaveList
    BY <2>1 DEF LeaveList, Paging, PageInv
  <2>2. QED
    BY <1>1, <1>7, <2>1, FirstPageKept, NextPageKept DEF Pages
<1>8. QED
  BY <1>1, <1>2, <1>3, <1>4, <1>5, <1>6, <1>7, <1>9, Effects DEF Wrote, Untouched

----------------------------------------------------------------------------
(* The history                                                             *)

\* The rows of a customer in a table, and the ids of the active ones.
RowsIn(table, o) == {r \in table : r.org = o}
ActiveIn(table, o) == {r.id : r \in {q \in table : q.org = o /\ q.active}}
ActiveIds(o) == ActiveIn(assigned, o)

\* rows are a history, and own is whom it ends with.
History(rows) ==
  /\ \A r, s \in rows : r.active /\ s.active => r = s
  /\ \A r \in rows : r.active = (\A s \in rows : s.id <= r.id)
  /\ rows # {} => \E r \in rows : r.active
Ends(rows, own) == own = IF rows = {} THEN None ELSE (CHOOSE r \in rows : r.active).sales
Histories ==
  \A o \in Orgs :
    /\ History(RowsIn(assigned, o))
    /\ o \notin apart => Ends(RowsIn(assigned, o), owner[o])
\* Where an owner stands apart from the history, organization.rs wrote it.
Granted == \A o \in apart : [org |-> o, sales |-> owner[o]] \in granted

\* A request is about an organisation there was; a reassignment about to commit
\* closes what is active.
Sited ==
  \A w \in Worker : pos[w] \in {"lock", "close", "commit", "write"} => job[w].org \in Nat /\ job[w].org < nextOrg
ClosingAll == \A w \in Worker : pos[w] = "commit" => job[w].closing = ActiveIds(job[w].org)

HistoryInv == Histories /\ Granted /\ Sited /\ ClosingAll

LEMMA Moves ==
  ASSUME Requests, [Next]_vars, NEW v \in Worker
  PROVE  \/ pos'[v] = pos[v] /\ job'[v] = job[v]
         \/ pos'[v] \in {"idle", "insert", "delete"}
         \/ Untouched /\ pos'[v] = "lock" /\ job'[v].org \in Orgs
         \/ Untouched /\ pos[v] = "lock" /\ pos'[v] = "close" /\ job'[v] = job[v]
         \/ /\ Untouched /\ pos[v] = "close" /\ pos'[v] = "commit"
            /\ job'[v].org = job[v].org /\ job'[v].closing = ActiveIds(job[v].org)
         \/ /\ Untouched /\ pos'[v] = "write"
            /\ \E u \in User, o \in Orgs, k \in {"note", "recharge"} :
                 /\ job'[v] = [kind |-> k, org |-> o, author |-> u]
                 /\ Passes(Perms(u), "crm.write") /\ Reachable(u, o)
<1>1. CASE UNCHANGED <<pos, job>>
  BY <1>1
<1>2. ASSUME NEW w \in Worker, NEW s, NEW j, Goto(w, s, j), v # w
      PROVE  pos'[v] = pos[v] /\ job'[v] = job[v]
  BY <1>2 DEF Goto, Requests
<1>3. ASSUME NEW s, NEW j, Goto(v, s, j) PROVE pos'[v] = s /\ job'[v] = j
  BY <1>3 DEF Goto, Requests
<1>4. ASSUME NEW w \in Worker,
             \/ BeginOnboard(w) \/ Onboard(w) \/ BeginAssign(w) \/ LockOrg(w) \/ Close(w)
             \/ CommitAssign(w) \/ BeginWrite(w) \/ Write(w) \/ Abort(w)
             \/ BeginDelete(w) \/ DeleteOrg(w),
             v # w
      PROVE  pos'[v] = pos[v] /\ job'[v] = job[v]
  <2>1. \E s, j : Goto(w, s, j)
    BY <1>4 DEF BeginOnboard, Onboard, BeginAssign, LockOrg, Close, CommitAssign, BeginWrite, Write, Abort,
       BeginDelete, DeleteOrg, Done
  <2>2. QED
    BY <1>2, <1>4, <2>1
<1>5. ASSUME \/ Onboard(v) \/ BeginOnboard(v) \/ CommitAssign(v) \/ Write(v) \/ Abort(v)
             \/ BeginDelete(v) \/ DeleteOrg(v)
      PROVE  pos'[v] \in {"idle", "insert", "delete"}
  BY <1>3, <1>5 DEF Onboard, BeginOnboard, CommitAssign, Write, Abort, BeginDelete, DeleteOrg, Done
<1>6. ASSUME BeginAssign(v) PROVE Untouched /\ pos'[v] = "lock" /\ job'[v].org \in Orgs
  BY <1>3, <1>6 DEF BeginAssign, Untouched, grants
<1>7. ASSUME LockOrg(v)
      PROVE  \/ pos'[v] = "idle"
             \/ Untouched /\ pos[v] = "lock" /\ pos'[v] = "close" /\ job'[v] = job[v]
  BY <1>3, <1>7 DEF LockOrg, Done, Untouched, grants
<1>8. ASSUME Close(v)
      PROVE  /\ Untouched /\ pos[v] = "close" /\ pos'[v] = "commit"
             /\ job'[v].org = job[v].org /\ job'[v].closing = ActiveIds(job[v].org)
  <2>1. job[v] \in [kind : {"assign"}, org : OrgId, sales : User, closing : SUBSET (1..MaxRows)]
    BY <1>8, JobKinds DEF Close, Requests, Kinds
  <2>2. job'[v] = [job[v] EXCEPT !.closing = ActiveIds(job[v].org)]
    BY <1>3, <1>8 DEF Close, ActiveIds, ActiveIn
  <2>3. job'[v].org = job[v].org /\ job'[v].closing = ActiveIds(job[v].org)
    BY <2>1, <2>2
  <2>4. QED
    BY <1>3, <1>8, <2>3 DEF Close, Untouched, grants
<1>9. ASSUME BeginWrite(v)
      PROVE  /\ Untouched /\ pos'[v] = "write"
             /\ \E u \in User, o \in Orgs, k \in {"note", "recharge"} :
                  /\ job'[v] = [kind |-> k, org |-> o, author |-> u]
                  /\ Passes(Perms(u), "crm.write") /\ Reachable(u, o)
  <2>1. PICK u \in User, o \in Orgs, k \in {"note", "recharge"} :
          /\ Passes(Perms(u), "crm.write") /\ Reachable(u, o)
          /\ Goto(v, "write", [kind |-> k, org |-> o, author |-> u])
    BY <1>9 DEF BeginWrite, load_scoped_org
  <2>2. pos'[v] = "write" /\ job'[v] = [kind |-> k, org |-> o, author |-> u]
    BY <1>3, <2>1
  <2>3. QED
    BY <1>9, <2>1, <2>2 DEF BeginWrite, Untouched, grants
<1>10. QED
  BY <1>1, <1>4, <1>5, <1>6, <1>7, <1>8, <1>9
  DEF Next, Register, FirstPage, NextPage, LeaveList, CreateOrg, UpdateOrg, vars

\* A reassignment leaves the rows of the other customers.
LEMMA OtherRows ==
  ASSUME CrmAssumption, Tables, Writings, NEW j, Reassigned(j), j.closing = ActiveIds(j.org),
         NEW o, o # j.org
  PROVE  RowsIn(assigned', o) = RowsIn(assigned, o)
<1>1. /\ Tables'
      /\ \A t \in assigned' :
           \/ t = [id |-> nextRow, org |-> j.org, sales |-> j.sales, active |-> TRUE]
           \/ \E r \in assigned : /\ t.id = r.id /\ t.org = r.org /\ t.sales = r.sales
                                  /\ t.active = (r.active /\ r.id \notin j.closing)
      /\ \A r \in assigned : \E t \in assigned' :
           /\ t.id = r.id /\ t.org = r.org /\ t.sales = r.sales
           /\ t.active = (r.active /\ r.id \notin j.closing)
  BY ReassignedTables
<1>2. /\ \A r \in assigned : r = [id |-> r.id, org |-> r.org, sales |-> r.sales, active |-> r.active]
                             /\ r.active \in BOOLEAN
      /\ \A t \in assigned' : t = [id |-> t.id, org |-> t.org, sales |-> t.sales, active |-> t.active]
                              /\ t.active \in BOOLEAN
  BY <1>1 DEF Tables
<1>3. ASSUME NEW r \in assigned, r.org = o PROVE r.id \notin j.closing
  <2>1. ASSUME r.id \in j.closing PROVE FALSE
    <3>1. PICK q \in assigned : q.org = j.org /\ q.id = r.id
      BY <2>1 DEF ActiveIds, ActiveIn
    <3>2. q = r
      BY <3>1 DEF Tables
    <3>3. QED
      BY <1>3, <3>1, <3>2
  <2>2. QED
    BY <2>1
<1>4. ASSUME NEW t \in assigned', t.org = o PROVE t \in assigned
  <2>1. PICK r \in assigned : /\ t.id = r.id /\ t.org = r.org /\ t.sales = r.sales
                              /\ t.active = (r.active /\ r.id \notin j.closing)
    BY <1>1, <1>4
  <2>2. t.active = r.active
    BY <1>2, <1>3, <1>4, <2>1
  <2>3. t = r
    BY <1>2, <2>1, <2>2
  <2>4. QED
    BY <2>3
<1>5. ASSUME NEW r \in assigned, r.org = o PROVE r \in assigned'
  <2>1. PICK t \in assigned' : /\ t.id = r.id /\ t.org = r.org /\ t.sales = r.sales
                               /\ t.active = (r.active /\ r.id \notin j.closing)
    BY <1>1
  <2>2. t.active = r.active
    BY <1>2, <1>3, <1>5, <2>1
  <2>3. t = r
    BY <1>2, <2>1, <2>2
  <2>4. QED
    BY <2>3
<1>6. QED
  BY <1>4, <1>5 DEF RowsIn

\* The history of the customer reassigned: everything closed, and the new row.
LEMMA NewHistory ==
  ASSUME CrmAssumption, Tables, Writings, NEW j, Reassigned(j), j.closing = ActiveIds(j.org)
  PROVE  History(RowsIn(assigned', j.org)) /\ Ends(RowsIn(assigned', j.org), owner'[j.org])
<1> DEFINE n == [id |-> nextRow, org |-> j.org, sales |-> j.sales, active |-> TRUE]
<1>1. /\ owner'[j.org] = j.sales
      /\ \A t \in assigned' :
           \/ t = n
           \/ \E r \in assigned : /\ t.id = r.id /\ t.org = r.org /\ t.sales = r.sales
                                  /\ t.active = (r.active /\ r.id \notin j.closing)
  BY ReassignedTables
<1>2. n.id = nextRow /\ n.active = TRUE /\ n.sales = j.sales /\ n.org = j.org /\ n \in assigned'
  BY DEF Reassigned
<1> HIDE DEF n
<1>3. nextRow \in Nat /\ \A r \in assigned : r.id \in Nat /\ r.id < nextRow
  BY OrgsInRange DEF Tables
<1> DEFINE rows == RowsIn(assigned', j.org)
           own == owner'[j.org]
<1>4. \A t : t \in rows <=> t \in assigned' /\ t.org = j.org
  BY DEF RowsIn
<1> HIDE DEF rows
<1>5. ASSUME NEW t \in rows PROVE t = n \/ (t.id \in Nat /\ t.id < nextRow /\ t.active = FALSE)
  <2>1. CASE \E r \in assigned : /\ t.id = r.id /\ t.org = r.org /\ t.sales = r.sales
                                 /\ t.active = (r.active /\ r.id \notin j.closing)
    <3>1. PICK r \in assigned : /\ t.id = r.id /\ t.org = r.org
                                /\ t.active = (r.active /\ r.id \notin j.closing)
      BY <2>1
    <3>2. r.org = j.org
      BY <1>4, <3>1
    <3>3. r.active => r.id \in j.closing
      BY <3>2 DEF ActiveIds, ActiveIn
    <3>4. QED
      BY <1>3, <3>1, <3>3
  <2>2. QED
    BY <1>1, <1>4, <2>1
<1>6. n \in rows
  BY <1>2, <1>4
<1>7. \A r \in rows : r.active = (\A s \in rows : s.id <= r.id)
  <2>1. \A s \in rows : s.id <= n.id
    <3>1. ASSUME NEW s \in rows, s # n PROVE s.id <= nextRow
      <4>1. s.id \in Nat /\ s.id < nextRow
        BY <1>5, <3>1
      <4>2. QED
        BY <1>3, <4>1
    <3>2. nextRow <= nextRow
      BY <1>3
    <3>3. QED
      BY <1>2, <3>1, <3>2
  <2>2. ASSUME NEW r \in rows, r # n PROVE ~(n.id <= r.id)
    <3>1. r.id \in Nat /\ r.id < nextRow
      BY <1>5, <2>2
    <3>2. ~(nextRow <= r.id)
      BY <1>3, <3>1
    <3>3. QED
      BY <1>2, <3>2
  <2>3. ASSUME NEW r \in rows PROVE r.active = (\A s \in rows : s.id <= r.id)
    <3>1. CASE r = n
      BY <1>2, <2>1, <3>1
    <3>2. CASE r # n
      BY <1>5, <1>6, <2>2, <3>2
    <3>3. QED
      BY <3>1, <3>2
  <2>4. QED
    BY <2>3
<1>8. \A r \in rows : r.active <=> r = n
  BY <1>2, <1>5
<1>9. (CHOOSE r \in rows : r.active) = n
  BY <1>6, <1>8
<1>10. QED
  <2>1. own = IF rows = {} THEN None ELSE (CHOOSE r \in rows : r.active).sales
    BY <1>1, <1>2, <1>6, <1>9
  <2>2. (\A r, s \in rows : r.active /\ s.active => r = s) /\ \E r \in rows : r.active
    BY <1>6, <1>8
  <2>3. QED
    BY <1>7, <2>1, <2>2 DEF History, Ends, rows

LEMMA SameRows ==
  ASSUME NEW t, NEW u, NEW o, RowsIn(t, o) = RowsIn(u, o)
  PROVE  ActiveIn(t, o) = ActiveIn(u, o)
<1>1. \A q : q \in t /\ q.org = o <=> q \in u /\ q.org = o
  BY DEF RowsIn
<1>2. {q \in t : q.org = o /\ q.active} = {q \in u : q.org = o /\ q.active}
  BY <1>1
<1>3. QED
  BY <1>2 DEF ActiveIn

\* Whoever joins takes the place of nobody.
LEMMA JoinedRows ==
  ASSUME CrmAssumption, Tables, NEW p, NEW s, Joins(p, s)
  PROVE  /\ \A o : o # nextOrg => RowsIn(assigned', o) = RowsIn(assigned, o)
         /\ RowsIn(assigned', nextOrg)
              = IF s = None THEN {} ELSE {[id |-> nextRow, org |-> nextOrg, sales |-> s, active |-> TRUE]}
<1>1. \A r \in assigned : r.org # nextOrg
  BY OrgsInRange DEF Tables
<1>2. CASE s = None
  BY <1>1, <1>2 DEF Joins, RowsIn
<1>3. CASE s # None
  <2> DEFINE n == [id |-> nextRow, org |-> nextOrg, sales |-> s, active |-> TRUE]
  <2>1. n.org = nextOrg /\ assigned' = assigned \cup {n}
    BY <1>3 DEF Joins, FirstAssignment
  <2> HIDE DEF n
  <2>2. /\ \A o : o # nextOrg => RowsIn(assigned', o) = RowsIn(assigned, o)
        /\ RowsIn(assigned', nextOrg) = {n}
    BY <1>1, <2>1 DEF RowsIn
  <2>3. QED
    BY <1>3, <2>2 DEF n
<1>4. QED
  BY <1>2, <1>3

LEMMA FirstHistory ==
  ASSUME CrmAssumption, Tables, NEW s \in User \cup {None}, NEW rows,
         rows = IF s = None THEN {} ELSE {[id |-> nextRow, org |-> nextOrg, sales |-> s, active |-> TRUE]}
  PROVE  History(rows) /\ Ends(rows, s)
<1>1. CASE s = None
  BY <1>1 DEF History, Ends
<1>2. CASE s # None
  <2> DEFINE n == [id |-> nextRow, org |-> nextOrg, sales |-> s, active |-> TRUE]
  <2>1. n.id = nextRow /\ n.active = TRUE /\ n.sales = s /\ nextRow \in Nat /\ rows = {n}
    BY <1>2, OrgsInRange
  <2> HIDE DEF n
  <2>2. (CHOOSE r \in {n} : r.active) = n
    BY <2>1
  <2>3. nextRow <= nextRow
    BY <2>1
  <2>4. \A r \in {n} : r.active = (\A t \in {n} : t.id <= r.id)
    BY <2>1, <2>3
  <2>5. s = IF {n} = {} THEN None ELSE (CHOOSE r \in {n} : r.active).sales
    BY <2>1, <2>2
  <2>6. QED
    BY <2>1, <2>4, <2>5 DEF History, Ends
<1>3. QED
  BY <1>1, <1>2

LEMMA DeletedRows ==
  ASSUME NEW t, NEW x, NEW o, o # x
  PROVE  RowsIn({r \in t : r.org # x}, o) = RowsIn(t, o)
BY DEF RowsIn

LEMMA HistoriesStep ==
  ASSUME CrmAssumption, Types, HistoryInv, [Next]_vars
  PROVE  Histories'
<1>1. Tables /\ Writings /\ Given /\ Requests /\ Histories
  BY DEF Types, HistoryInv
<1>2. ASSUME NEW p \in Phone, NEW s \in User \cup {None}, Joins(p, s) PROVE Histories'
  <2>1. Orgs' = Orgs \cup {nextOrg} /\ owner'[nextOrg] = s /\ \A o \in Orgs : owner'[o] = owner[o]
    BY <1>1, <1>2, JoinsTables
  <2>2. nextOrg \notin Orgs /\ apart' = apart
    BY <1>1, <1>2, OrgsInRange DEF Joins
  <2>3. ASSUME NEW o \in Orgs
        PROVE  History(RowsIn(assigned', o)) /\ (o \notin apart' => Ends(RowsIn(assigned', o), owner'[o]))
    BY <1>1, <1>2, <2>1, <2>2, JoinedRows DEF Histories
  <2>4. History(RowsIn(assigned', nextOrg)) /\ Ends(RowsIn(assigned', nextOrg), owner'[nextOrg])
    BY <1>1, <1>2, <2>1, JoinedRows, FirstHistory
  <2>5. QED
    BY <2>1, <2>3, <2>4 DEF Histories
<1>3. ASSUME NEW w \in Worker, pos[w] = "commit", Reassigned(job[w]) PROVE Histories'
  <2>1. job[w].closing = ActiveIds(job[w].org) /\ apart' = apart \ {job[w].org}
    BY <1>3 DEF HistoryInv, ClosingAll, Reassigned
  <2>2. Orgs' = Orgs /\ \A o \in Orgs \ {job[w].org} : owner'[o] = owner[o]
    BY <1>1, <1>3, ReassignedTables
  <2>3. /\ History(RowsIn(assigned', job[w].org))
        /\ Ends(RowsIn(assigned', job[w].org), owner'[job[w].org])
    BY <1>1, <1>3, <2>1, NewHistory
  <2>4. ASSUME NEW o \in Orgs, o # job[w].org
        PROVE  History(RowsIn(assigned', o)) /\ (o \notin apart' => Ends(RowsIn(assigned', o), owner'[o]))
    BY <1>1, <1>3, <2>1, <2>2, <2>4, OtherRows DEF Histories
  <2>5. QED
    BY <2>2, <2>3, <2>4 DEF Histories
<1>4. CASE Deletes
  <2>1. PICK x \in OrgId : /\ Orgs' = Orgs \ {x} /\ \A o \in Orgs' : owner'[o] = owner[o]
                           /\ assigned' = {r \in assigned : r.org # x} /\ apart' = apart \ {x}
    BY <1>1, <1>4, DeleteTables
  <2>2. ASSUME NEW o \in Orgs'
        PROVE  History(RowsIn(assigned', o)) /\ (o \notin apart' => Ends(RowsIn(assigned', o), owner'[o]))
    <3>1. o \in Orgs /\ o # x /\ owner'[o] = owner[o]
      BY <2>1, <2>2
    <3>2. RowsIn(assigned', o) = RowsIn(assigned, o)
      BY <2>1, <3>1 DEF RowsIn
    <3>3. QED
      BY <1>1, <2>1, <3>1, <3>2 DEF Histories
  <2>3. QED
    BY <2>2 DEF Histories
<1>5. CASE CreateOrg
  <2>1. /\ Orgs' = Orgs \cup {nextOrg} /\ \A o \in Orgs : owner'[o] = owner[o]
        /\ assigned' = assigned /\ apart' = apart \cup {nextOrg}
    BY <1>1, <1>5, CreateTables DEF CreateOrg, Grant
  <2>2. \A r \in assigned : r.org # nextOrg
    BY <1>1, OrgsInRange DEF Tables
  <2>3. History(RowsIn(assigned', nextOrg))
    BY <2>1, <2>2 DEF History, RowsIn
  <2>4. QED
    BY <1>1, <2>1, <2>3 DEF Histories
<1>6. CASE UpdateOrg
  <2>1. PICK x \in Orgs, s \in User \cup {None} :
          (\A o \in Orgs \ {x} : owner'[o] = owner[o]) /\ Grant(x, s)
    BY <1>1, <1>6, UpdateTables
  <2>2. Orgs' = Orgs /\ assigned' = assigned /\ apart' = apart \cup {x}
    BY <1>1, <1>6, <2>1, UpdateTables DEF UpdateOrg, Grant
  <2>3. QED
    BY <1>1, <2>1, <2>2 DEF Histories
<1>7. CASE UNCHANGED <<owner, assigned, apart>>
  BY <1>1, <1>7 DEF Histories, Orgs
<1>8. Pages => UNCHANGED <<owner, assigned, apart>>
  BY DEF Pages, FirstPage, NextPage, LeaveList, grants
<1>9. QED
  BY <1>1, <1>2, <1>3, <1>4, <1>5, <1>6, <1>7, <1>8, Effects DEF Wrote, Untouched

LEMMA GrantedStep ==
  ASSUME CrmAssumption, Types, HistoryInv, [Next]_vars
  PROVE  Granted'
<1>1. Tables /\ Writings /\ Given /\ Requests /\ Granted /\ apart \subseteq Orgs
  BY DEF Types, HistoryInv, Given
<1>2. ASSUME granted \subseteq granted', apart' \subseteq apart, \A o \in apart' : owner'[o] = owner[o]
      PROVE  Granted'
  BY <1>1, <1>2 DEF Granted
<1>3. ASSUME NEW p, NEW s, Joins(p, s) PROVE Granted'
  BY <1>1, <1>2, <1>3, JoinsTables DEF Joins
<1>4. ASSUME NEW j, Reassigned(j) PROVE Granted'
  <2>1. (\A o \in Orgs \ {j.org} : owner'[o] = owner[o]) /\ apart' = apart \ {j.org} /\ granted' = granted
    BY <1>1, <1>4, ReassignedTables DEF Reassigned
  <2>2. QED
    BY <1>1, <1>2, <2>1
<1>5. CASE Deletes
  <2>1. PICK x \in OrgId : /\ Orgs' = Orgs \ {x} /\ \A o \in Orgs' : owner'[o] = owner[o]
                           /\ apart' = apart \ {x} /\ granted' = {g \in granted : g.org # x}
    BY <1>1, <1>5, DeleteTables
  <2>2. ASSUME NEW o \in apart' PROVE [org |-> o, sales |-> owner'[o]] \in granted'
    <3>1. o \in apart /\ o # x /\ owner'[o] = owner[o]
      BY <1>1, <2>1, <2>2
    <3>2. [org |-> o, sales |-> owner[o]] \in granted /\ [org |-> o, sales |-> owner[o]].org = o
      BY <1>1, <3>1 DEF Granted
    <3>3. QED
      BY <2>1, <3>1, <3>2
  <2>3. QED
    BY <2>2 DEF Granted
<1>6. ASSUME NEW x, NEW s, owner'[x] = s, Grant(x, s), \A o \in Orgs \ {x} : owner'[o] = owner[o]
      PROVE  Granted'
  <2>1. apart' = apart \cup {x} /\ granted' = granted \cup {[org |-> x, sales |-> s]}
    BY <1>6 DEF Grant
  <2>2. ASSUME NEW o \in apart, o # x PROVE [org |-> o, sales |-> owner'[o]] \in granted'
    BY <1>1, <1>6, <2>1, <2>2 DEF Granted
  <2>3. QED
    BY <1>6, <2>1, <2>2 DEF Granted
<1>7. CASE CreateOrg
  BY <1>1, <1>6, <1>7, CreateTables
<1>8. CASE UpdateOrg
  BY <1>1, <1>6, <1>8, UpdateTables
<1>9. CASE Pages \/ Untouched \/ \E w \in Worker : Wrote(job[w])
  BY <1>2, <1>9 DEF Pages, FirstPage, NextPage, LeaveList, Untouched, Wrote, grants
<1>10. QED
  BY <1>1, <1>3, <1>4, <1>5, <1>7, <1>8, <1>9, Effects

LEMMA SitedStep ==
  ASSUME CrmAssumption, Types, HistoryInv, [Next]_vars
  PROVE  Sited' /\ nextOrg' \in Nat /\ nextOrg <= nextOrg'
<1>1. Tables /\ Writings /\ Requests /\ Sited
  BY DEF Types, HistoryInv
<1>2. nextOrg \in Nat /\ nextOrg' \in Nat /\ nextOrg <= nextOrg'
  <2>1. nextOrg' = nextOrg \/ nextOrg' = nextOrg + 1
    BY <1>1, Effects DEF Joins, NewOrg, Reassigned, Wrote, Pages, FirstPage, NextPage, LeaveList,
       CreateOrg, UpdateOrg, Deletes, Gone, Untouched
  <2>2. QED
    BY <1>1, <2>1, OrgsInRange
<1>3. ASSUME NEW v \in Worker, pos'[v] \in {"lock", "close", "commit", "write"}
      PROVE  job'[v].org \in Nat /\ job'[v].org < nextOrg
  <2>1. CASE pos'[v] = pos[v] /\ job'[v] = job[v]
    BY <1>1, <1>3, <2>1 DEF Sited
  <2>2. CASE pos[v] = "lock" /\ job'[v] = job[v]
    BY <1>1, <2>2 DEF Sited
  <2>3. CASE pos[v] = "close" /\ job'[v].org = job[v].org
    BY <1>1, <2>3 DEF Sited
  <2>4. CASE job'[v].org \in Orgs
    BY <1>1, <2>4, OrgsInRange
  <2>5. CASE \E u \in User, o \in Orgs, k \in {"note", "recharge"} :
               job'[v] = [kind |-> k, org |-> o, author |-> u]
    <3>1. job'[v].org \in Orgs
      BY <2>5
    <3>2. QED
      BY <2>4, <3>1
  <2>6. \/ pos'[v] = pos[v] /\ job'[v] = job[v]
        \/ job'[v].org \in Orgs
        \/ pos[v] = "lock" /\ job'[v] = job[v]
        \/ pos[v] = "close" /\ job'[v].org = job[v].org
        \/ \E u \in User, o \in Orgs, k \in {"note", "recharge"} :
             job'[v] = [kind |-> k, org |-> o, author |-> u]
    BY <1>1, <1>3, Moves
  <2>7. QED
    BY <2>1, <2>2, <2>3, <2>4, <2>5, <2>6
<1>4. ASSUME NEW v \in Worker, pos'[v] \in {"lock", "close", "commit", "write"}
      PROVE  job'[v].org \in Nat /\ job'[v].org < nextOrg'
  <2>1. job'[v].org \in Nat /\ job'[v].org < nextOrg
    BY <1>3, <1>4
  <2>2. QED
    BY <1>2, <2>1
<1>5. QED
  BY <1>2, <1>4 DEF Sited

LEMMA ClosingStep ==
  ASSUME CrmAssumption, Types, HistoryInv, [Next]_vars
  PROVE  ClosingAll'
<1>1. Tables /\ Writings /\ Requests /\ Locks /\ ClosingAll /\ Sited
  BY DEF Types, HistoryInv
<1>2. ASSUME NEW v \in Worker, pos'[v] = "commit" PROVE job'[v].closing = ActiveIn(assigned', job'[v].org)
  <2>1. CASE /\ Untouched /\ job'[v].org = job[v].org /\ job'[v].closing = ActiveIds(job[v].org)
    BY <2>1 DEF Untouched, ActiveIds
  <2>2. CASE pos[v] = "commit" /\ job'[v] = job[v]
    <3> DEFINE o == job[v].org
    <3>1. job[v].closing = ActiveIn(assigned, o) /\ o \in OrgId /\ o # nextOrg /\ lock[o] = v
      <4>1. job[v].closing = ActiveIn(assigned, o)
        BY <1>1, <2>2 DEF ClosingAll, ActiveIds
      <4>2. o \in OrgId
        BY <1>1, <2>2, JobKinds DEF Requests, Kinds
      <4>3. o \in Nat /\ o < nextOrg /\ nextOrg \in Nat
        BY <1>1, <2>2, OrgsInRange DEF Sited
      <4>4. o # nextOrg
        BY <4>3
      <4>5. lock[o] = v
        BY <1>1, <2>2, <4>2 DEF Locks
      <4>6. QED
        BY <4>1, <4>2, <4>4, <4>5
    <3> HIDE DEF o
    <3>2. RowsIn(assigned', o) = RowsIn(assigned, o)
      <4>1. ASSUME NEW p, NEW s, Joins(p, s) PROVE RowsIn(assigned', o) = RowsIn(assigned, o)
        BY <1>1, <3>1, <4>1, JoinedRows
      <4>2. ASSUME NEW w \in Worker, pos[w] = "commit", pos'[w] = "idle", Reassigned(job[w])
            PROVE  RowsIn(assigned', o) = RowsIn(assigned, o)
        <5>1. w # v
          BY <1>2, <4>2
        <5>2. job[w].org \in OrgId /\ job[w].closing = ActiveIds(job[w].org)
          BY <1>1, <4>2, JobKinds DEF Requests, Kinds, ClosingAll
        <5>3. lock[job[w].org] = w
          BY <1>1, <4>2, <5>2 DEF Locks
        <5>4. o # job[w].org
          BY <3>1, <5>1, <5>3
        <5>5. QED
          BY <1>1, <4>2, <5>2, <5>4, OtherRows
      <4>3. CASE Deletes
        <5>1. PICK x \in OrgId : lock[x] = None /\ assigned' = {r \in assigned : r.org # x}
          BY <1>1, <4>3, DeleteTables
        <5>2. o # x
          BY <3>1, <5>1, Numbers
        <5>3. QED
          BY <5>1, <5>2, DeletedRows
      <4>4. CASE UNCHANGED assigned
        BY <4>4
      <4>5. QED
        BY <1>1, <4>1, <4>2, <4>3, <4>4, Effects
        DEF Wrote, Pages, FirstPage, NextPage, LeaveList, CreateOrg, UpdateOrg, Untouched
    <3>3. ActiveIn(assigned', o) = ActiveIn(assigned, o)
      BY <3>2, SameRows
    <3>4. QED
      BY <2>2, <3>1, <3>3 DEF o
  <2>3. QED
    BY <1>1, <1>2, <2>1, <2>2, Moves
<1>3. QED
  BY <1>2 DEF ClosingAll, ActiveIds

LEMMA HistoryStep ==
  ASSUME CrmAssumption, Types, HistoryInv, [Next]_vars
  PROVE  HistoryInv'
BY HistoriesStep, GrantedStep, SitedStep, ClosingStep DEF HistoryInv

LEMMA TypesStep ==
  ASSUME CrmAssumption, Types, PageInv, [Next]_vars
  PROVE  Types' /\ PageInv'
BY RequestsStep, TablesStep, GivenStep, PagingStep DEF Types

----------------------------------------------------------------------------
(* The start                                                               *)

LEMMA InitTypes ==
  ASSUME CrmAssumption, Init
  PROVE  Types /\ PageInv /\ HistoryInv /\ Orgs = {}
<1>1. Orgs = {} /\ owner = [o \in Orgs |-> owner[o]]
  BY DEF Init, Orgs
<1>2. nextOrg \in 1..(MaxOrgs + 1) /\ nextRow \in 1..(MaxRows + 1)
  BY Numbers DEF Init
<1>3. Tables
  BY <1>1, <1>2 DEF Init, Tables
<1>4. Writings
  BY FS_EmptySet DEF Init, Writings
<1>5. Requests
  BY DEF Init, Requests, Positions
<1>6. Locks
  <2>1. \A o \in OrgId, w \in Worker : lock[o] = None /\ w # None /\ pos[w] = "idle"
    BY Numbers DEF Init
  <2>2. lock \in [OrgId -> Worker \cup {None}]
    BY DEF Init
  <2>3. QED
    BY <2>1, <2>2 DEF Locks
<1>7. Paging /\ PageInv
  BY DEF Init, Paging, PageInv
<1>8. Histories /\ Granted /\ Given
  BY <1>1 DEF Init, Histories, Granted, Given
<1>9. Sited /\ ClosingAll
  BY DEF Init, Sited, ClosingAll
<1>10. QED
  BY <1>1, <1>3, <1>4, <1>5, <1>6, <1>7, <1>8, <1>9 DEF Types, HistoryInv

----------------------------------------------------------------------------
(* Attribution                                                             *)

\* The author may write, and reads everything or was once the owner.
Backed(table, grant, u, o) ==
  /\ "crm.write" \in Perms(u)
  /\ \/ "crm.read.all" \in Perms(u)
     \/ \E r \in table : r.org = o /\ r.sales = u
     \/ [org |-> o, sales |-> u] \in grant
WrittenBacked == \A m \in written : Backed(assigned, granted, m.author, m.org)
WritesBacked ==
  \A w \in Worker : pos[w] = "write" /\ job[w].org \in Orgs => Backed(assigned, granted, job[w].author, job[w].org)

AttributionInv == WrittenBacked /\ WritesBacked

\* The one who owns a customer has an assignment of it, or was made its owner.
LEMMA OwnersAssigned ==
  ASSUME CrmAssumption, Histories, Granted, NEW u \in User, NEW o \in Orgs, owner[o] = u
  PROVE  (\E r \in assigned : r.org = o /\ r.sales = u) \/ [org |-> o, sales |-> u] \in granted
<1>1. CASE o \in apart
  BY <1>1 DEF Granted
<1>2. CASE o \notin apart
  <2> DEFINE rows == RowsIn(assigned, o)
  <2>1. \A r : r \in rows <=> r \in assigned /\ r.org = o
    BY DEF RowsIn
  <2>2. History(rows) /\ Ends(rows, owner[o])
    BY <1>2 DEF Histories
  <2> HIDE DEF rows
  <2>3. u # None
    BY Numbers
  <2>4. rows # {} /\ owner[o] = (CHOOSE r \in rows : r.active).sales
    BY <2>2, <2>3 DEF Ends
  <2>5. \E r \in rows : r.active
    BY <2>2, <2>4 DEF History
  <2>6. (CHOOSE r \in rows : r.active) \in rows
    BY <2>5
  <2>7. QED
    BY <2>1, <2>4, <2>6
<1>3. QED
  BY <1>1, <1>2

\* What backs an author stays while the customer does.
LEMMA BackingStays ==
  ASSUME CrmAssumption, Types, [Next]_vars, NEW u, NEW o \in Orgs', Backed(assigned, granted, u, o)
  PROVE  Backed(assigned', granted', u, o)
<1>1. Tables /\ Writings /\ Requests
  BY DEF Types
<1>2. ASSUME NEW r \in assigned, r.org = o, r.sales = u
      PROVE  \E t \in assigned' : t.org = o /\ t.sales = u
  <2>1. ASSUME NEW p, NEW s, Joins(p, s) PROVE r \in assigned'
    BY <2>1 DEF Joins, FirstAssignment
  <2>2. ASSUME NEW j, Reassigned(j) PROVE \E t \in assigned' : t.org = o /\ t.sales = u
    BY <1>1, <1>2, <2>2, ReassignedTables
  <2>3. CASE Deletes
    <3>1. PICK x \in OrgId : Orgs' = Orgs \ {x} /\ assigned' = {q \in assigned : q.org # x}
      BY <1>1, <2>3, DeleteTables
    <3>2. r \in assigned'
      BY <1>2, <3>1
    <3>3. QED
      BY <1>2, <3>2
  <2>4. CASE UNCHANGED assigned
    BY <1>2, <2>4
  <2>5. QED
    BY <1>1, <1>2, <2>1, <2>2, <2>3, <2>4, Effects
    DEF Wrote, Pages, FirstPage, NextPage, LeaveList, CreateOrg, UpdateOrg, Untouched
<1>3. ASSUME NEW g \in granted, g.org = o PROVE g \in granted'
  <2>1. CASE Deletes
    BY <1>1, <1>3, <2>1, DeleteTables
  <2>2. CASE granted \subseteq granted'
    BY <1>3, <2>2
  <2>3. QED
    BY <1>1, <2>1, <2>2, Effects
    DEF Joins, Reassigned, Wrote, Pages, FirstPage, NextPage, LeaveList, CreateOrg, UpdateOrg, Grant, Untouched, grants
<1>4. QED
  <2>1. [org |-> o, sales |-> u].org = o
    OBVIOUS
  <2>2. QED
    BY <1>2, <1>3, <2>1 DEF Backed

LEMMA WrittenStep ==
  ASSUME CrmAssumption, Types, AttributionInv, [Next]_vars
  PROVE  WrittenBacked'
<1>1. Tables /\ Writings /\ Requests /\ WrittenBacked /\ WritesBacked
  BY DEF Types, AttributionInv
<1>2. Tables' /\ Writings'
  BY TablesStep
<1>3. ASSUME NEW m \in written' PROVE m \in written \/ Backed(assigned, granted, m.author, m.org)
  <2>1. ASSUME NEW w \in Worker, pos[w] = "write", Wrote(job[w]), m \notin written
        PROVE  Backed(assigned, granted, m.author, m.org)
    <3>1. m.org = job[w].org /\ m.author = job[w].author /\ job[w].org \in Orgs
      BY <1>3, <2>1 DEF Wrote
    <3>2. Backed(assigned, granted, job[w].author, job[w].org)
      BY <1>1, <2>1, <3>1 DEF WritesBacked
    <3>3. QED
      BY <3>1, <3>2
  <2>2. CASE Deletes
    BY <1>1, <1>3, <2>2, DeleteTables
  <2>3. CASE UNCHANGED written
    BY <1>3, <2>3
  <2>4. QED
    BY <1>1, <2>1, <2>2, <2>3, Effects
    DEF Joins, Reassigned, Pages, FirstPage, NextPage, LeaveList, CreateOrg, UpdateOrg, Untouched
<1>4. ASSUME NEW m \in written' PROVE Backed(assigned', granted', m.author, m.org)
  <2>1. Backed(assigned, granted, m.author, m.org)
    BY <1>1, <1>3, <1>4 DEF WrittenBacked
  <2>2. m.org \in Orgs'
    BY <1>2, <1>4 DEF Writings
  <2>3. QED
    BY <2>1, <2>2, BackingStays
<1>5. QED
  BY <1>4 DEF WrittenBacked

LEMMA WritesStep ==
  ASSUME CrmAssumption, Types, HistoryInv, AttributionInv, [Next]_vars
  PROVE  WritesBacked'
<1>1. Tables /\ Writings /\ Requests /\ Sited /\ Histories /\ Granted /\ WritesBacked
  BY DEF Types, HistoryInv, AttributionInv
<1>2. ASSUME NEW v \in Worker, pos'[v] = "write", job'[v].org \in Orgs'
      PROVE  Backed(assigned', granted', job'[v].author, job'[v].org)
  <2>1. CASE pos'[v] = pos[v] /\ job'[v] = job[v]
    <3>1. job[v].org \in Nat /\ job[v].org < nextOrg /\ nextOrg \in Nat
      BY <1>1, <1>2, <2>1, OrgsInRange DEF Sited
    <3>2. Orgs' \subseteq Orgs \cup {nextOrg}
      <4>1. CASE Pages \/ Untouched \/ \E w \in Worker : Wrote(job[w])
        BY <4>1 DEF Wrote, Pages, FirstPage, NextPage, LeaveList, Untouched, Orgs
      <4>2. QED
        BY <1>1, <4>1, Effects, JoinsTables, ReassignedTables, CreateTables, UpdateTables, DeleteTables
    <3>3. job[v].org \in Orgs
      BY <1>2, <2>1, <3>1, <3>2
    <3>4. Backed(assigned, granted, job[v].author, job[v].org)
      BY <1>1, <1>2, <2>1, <3>3 DEF WritesBacked
    <3>5. QED
      BY <1>2, <2>1, <3>4, BackingStays
  <2>2. CASE Untouched /\ \E u \in User, o \in Orgs, k \in {"note", "recharge"} :
                            /\ job'[v] = [kind |-> k, org |-> o, author |-> u]
                            /\ Passes(Perms(u), "crm.write") /\ Reachable(u, o)
    <3>1. PICK u \in User, o \in Orgs, k \in {"note", "recharge"} :
            /\ job'[v] = [kind |-> k, org |-> o, author |-> u]
            /\ Passes(Perms(u), "crm.write") /\ Reachable(u, o)
      BY <2>2
    <3>2. job'[v].author = u /\ job'[v].org = o /\ assigned' = assigned /\ granted' = granted
      BY <2>2, <3>1 DEF Untouched
    <3>3. "crm.write" \in Perms(u) /\ ("crm.read.all" \in Perms(u) \/ owner[o] = u)
      BY <3>1 DEF Passes, enforce, Reachable, Restricted, Unrestricted
    <3>4. owner[o] = u => (\E r \in assigned : r.org = o /\ r.sales = u) \/ [org |-> o, sales |-> u] \in granted
      BY <1>1, OwnersAssigned
    <3>5. QED
      BY <3>2, <3>3, <3>4 DEF Backed
  <2>3. QED
    BY <1>1, <1>2, <2>1, <2>2, Moves
<1>3. QED
  BY <1>2 DEF WritesBacked

----------------------------------------------------------------------------
(* Whole customers                                                         *)

LEMMA WholeStep ==
  ASSUME CrmAssumption, Types, WholeCustomers, [Next]_vars
  PROVE  WholeCustomers'
<1>1. Tables /\ Writings /\ Given /\ Requests
  BY DEF Types
<1>2. ASSUME NEW p, NEW s, Joins(p, s) PROVE WholeCustomers'
  <2>1. Orgs' = Orgs \cup {nextOrg} /\ nextOrg \notin Orgs /\ nextOrg # None /\ None \notin Orgs
    <3>1. nextOrg \in OrgId
      BY <1>1, <1>2, OrgsInRange, Numbers DEF Joins, OrgId, Tables
    <3>2. QED
      BY <1>1, <1>2, <3>1, JoinsTables, OrgsInRange, Numbers
  <2>2. /\ p \in Phone /\ account[p] = None
        /\ account' = [account EXCEPT ![p] = nextOrg] /\ account \in [Phone -> Orgs \cup {None}]
        /\ founded' = founded
    BY <1>1, <1>2 DEF Joins, NewOrg, Tables
  <2>3. account'[p] = nextOrg /\ \A q \in Phone : q # p => account'[q] = account[q]
    BY <2>2
  <2>4. \A o \in Orgs' \ founded' : \E q \in Phone : account'[q] = o
    BY <2>1, <2>2, <2>3 DEF WholeCustomers
  <2>5. \A q, r \in Phone : q # r /\ account'[q] # None => account'[q] # account'[r]
    BY <2>1, <2>2, <2>3 DEF WholeCustomers
  <2>6. QED
    BY <2>4, <2>5 DEF WholeCustomers, Orgs
<1>3. CASE Deletes
  <2>1. PICK x \in OrgId :
          /\ Orgs' = Orgs \ {x} /\ founded' = founded \ {x}
          /\ account' = [p \in Phone |-> IF account[p] = x THEN None ELSE account[p]]
    BY <1>1, <1>3, DeleteTables
  <2>2. \A o \in Orgs' \ founded' : \E q \in Phone : account'[q] = o
    BY <2>1 DEF WholeCustomers
  <2>3. \A q, r \in Phone : q # r /\ account'[q] # None => account'[q] # account'[r]
    BY <2>1 DEF WholeCustomers
  <2>4. QED
    BY <2>2, <2>3 DEF WholeCustomers, Orgs
<1>4. ASSUME Orgs' \ founded' = Orgs \ founded, UNCHANGED account PROVE WholeCustomers'
  BY <1>4 DEF WholeCustomers, Orgs
<1>5. CASE \E w \in Worker : Reassigned(job[w])
  BY <1>1, <1>4, <1>5, ReassignedTables DEF Reassigned
<1>6. CASE UpdateOrg
  BY <1>1, <1>4, <1>6, UpdateTables DEF UpdateOrg
<1>9. CASE CreateOrg
  BY <1>1, <1>4, <1>9, CreateTables DEF CreateOrg
<1>7. CASE Pages \/ Untouched \/ \E w \in Worker : Wrote(job[w])
  BY <1>4, <1>7 DEF Wrote, Pages, FirstPage, NextPage, LeaveList, Untouched, Orgs, grants
<1>8. QED
  BY <1>1, <1>2, <1>3, <1>5, <1>6, <1>7, <1>9, Effects

----------------------------------------------------------------------------
(* Theorems                                                                *)

LEMMA TypesGiveTypeOK ==
  ASSUME CrmAssumption, Types
  PROVE  TypeOK
<1>1. \A w \in Worker : (job[w] = None) = (pos[w] = "idle")
  BY Numbers DEF Types, Requests
<1>2. ASSUME NEW o \in OrgId, lock[o] # None
      PROVE  pos[lock[o]] \in {"close", "commit"} /\ job[lock[o]].org = o
  BY <1>2 DEF Types, Locks
<1>3. QED
  BY <1>1, <1>2 DEF Types, Tables, Writings, Given, Requests, Locks, Paging, Positions, TypeOK

LEMMA CustomersInductive ==
  ASSUME CrmAssumption
  PROVE  Spec => [](Types /\ PageInv /\ WholeCustomers)
<1>1. Init => Types /\ PageInv /\ WholeCustomers
  <2>1. Init => WholeCustomers
    BY InitTypes DEF Init, WholeCustomers
  <2>2. QED
    BY <2>1, InitTypes
<1>2. Types /\ PageInv /\ WholeCustomers /\ [Next]_vars => (Types /\ PageInv /\ WholeCustomers)'
  BY TypesStep, WholeStep
<1>3. QED
  BY <1>1, <1>2, PTL DEF Spec

\* The history, and what is attributed by it, are inductive as well.
LEMMA HistoryInductive ==
  ASSUME CrmAssumption
  PROVE  Spec => [](HistoryInv /\ AttributionInv)
<1>1. Init => HistoryInv /\ AttributionInv
  <2>1. Init => AttributionInv
    BY DEF Init, AttributionInv, WrittenBacked, WritesBacked
  <2>2. QED
    BY <2>1, InitTypes
<1>2. Types /\ HistoryInv /\ AttributionInv /\ [Next]_vars => (HistoryInv /\ AttributionInv)'
  BY HistoryStep, WrittenStep, WritesStep DEF AttributionInv
<1>3. Spec => []Types
  BY CustomersInductive, PTL
<1>4. QED
  BY <1>1, <1>2, <1>3, PTL DEF Spec

\* Every operation of crates/crm and of organization.rs keeps the types: rows
\* refer to organisations that exist, assignment ids are unique, and a row lock
\* is held by a reassignment of that very organisation.
THEOREM CustomersTyped ==
  ASSUME CrmAssumption
  PROVE  Spec => []TypeOK
<1>1. Types => TypeOK
  BY TypesGiveTypeOK
<1>2. QED
  BY <1>1, CustomersInductive, PTL

\* Onboarding (onboard.rs), registration and deletion, with any number of
\* requests at once, leave every organisation an account of its own, but for
\* those that POST /organizations created (organization.rs:66-90).
THEOREM CustomersAlwaysWhole ==
  ASSUME CrmAssumption
  PROVE  Spec => []WholeCustomers
BY CustomersInductive, PTL

\* The customer list read to its end (list_customers, by a cursor) has shown
\* every customer that was the reader's all the while, whoever comes and goes.
THEOREM ListsAlwaysComplete ==
  ASSUME CrmAssumption
  PROVE  Spec => []PagesComplete
<1>1. PageInv => PagesComplete
  BY DEF PageInv, PagesComplete
<1>2. QED
  BY <1>1, CustomersInductive, PTL

\* Concurrent reassignments (assignment.rs) leave one active row, the newest,
\* that names the owner unless organization.rs (create, update) wrote it since.
THEOREM OwnershipIsHistory ==
  ASSUME CrmAssumption
  PROVE  Spec => []HistoryIsOwnership
<1>1. HistoryInv => HistoryIsOwnership
  BY DEF HistoryInv, Histories, History, Ends, HistoryIsOwnership, RowsOf, RowsIn
<1>2. QED
  BY <1>1, HistoryInductive, PTL

\* Notes and recharges (load_scoped_org, then the insert) are by authors who
\* were owners of the customer, by its history or by organization.rs's word,
\* or read everything, though its owner changes between the two steps.
THEOREM AttributionAlwaysBacked ==
  ASSUME CrmAssumption
  PROVE  Spec => []AttributionBacked
<1>1. AttributionInv => AttributionBacked
  BY DEF AttributionInv, WrittenBacked, Backed, AttributionBacked, RowsOf
<1>2. QED
  BY <1>1, HistoryInductive, PTL
=============================================================================
