------------------------------- MODULE Reports -------------------------------
(***************************************************************************)
(* Reports (crates/report): queries over the built-in datasets, whose rows *)
(* are restricted by the caller's role, and saved definitions; with the    *)
(* granting and revoking of roles (identity/role_admin.rs, rbac).          *)
(*                                                                         *)
(* A request reads its principal in two statements, permissions and then   *)
(* role (identity/guard.rs), and roles may change between them.            *)
(***************************************************************************)
EXTENDS Rbac

CONSTANTS
  User, Org, OrgOf, None,
  Handler,
  StartRoles,   \* role sets that users begin with
  MaxEdits,     \* bound: grants and revocations
  MaxDefs       \* bound: definitions ever saved

VARIABLES
  roles,     \* user_roles
  edits,
  defs,      \* report_definitions: id -> [dataset, owner, visibility]
  nextDef,
  pos, job,  \* a request: position, and what it asks for and has read
  held,      \* history of a request: the role sets its user had while it read them
  answer     \* what a request was last answered

vars == <<roles, edits, defs, nextDef, pos, job, held, answer>>

-----------------------------------------------------------------------------
(* Datasets and what a query of one yields.                                *)

OwnOrg == [column |-> "org_id", param |-> "current_org"]
OwnSales == [column |-> "created_by_sales_id", param |-> "current_user"]

\* rls: the restriction of each role that has a branch, None for all rows.
datasets ==
  [usage |-> [source |-> "usage", permission |-> "report.read",
     rls |-> [customer |-> OwnOrg, finance |-> None, ops |-> None, admin |-> None]],
   billing |-> [source |-> "orders", permission |-> "report.read",
     rls |-> [customer |-> OwnOrg, finance |-> None, admin |-> None]],
   sales_perf |-> [source |-> "orders", permission |-> "report.dataset.crm",
     rls |-> [sales |-> OwnSales, finance |-> None, admin |-> None]],
   channel_health |-> [source |-> "usage", permission |-> "report.dataset.ops",
     rls |-> [ops |-> None, admin |-> None]]]
Dataset == DOMAIN datasets

ReportsAssumption ==
  /\ OrgOf \in [User -> Org]
  /\ None \notin User \cup Org \cup Roles /\ None \notin {OwnOrg, OwnSales}
  /\ StartRoles \subseteq SUBSET Roles
  /\ {MaxEdits, MaxDefs} \subseteq Nat

\* A row of the source's table, as far as restrictions tell rows apart.
Facts(source) ==
  IF source = "usage" THEN [org_id : Org]
  ELSE [org_id : Org, created_by_sales_id : User \cup {None}]

PrincipalOf(u, perms, role) == [user |-> u, org |-> OrgOf[u], perms |-> perms, role |-> role]
SuperPrincipal == [user |-> None, org |-> None, perms |-> Superadmin.perms, role |-> Superadmin.role]

Value(p, param) == IF param = "current_org" THEN p.org ELSE p.user

\* Slip: a role without a branch sees every row.
OpenBranch(d, p) == TRUE

HasBranch(d, p) == p.role \in DOMAIN datasets[d].rls
InScope(d, p, f) ==
  LET rule == datasets[d].rls IN
  p.role \in DOMAIN rule => (rule[p.role] # None => f[rule[p.role].column] = Value(p, rule[p.role].param))

Answers(d, p) == enforce(p.perms, datasets[d].permission) /\ HasBranch(d, p)
run(d, p) == IF Answers(d, p) THEN {f \in Facts(datasets[d].source) : InScope(d, p, f)} ELSE {}

ListedDatasets(p) ==
  IF enforce(p.perms, "report.read")
  THEN {d \in Dataset : enforce(p.perms, datasets[d].permission)} ELSE {}

-----------------------------------------------------------------------------
(* Saved definitions.                                                      *)

dataset_perm_ok(p, r) == enforce(p.perms, datasets[r.dataset].permission)
Owns(p, r) == r.owner # None /\ r.owner = p.user

Opens(p, r) ==
  /\ dataset_perm_ok(p, r)
  /\ r.visibility # "private" \/ p.role = "admin" \/ Owns(p, r)

\* The condition that list sends to the database.
Accessible(p) == {d \in Dataset : enforce(p.perms, datasets[d].permission)}
ListCondition(p, r) ==
  /\ r.dataset \in Accessible(p)
  /\ p.role # "admin" =>
       \/ r.visibility # "private"
       \/ p.user # None /\ r.owner = p.user
list(p) == IF enforce(p.perms, "report.read")
           THEN {i \in DOMAIN defs : ListCondition(p, defs[i])} ELSE {}

-----------------------------------------------------------------------------
Visibility == {"private", "role", "org"}
Asks == [kind : {"datasets", "reports"}]
        \cup [kind : {"query"}, dataset : Dataset]
        \cup [kind : {"create"}, dataset : Dataset, visibility : Visibility]
        \cup [kind : {"open", "delete"}, id : 1..MaxDefs]

TypeOK ==
  /\ roles \in [User -> SUBSET Roles] /\ edits \in 0..MaxEdits
  /\ DOMAIN defs \subseteq 1..(nextDef - 1) /\ nextDef \in 1..(MaxDefs + 1)
  /\ \A i \in DOMAIN defs :
       /\ defs[i].dataset \in Dataset /\ defs[i].visibility \in Visibility
       /\ defs[i].owner \in User \cup {None}
  /\ pos \in [Handler -> {"idle", "role", "act", "done"}]
  /\ \A h \in Handler : pos[h] \in {"role", "act"} =>
       /\ job[h].ask \in Asks /\ job[h].p.role \in Roles \cup {None}
       /\ pos[h] = "act" => job[h].p.role # None
  /\ \A h \in Handler : held[h] \subseteq SUBSET Roles

Init ==
  /\ roles \in [User -> StartRoles] /\ edits = 0
  /\ defs = <<>> /\ nextDef = 1
  /\ pos = [h \in Handler |-> "idle"] /\ job = [h \in Handler |-> None]
  /\ held = [h \in Handler |-> {}] /\ answer = [h \in Handler |-> None]

\* grant_role and revoke_role, for requests of an administrator of roles.
ChangeRoles ==
  /\ edits < MaxEdits /\ edits' = edits + 1
  /\ \E u \in User, r \in Roles :
       /\ roles' = [roles EXCEPT ![u] = IF r \in @ THEN @ \ {r} ELSE @ \cup {r}]
       /\ held' = [h \in Handler |->
            IF pos[h] = "role" /\ job[h].p.user = u THEN held[h] \cup {roles'[u]} ELSE held[h]]
  /\ UNCHANGED <<defs, nextDef, pos, job, answer>>

Goto(h, s, j) == pos' = [pos EXCEPT ![h] = s] /\ job' = [job EXCEPT ![h] = j]

\* resolve_principal: permissions first, then the role.
ReadPermissions(h) ==
  /\ pos[h] = "idle"
  /\ \E u \in User, a \in Asks :
       /\ Goto(h, "role", [ask |-> a, p |-> PrincipalOf(u, user_permissions(roles[u]), None)])
       /\ held' = [held EXCEPT ![h] = {roles[u]}]
  /\ UNCHANGED <<roles, edits, defs, nextDef, answer>>

ReadRole(h) ==
  /\ pos[h] = "role"
  /\ Goto(h, "act", [job[h] EXCEPT !.p.role = effective_role(roles[job[h].p.user])])
  /\ UNCHANGED <<roles, edits, defs, nextDef, held, answer>>

AdminToken(h) ==
  /\ pos[h] = "idle"
  /\ \E a \in Asks : Goto(h, "act", [ask |-> a, p |-> SuperPrincipal])
  /\ held' = [held EXCEPT ![h] = {{"admin"}}]
  /\ UNCHANGED <<roles, edits, defs, nextDef, answer>>

Asked(h, kind) == pos[h] = "act" /\ job[h].ask.kind = kind
Reply(h, rows) == /\ pos' = [pos EXCEPT ![h] = "done"]
                  /\ answer' = [answer EXCEPT ![h] = rows]
                  /\ UNCHANGED <<roles, edits, job, held>>

Query(h) == /\ Asked(h, "query") /\ Reply(h, run(job[h].ask.dataset, job[h].p))
            /\ UNCHANGED <<defs, nextDef>>
Datasets(h) == /\ Asked(h, "datasets") /\ Reply(h, ListedDatasets(job[h].p))
               /\ UNCHANGED <<defs, nextDef>>
ListReports(h) == /\ Asked(h, "reports") /\ Reply(h, list(job[h].p))
                  /\ UNCHANGED <<defs, nextDef>>
OpenReport(h) ==
  LET i == job[h].ask.id IN
  /\ Asked(h, "open")
  /\ Reply(h, {j \in {i} \cap DOMAIN defs : Opens(job[h].p, defs[j])})
  /\ UNCHANGED <<defs, nextDef>>

Create(h) ==
  LET a == job[h].ask  p == job[h].p IN
  /\ Asked(h, "create") /\ Reply(h, {})
  /\ IF /\ enforce(p.perms, "report.define")
        /\ enforce(p.perms, datasets[a.dataset].permission)
        /\ nextDef <= MaxDefs
     THEN /\ defs' = [i \in DOMAIN defs \cup {nextDef} |->
                        IF i = nextDef
                        THEN [dataset |-> a.dataset, owner |-> p.user, visibility |-> a.visibility]
                        ELSE defs[i]]
          /\ nextDef' = nextDef + 1
     ELSE UNCHANGED <<defs, nextDef>>

Deletes(p, r) == Owns(p, r) \/ p.role = "admin"
\* Found and deleted by id; nothing is lost when another deleted it between.
DeleteReport(h) ==
  LET i == job[h].ask.id  p == job[h].p IN
  /\ Asked(h, "delete") /\ Reply(h, {})
  /\ IF enforce(p.perms, "report.define") /\ i \in DOMAIN defs /\ (i \in DOMAIN defs => Deletes(p, defs[i]))
     THEN defs' = [j \in DOMAIN defs \ {i} |-> defs[j]]
     ELSE UNCHANGED defs
  /\ UNCHANGED nextDef

Finish(h) ==
  /\ pos[h] = "done" /\ Goto(h, "idle", None)
  /\ held' = [held EXCEPT ![h] = {}] /\ answer' = [answer EXCEPT ![h] = None]
  /\ UNCHANGED <<roles, edits, defs, nextDef>>

Next ==
  \/ ChangeRoles
  \/ \E h \in Handler :
       \/ ReadPermissions(h) \/ ReadRole(h) \/ AdminToken(h) \/ Query(h) \/ Datasets(h)
       \/ ListReports(h) \/ OpenReport(h) \/ Create(h) \/ DeleteReport(h) \/ Finish(h)

Spec == Init /\ [][Next]_vars

-----------------------------------------------------------------------------
Answered(h, kind) == pos[h] = "done" /\ job[h].ask.kind = kind

\* What a role is to see of a table: finance everything, operations the usage,
\* sales the orders they brought in, customers their organisation.
Entitled(r, u, source) ==
  {f \in Facts(source) :
     CASE r \in {"admin", "finance"} -> TRUE
       [] r = "ops" -> source = "usage"
       [] r = "sales" -> source = "orders" /\ (source = "orders" => f.created_by_sales_id = u)
       [] r = "customer" -> u # None /\ (u # None => f.org_id = OrgOf[u])}
OrCustomer(rs) == IF rs = {} THEN {"customer"} ELSE rs

\* A query shows no row beyond what the roles entitle to that its user had while
\* the request read them, though permissions and role may be read from two
\* different grants (resolve_principal, resolve_rls).
ServedIsEntitled ==
  \A h \in Handler : Answered(h, "query") =>
    answer[h] \subseteq
      UNION {Entitled(r, job[h].p.user, datasets[job[h].ask.dataset].source) :
               r \in UNION {OrCustomer(rs) : rs \in held[h]}}

Stable(u) == PrincipalOf(u, user_permissions(roles[u]), effective_role(roles[u]))
\* The list and the detail of saved reports agree, one a condition in SQL, the
\* other three checks in Rust: whoever may read reports is listed exactly the
\* definitions it can open (list and get_one of report_def.rs).
ListsWhatOpens ==
  \A p \in {Stable(u) : u \in User} \cup {SuperPrincipal} :
    enforce(p.perms, "report.read") => list(p) = {i \in DOMAIN defs : Opens(p, defs[i])}

\* A definition goes only at the hand of its owner or of an administrator: one
\* request ends with it, whose user had a role to define reports with and was
\* the owner, or had the role admin, while the request read its principal.
OnlyOwnersDelete ==
  [][\A i \in DOMAIN defs : i \notin DOMAIN defs' =>
       \E h \in Handler :
         /\ pos[h] = "act" /\ job[h].ask = [kind |-> "delete", id |-> i]
         /\ \E rs \in held[h] : rs \cap {"admin", "finance", "sales"} # {}
         /\ \/ job[h].p.user = defs[i].owner /\ defs[i].owner # None
            \/ \E rs \in held[h] : "admin" \in rs]_vars
=============================================================================
