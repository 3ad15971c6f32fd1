-------------------------------- MODULE Rbac --------------------------------
(***************************************************************************)
(* Roles, permission points and the three guards of the management         *)
(* endpoints (crates/rbac/src/lib.rs, crates/identity/src/guard.rs).       *)
(* The catalogue is part of the program: the code's constants are the      *)
(* source, the tables a cache that Seeding fills.                          *)
(***************************************************************************)
EXTENDS Naturals, FiniteSets

Permissions ==
  {"gateway.manage", "pricing.manage", "identity.manage", "billing.manage",
   "billing.read", "rbac.manage", "crm.read", "crm.read.all", "crm.write",
   "crm.assign", "report.read", "report.define", "report.dataset.finance",
   "report.dataset.crm", "report.dataset.ops", "report.export"}

Roles == {"admin", "finance", "ops", "sales", "customer"}

permissions_for_role ==
  [r \in Roles |->
    CASE r = "admin" -> Permissions
      [] r = "finance" ->
           {"billing.manage", "billing.read", "pricing.manage", "crm.read",
            "crm.read.all", "report.read", "report.define",
            "report.dataset.finance", "report.dataset.crm", "report.export"}
      [] r = "ops" ->
           {"gateway.manage", "report.read", "report.dataset.ops", "report.export"}
      [] r = "sales" ->
           {"identity.manage", "crm.read", "crm.write", "report.read",
            "report.define", "report.dataset.crm", "report.export"}
      [] r = "customer" -> {"report.read", "report.export"}]

role_rank ==
  [r \in Roles |-> CASE r = "admin" -> 5 [] r = "finance" -> 4 [] r = "ops" -> 3
                     [] r = "sales" -> 2 [] r = "customer" -> 1]

user_permissions(roles) == UNION {permissions_for_role[r] : r \in roles}

enforce(perms, required) == required \in perms

\* A user without a role is treated as a customer when a report is asked for.
effective_role(roles) ==
  IF roles = {} THEN "customer"
  ELSE CHOOSE r \in roles : \A s \in roles : role_rank[r] >= role_rank[s]

\* require_scoped: nobody passes without the base permission; the wider one
\* only lifts the restriction to one's own customers.
Passes(perms, base) == enforce(perms, base)
Unrestricted(perms, all) == enforce(perms, all)

Superadmin == [role |-> "admin", perms |-> Permissions, person |-> FALSE]
=============================================================================
