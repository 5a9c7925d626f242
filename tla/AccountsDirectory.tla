--------------------------- MODULE AccountsDirectory ---------------------------
(* Accounts and its tenants seen as a Directory: the committed rows, without  *)
(* their schemas, and nothing of the requests.                                *)
EXTENDS Accounts

Entry(row) ==
    [slug |-> row.slug, subdomain |-> row.subdomain, plan |-> row.plan,
     limits |-> [max_users |-> row.max_users, max_storage_gb |-> row.max_storage_gb],
     active |-> row.is_active]

Post(role) == [tenant |-> role.tenant_id, name |-> role.name]

Account(row) ==
    [tenant |-> row.tenant_id, email |-> row.email,
     post |-> IF row.role = None THEN None ELSE Post(row.role), active |-> row.is_active]

entriesBar == [t \in DOMAIN tenants |-> Entry(tenants[t])]
accountsBar == [u \in DOMAIN users |-> Account(users[u])]

Registry == INSTANCE Directory WITH
                Logins <- 1..MaxLogins, Orders <- Bodies, Limits <- PLAN_LIMITS,
                SystemRoleNames <- {"admin", "viewer"},
                entries <- entriesBar, accounts <- accountsBar,
                marks <- recorded

\* Whatever transactions overlap, fail or die, and whichever tenants share a schema, the
\* committed rows behave as a directory written one entry at a time: each step of the code
\* is one entry, amendment, mark or session of it, or leaves it alone.
ImplementsDirectory == Registry!Spec
=============================================================================
