------------------------------- MODULE Tenants -------------------------------
(***************************************************************************)
(* Tenants and their plans: app/services/tenant_service.py, the endpoints  *)
(* of tenants.py, models/tenant.py and schemas/tenant.py.                  *)
(*                                                                         *)
(* Both writing endpoints are one transaction of get_db on the public      *)
(* schema.  POST /tenants/ inserts the row, then creates the tenant's      *)
(* schema with its tables and system roles; DDL is transactional in        *)
(* PostgreSQL.  PATCH /tenants/{id}/plan loads a row without locking it,   *)
(* changes attributes of the loaded object and flushes.                    *)
(*                                                                         *)
(* A slug is a sequence of characters, because the schema's name is made   *)
(* from it.  PostgreSQL cuts an identifier at NameLimit characters, while  *)
(* the column db_schema holds ColumnLimit of them.                         *)
(***************************************************************************)
EXTENDS Naturals, Sequences

CONSTANTS
    TenantIds,          \* uuids of tenants
    Requests, None,
    Characters,         \* of slugs and subdomains: [a-z0-9\-]
    Bodies,             \* bodies of POST /tenants/: slug, subdomain, plan
    Patches,            \* bodies of PATCH /tenants/{id}/plan: plan, is_active, or None
    NameLimit,          \* 63, NAMEDATALEN - 1
    ColumnLimit         \* 100, the String columns and the Fields of TenantCreate

Plans == {"free", "pro", "enterprise"}

\* Mutant: a plan that differs from the one below it in its users only.
PLAN_LIMITS_sharedStorage ==
    [free       |-> [max_users |-> 5,    max_storage_gb |-> 20],
     pro        |-> [max_users |-> 50,   max_storage_gb |-> 20],
     enterprise |-> [max_users |-> 9999, max_storage_gb |-> 500]]

PLAN_LIMITS ==
    [free       |-> [max_users |-> 5,    max_storage_gb |-> 1],
     pro        |-> [max_users |-> 50,   max_storage_gb |-> 20],
     enterprise |-> [max_users |-> 9999, max_storage_gb |-> 500]]

Prefix == <<"t", "e", "n", "a", "n", "t", "_">>

\* schema_name = "tenant_" + slug.replace("-", "_")
SchemaName(slug) ==
    Prefix \o [i \in 1..Len(slug) |-> IF slug[i] = "-" THEN "_" ELSE slug[i]]

\* The schema a quoted name denotes in PostgreSQL.
Physical(name) == IF Len(name) > NameLimit THEN SubSeq(name, 1, NameLimit) ELSE name

\* What the pattern and the lengths of TenantCreate let through.
Accepted(s) == s \in Seq(Characters) /\ Len(s) >= 2 /\ Len(s) <= ColumnLimit

ASSUME TenantsAssumption ==
    /\ None \notin TenantIds /\ None \notin Plans /\ None \notin BOOLEAN
    /\ "_" \notin Characters
    /\ NameLimit \in Nat /\ ColumnLimit \in Nat
    /\ \A b \in Bodies : Accepted(b.slug) /\ Accepted(b.subdomain) /\ b.plan \in Plans
    /\ Patches \subseteq [plan : Plans \cup {None}, is_active : BOOLEAN \cup {None}]

VARIABLES
    tenants,            \* committed rows of public.tenants, by id
    schemas,            \* the schemas PostgreSQL has, by their physical names
    roles,              \* rows of the roles tables: schema, tenant_id, name
    rq                  \* for each slot, the request running in it

vars == <<tenants, schemas, roles, rq>>

Idle == [op |-> "none", pc |-> "idle", id |-> None, patch |-> None, row |-> None,
         made |-> FALSE,        \* has this transaction created its schema?
         seeded |-> FALSE,      \* has it inserted the system roles?
         wrote |-> FALSE,       \* has it updated its row, whose lock it then holds?
         reply |-> None]

Init ==
    /\ tenants = [t \in {} |-> None]
    /\ schemas = {}
    /\ roles = {}
    /\ rq = [r \in Requests |-> Idle]

Step(r, q) == rq' = [rq EXCEPT ![r] = q]

Busy(r) == rq[r].pc \notin {"idle", "reply"}

\* The answer leaves with the transaction over: its locks are gone.
Answer(r, reply) == Step(r, [Idle EXCEPT !.pc = "reply", !.reply = reply])

Arrive(r, q) ==
    /\ rq[r].pc = "idle"
    /\ Step(r, q)
    /\ UNCHANGED <<tenants, schemas, roles>>

\* A statement of r that changes only what r knows and holds.
Statement(r, q) == Step(r, q) /\ UNCHANGED <<tenants, schemas, roles>>

Refused(r, reply) == Answer(r, reply) /\ UNCHANGED <<tenants, schemas, roles>>

-----------------------------------------------------------------------------
(* POST /tenants/                                                          *)

\* Mutant: limits that a tenant has are not taken back when its plan is lowered.
ApplyPlan_neverLowers(row, plan) ==
    IF PLAN_LIMITS[plan].max_users < row.max_users
    THEN [row EXCEPT !.plan = plan]
    ELSE [row EXCEPT !.plan = plan,
                     !.max_users = PLAN_LIMITS[plan].max_users,
                     !.max_storage_gb = PLAN_LIMITS[plan].max_storage_gb]

\* apply_plan_limits after the assignment of plan.
ApplyPlan(row, plan) ==
    [row EXCEPT !.plan = plan,
                !.max_users = PLAN_LIMITS[plan].max_users,
                !.max_storage_gb = PLAN_LIMITS[plan].max_storage_gb]

NewRow(b) ==
    [slug |-> b.slug, subdomain |-> b.subdomain, db_schema |-> SchemaName(b.slug),
     plan |-> b.plan, max_users |-> PLAN_LIMITS[b.plan].max_users,
     max_storage_gb |-> PLAN_LIMITS[b.plan].max_storage_gb, is_active |-> TRUE]

CreateRequest(r, b) ==
    Arrive(r, [Idle EXCEPT !.op = "create", !.pc = "insert", !.row = NewRow(b)])

\* Slot r holds a row it has inserted and not yet committed.
Inserted(r) == rq[r].pc \in {"schema", "create_schema", "tables", "commit_create"}

\* One of the three unique columns of models/tenant.py.
Clash(a, b) ==
    a.slug = b.slug \/ a.subdomain = b.subdomain \/ a.db_schema = b.db_schema

Duplicate(row) == \E t \in DOMAIN tenants : Clash(tenants[t], row)

\* Mutant: uniqueness is looked up among the committed rows, not enforced by an index.
InsertTenant_lookup(r) ==
    /\ rq[r].pc = "insert"
    /\ Len(rq[r].row.db_schema) <= ColumnLimit
    /\ ~Duplicate(rq[r].row)
    /\ \E id \in TenantIds \ (DOMAIN tenants \cup {rq[s].id : s \in Requests}) :
          Statement(r, [rq[r] EXCEPT !.id = id, !.pc = "schema"])

\* INSERT INTO tenants waits for whoever has inserted an equal unique value.
InsertTenant(r) ==
    /\ rq[r].pc = "insert"
    /\ Len(rq[r].row.db_schema) <= ColumnLimit
    /\ \A s \in Requests : Inserted(s) => ~Clash(rq[s].row, rq[r].row)
    /\ ~Duplicate(rq[r].row)
    /\ \E id \in TenantIds \ (DOMAIN tenants \cup {rq[s].id : s \in Requests}) :
          Statement(r, [rq[r] EXCEPT !.id = id, !.pc = "schema"])

\* IntegrityError, or DataError for a schema name longer than its column: 500.
InsertRefused(r) ==
    /\ rq[r].pc = "insert"
    /\ Duplicate(rq[r].row) \/ Len(rq[r].row.db_schema) > ColumnLimit
    /\ Refused(r, "error")

Home(r) == Physical(rq[r].row.db_schema)

\* CREATE SCHEMA IF NOT EXISTS: it is there, a NOTICE.
SchemaExists(r) ==
    /\ rq[r].pc = "schema" /\ Home(r) \in schemas
    /\ Statement(r, [rq[r] EXCEPT !.pc = "tables"])

SchemaMissing(r) ==
    /\ rq[r].pc = "schema" /\ Home(r) \notin schemas
    /\ Statement(r, [rq[r] EXCEPT !.pc = "create_schema"])

\* The catalog's unique index makes it wait for another creator of the name.
CreateSchema(r) ==
    /\ rq[r].pc = "create_schema" /\ Home(r) \notin schemas
    /\ \A s \in Requests : rq[s].made => Home(s) # Home(r)
    /\ Statement(r, [rq[r] EXCEPT !.made = TRUE, !.pc = "tables"])

\* The other one has committed it since the check: a unique violation, 500.
SchemaRace(r) ==
    /\ rq[r].pc = "create_schema" /\ Home(r) \in schemas
    /\ Refused(r, "error")

SystemRoles(schema, id) ==
    {[schema |-> schema, tenant_id |-> id, name |-> n] : n \in {"admin", "viewer"}}

\* Mutant: the system roles are inserted through a session of their own.
CreateTables_ownSession(r) ==
    /\ rq[r].pc = "tables"
    /\ roles' = roles \cup SystemRoles(Home(r), rq[r].id)
    /\ Step(r, [rq[r] EXCEPT !.pc = "commit_create"])
    /\ UNCHANGED <<tenants, schemas>>

\* Mutant: the system roles are inserted only into a schema just created.
CreateTables_seedOnce(r) ==
    /\ rq[r].pc = "tables"
    /\ Statement(r, [rq[r] EXCEPT !.seeded = rq[r].made, !.pc = "commit_create"])

\* The tables and indexes, IF NOT EXISTS, and the two system roles.
CreateTables(r) ==
    /\ rq[r].pc = "tables"
    /\ Statement(r, [rq[r] EXCEPT !.seeded = TRUE, !.pc = "commit_create"])

CommitCreate(r) ==
    /\ rq[r].pc = "commit_create"
    /\ tenants' = [t \in DOMAIN tenants \cup {rq[r].id} |->
                      IF t = rq[r].id THEN rq[r].row ELSE tenants[t]]
    /\ schemas' = schemas \cup {Home(r)}
    /\ roles' = roles \cup (IF rq[r].seeded THEN SystemRoles(Home(r), rq[r].id) ELSE {})
    /\ Answer(r, "created")

-----------------------------------------------------------------------------
(* PATCH /tenants/{tenant_id}/plan                                         *)

PatchRequest(r, id, patch) ==
    Arrive(r, [Idle EXCEPT !.op = "patch", !.pc = "load", !.id = id, !.patch = patch])

\* change_plan goes on to the plan, then to the activation, as far as the body has them.
AfterPlan(patch) == IF patch.is_active # None THEN "active" ELSE "commit_patch"
AfterLoad(patch) == IF patch.plan # None THEN "plan" ELSE AfterPlan(patch)

\* get_tenant_by_id: no lock, and inactive tenants too.
LoadTenant(r) ==
    /\ rq[r].pc = "load" /\ rq[r].id \in DOMAIN tenants
    /\ Statement(r, [rq[r] EXCEPT !.row = tenants[rq[r].id], !.pc = AfterLoad(rq[r].patch)])

TenantMissing(r) ==
    /\ rq[r].pc = "load" /\ rq[r].id \notin DOMAIN tenants
    /\ Refused(r, "not_found")

\* The row as r's next statement reads it.
Newest(r) == IF rq[r].wrote THEN rq[r].row ELSE tenants[rq[r].id]

\* Mutant: the UPDATE writes every column of the loaded object.
Flush_everyColumn(r, target, pc) ==
    /\ \A s \in Requests \ {r} : rq[s].wrote => rq[s].id # rq[r].id
    /\ Statement(r, [rq[r] EXCEPT !.row = target, !.wrote = TRUE, !.pc = pc])

\* flush() emits an UPDATE of the attributes that differ from what was loaded, and none
\* when no attribute does.  The UPDATE waits for the row's lock and writes its newest
\* version.  refresh() then reloads the object.
Flush(r, target, pc) ==
    LET dirty == {f \in DOMAIN target : target[f] # rq[r].row[f]}
    IN  \/ /\ dirty = {}
           /\ Statement(r, [rq[r] EXCEPT !.row = Newest(r), !.pc = pc])
        \/ /\ dirty # {}
           /\ \A s \in Requests \ {r} : rq[s].wrote => rq[s].id # rq[r].id
           /\ Statement(r, [rq[r] EXCEPT
                  !.row = [f \in DOMAIN target |->
                              IF f \in dirty THEN target[f] ELSE Newest(r)[f]],
                  !.wrote = TRUE, !.pc = pc])

\* update_tenant_plan
UpdatePlan(r) ==
    /\ rq[r].pc = "plan"
    /\ Flush(r, ApplyPlan(rq[r].row, rq[r].patch.plan), AfterPlan(rq[r].patch))

SetActive(r) ==
    /\ rq[r].pc = "active"
    /\ Flush(r, [rq[r].row EXCEPT !.is_active = rq[r].patch.is_active], "commit_patch")

CommitPatch(r) ==
    /\ rq[r].pc = "commit_patch"
    /\ tenants' = IF rq[r].wrote THEN [tenants EXCEPT ![rq[r].id] = rq[r].row] ELSE tenants
    /\ Answer(r, "patched")
    /\ UNCHANGED <<schemas, roles>>

-----------------------------------------------------------------------------
(* Answers and faults                                                      *)

Respond(r) == rq[r].pc = "reply" /\ Statement(r, Idle)

\* A statement or the commit fails: get_db rolls back, 500.
Fail(r) == Busy(r) /\ Refused(r, "error")

Crash ==
    /\ rq' = [r \in Requests |-> Idle]
    /\ UNCHANGED <<tenants, schemas, roles>>

Arrivals(r) ==
    \/ \E b \in Bodies : CreateRequest(r, b)
    \/ \E id \in TenantIds, patch \in Patches : PatchRequest(r, id, patch)

Creating(r) ==
    \/ InsertTenant(r)
    \/ InsertRefused(r)
    \/ SchemaExists(r)
    \/ SchemaMissing(r)
    \/ CreateSchema(r)
    \/ SchemaRace(r)
    \/ CreateTables(r)
    \/ CommitCreate(r)

Patching(r) ==
    \/ LoadTenant(r)
    \/ TenantMissing(r)
    \/ UpdatePlan(r)
    \/ SetActive(r)
    \/ CommitPatch(r)

Serve(r) == Arrivals(r) \/ Creating(r) \/ Patching(r) \/ Respond(r) \/ Fail(r)

Next == (\E r \in Requests : Serve(r)) \/ Crash

Spec == Init /\ [][Next]_vars
-----------------------------------------------------------------------------
(* Properties                                                              *)

NameCharacters == Characters \cup {"_", "t", "e", "n", "a"}

Row == [slug : Seq(Characters), subdomain : Seq(Characters), db_schema : Seq(NameCharacters),
        plan : Plans, max_users : Nat, max_storage_gb : Nat, is_active : BOOLEAN]

Call == [op : {"none", "create", "patch"},
         pc : {"idle", "insert", "schema", "create_schema", "tables", "commit_create",
               "load", "plan", "active", "commit_patch", "reply"},
         id : TenantIds \cup {None}, patch : Patches \cup {None}, row : Row \cup {None},
         made : BOOLEAN, seeded : BOOLEAN, wrote : BOOLEAN,
         reply : {None, "created", "patched", "not_found", "error"}]

\* Every variable has its type.
TypeOK ==
    /\ DOMAIN tenants \subseteq TenantIds /\ tenants \in [DOMAIN tenants -> Row]
    /\ \A s \in schemas : s \in Seq(NameCharacters)
    /\ roles \subseteq [schema : schemas, tenant_id : DOMAIN tenants, name : {"admin", "viewer"}]
    /\ rq \in [Requests -> Call]

\* A committed tenant has the limits of its plan, although a PATCH that read the row
\* before another one committed writes only the columns in which its own plan differs
\* from the plan it read (the limits are denormalised: models/tenant.py).
LimitsFollowPlan ==
    \A t \in DOMAIN tenants :
        /\ tenants[t].max_users = PLAN_LIMITS[tenants[t].plan].max_users
        /\ tenants[t].max_storage_gb = PLAN_LIMITS[tenants[t].plan].max_storage_gb

\* No two tenants share a slug, a subdomain or a schema name, so every scalar_one_or_none
\* of the lookups finds at most one row, whatever requests insert at the same time.
NamesAreUnique ==
    \A t, u \in DOMAIN tenants : t # u => ~Clash(tenants[t], tenants[u])

\* A tenant anyone can see has its schema and both system roles in it, also where it
\* took over a schema that was there: registration and login never find a tenant half made.
HomeReady ==
    \A t \in DOMAIN tenants :
        /\ Physical(tenants[t].db_schema) \in schemas
        /\ SystemRoles(Physical(tenants[t].db_schema), t) \subseteq roles

\* What row would be if patch were all that happened to it.
Patched(row, patch) ==
    LET planned == IF patch.plan = None THEN row ELSE ApplyPlan(row, patch.plan)
    IN  IF patch.is_active = None THEN planned
        ELSE [planned EXCEPT !.is_active = patch.is_active]

\* A column of a tenant changes only to what a PATCH that is committing asked for it: an
\* upgrade that read the row earlier never undoes another request's deactivation.
NoLostUpdate ==
    [][\A t \in DOMAIN tenants : \A f \in DOMAIN tenants[t] :
          tenants'[t][f] # tenants[t][f] =>
              \E r \in Requests :
                  /\ rq[r].pc = "commit_patch" /\ rq[r].id = t
                  /\ tenants'[t][f] = Patched(tenants[t], rq[r].patch)[f]]_vars

-----------------------------------------------------------------------------
(* What the documentation says                                             *)

\* "Lo schema PostgreSQL garantisce isolamento fisico" (models/user.py).
PhysicalIsolation ==
    \A t, u \in DOMAIN tenants :
        Physical(tenants[t].db_schema) = Physical(tenants[u].db_schema) => t = u
=============================================================================
