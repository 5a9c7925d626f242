# saas-auth in TLA+

A verification project for the multi-tenant authentication backend in `src/`
(FastAPI, SQLAlchemy async, PostgreSQL). It models refresh-token sessions, the
roles and permissions that access tokens carry, tenants with their plans and
accounts, and the connection pool they all share, at the grain at which requests
really interleave; it model-checks them on small instances and proves the main
results for every instance.

Paths below are relative to `src/app/` unless they say otherwise.

## 1. The system

### Components, their state and operations

| component | source | state | operations |
|---|---|---|---|
| Refresh-token service | `services/refresh_token_service.py`, `models/refresh_token.py` | table `public.refresh_tokens`: hash, family, owner, parent, revoked, reason, expires, used | create, rotate, revoke all of a user, invalidate a family, purge |
| Auth service and endpoints | `services/auth_service.py`, `api/v1/endpoints/auth.py` | table `users` of a tenant | register, login, refresh, logout, me |
| Database sessions | `config/database.py` | connection pool, transactions | `get_db` (commit after the handler, rollback on an exception), `get_tenant_session` |
| Access tokens | `services/jwt_service.py` | none: signed claims with an expiry | create, decode |
| Guards | `services/rbac.py` | none | `require_role`, `require_permission`, `require_any_permission`, `_has_permission` |
| Roles and permissions | `services/permission_service.py`, `api/v1/endpoints/admin.py`, `roles.py`, `models/permission.py`, `models/user.py` | tables `roles`, `permissions`, `role_permissions` of a tenant | create a role (two endpoints), create a permission, assign, revoke, list |
| Policies | `api/v1/endpoints/roles.py` | table `policies` | create, list |
| Tenants and plans | `services/tenant_service.py`, `api/v1/endpoints/tenants.py`, `models/tenant.py` | table `public.tenants`, one schema per tenant | create, look up, change the plan, deactivate |
| Tenant middleware and dependencies | `middleware/tenant_middleware.py`, `services/tenant_deps.py` | `request.state` | resolve the tenant, `require_plan` |
| Others | `services/groq_service.py`, `password_service.py`, `config/settings.py`, `main.py`, `alembic/` | configuration | descriptions by a language model, bcrypt, start-up |

### How they interact

* Every request to an endpoint with `Depends(get_db)` has one transaction on the
  public schema, committed when the handler returns and rolled back when it
  raises. In FastAPI before 0.118 that happens before the response leaves, from
  0.118 on after it; `requirements.txt` allows both (`fastapi>=0.115.0`).
* Login and registration open a second session, on the tenant's schema, inside the
  first. The tenant session commits first, at the end of its `async with`.
* The services of `permission_service.py` each open and commit a tenant session of
  their own, so `POST /admin/roles` is a chain of transactions.
* Login reads the role's assignments (`role_permissions`), falls back to the legacy
  column `roles.permissions` when there are none, and freezes the result in the
  access token. Guards read the token only, never the database.
* The isolation level is PostgreSQL's default, READ COMMITTED: each statement has a
  snapshot of its own; an UPDATE or DELETE waits for the lock of a row another
  transaction has written, and then checks its WHERE clause again on the row's
  newest version (but finds no new rows).

### What is hard, and what makes each component correct

* **Sessions.** `rotate_refresh_token` reads a row without a lock and trusts what it
  read across several awaits; rotation, replay, logout, global logout and purge of
  the same session overlap. Correct means: rows made by rotation stay in their
  parent's session with their parent's owner; a dead session stays dead; a bulk
  revocation covers what it matched; nobody else's rows are touched; the audit
  columns agree; nobody waits for ever.
* **Failures.** An exception undoes what was flushed, and the replay answer is an
  exception that must not undo the invalidation. An answer may be lost and retried.
  The process may die anywhere. PostgreSQL may abort a deadlock victim.
* **Claims.** A login's reads see different states of the role. Correct means: nothing
  the role never gave, nothing missing that was there throughout.
* **Roles and policies.** Chains of transactions of several administrators. Correct
  means: an answered creation is complete; the name `admin`, which guards trust, belongs
  to one role.
* **Tenants.** Names made from other names and cut by PostgreSQL; a creation that is a row,
  a schema and its contents; upgrades written from a stale read. Correct means: whoever
  finds a tenant finds all of it; limits follow the plan; no update is lost.
* **Accounts.** Checks that precede an INSERT by a bcrypt and other requests' commits; a
  login whose two transactions commit one after the other. Correct means: one account for
  an email, in its own tenant; answers that are true; a deactivation that holds.
* **The pool.** Sessions opened inside sessions, and inside an await of a language model.
  Correct means: no connection is lost or held twice, and no request waits for ever.
* **Matching.** Wildcards at two levels and strings with none or many colons.

The list with lines is `hazards` in `PROJECT.json`.

## 2. Modules

| module | what it is |
|---|---|
| `RefreshTokens` | sessions, statement by statement |
| `TokenLedger` | what the token table promises under any load: the abstract specification |
| `RefreshTokensLedger` | the refinement mapping from the first to the second |
| `RefreshTokens_proofs` | theorems about `RefreshTokens` |
| `RefreshTokensLedger_proofs` | the refinement proved, and the properties of sessions that need the longer invariant it rests on |
| `RefreshTokensContract_proofs` | the strict contract of a session proved, for requests that avoid three overlaps |
| `PermissionMatch` | `_has_permission` as an operator, and the docstring's table as a language |
| `PermissionMatch_proofs` | theorems about it |
| `RoleCatalog` | roles, assignments, policies, logins and claims of one tenant; EXTENDS `PermissionMatch` |
| `RoleCatalog_proofs` | theorems about it |
| `Tenants` | creation of tenants and changes of their plans |
| `Tenants_proofs` | theorems about it |
| `Accounts` | registration and login in those tenants; EXTENDS `Tenants` and composes with it |
| `Directory` | what the tables of tenants and accounts promise under any load: the abstract specification |
| `AccountsDirectory` | the refinement mapping from `Accounts` to it |
| `Accounts_proofs` | theorems about `Accounts`; that it implements `Tenants`, and `Directory` |
| `ConnectionPool` | connections and the sessions that take them, for every kind of request |
| `ConnectionPool_proofs` | theorems about it |
| `MCRefreshTokens`, `MCRoleCatalog`, `MCAccounts` | constants, symmetry and scopes for TLC |

Operators whose name is another operator's name with a suffix (`Where_anyOwner`)
and whose comment begins with "Mutant" are plausible slips of the code. They are
used by nothing here; substituted for the original they must break a property,
which shows that the property can fail.

### RefreshTokens

One slot of `Requests` is a request (or the purge) in progress. `table` is what is
committed; what a transaction has written is in its record: `hit` are the rows it
has updated or deleted, and whose locks it holds, `new` the token it inserts.

| code | actions |
|---|---|
| `POST /auth/login` up to `create_refresh_token` | `Login` |
| `POST /auth/refresh`; SELECT by hash | `Refresh`; `SelectMissing`, `SelectRevoked`, `SelectExpired`, `SelectValid` |
| `_revoke_single`: UPDATE WHERE id, waits for the row | `RevokeSingle`; `RevokeVanished` if it was purged meanwhile |
| TOKEN_EXPIRED raised, `get_db` rolls back | `RollbackExpired` |
| `create_refresh_token` | `CreateRefreshToken` |
| `get_db` commits a login or a rotation | `CommitMint` |
| `_invalidate_family`, `revoke_all_user_tokens`, logout of one token, purge | `Match` (snapshot), `Visit` (one row: lock, then the WHERE clause again), `CommitBulk` |
| `POST /auth/logout` with a token, an empty string, nothing | `Logout`, `LogoutAll`, `LogoutOmitted` |
| response | `Respond`, `LoseResponse`, `RespondBeforeCommit` |
| faults | `Fail`, `DeadlockVictim`, `Crash` |

Abstractions. A raw token, its hash and its row are one name: SHA-256 is taken as
injective and 256-bit tokens as never repeating, which the unique index enforces. A
family, a fresh UUID, is named after its first token. Access tokens are reduced to
the time until which a user holds one (`accessUntil`), which is what a logout needs.
A refresh presents any token some client has received: old, new, its own or a copy.
The tenant of a row is left out: `user_id` is a UUID and no query of the service
filters by tenant. `used_at` is written after the first flush, under the same row
lock, in the same transaction; it is set with the revocation. A request is at its
reply once its transaction is over. With `ResponseFirst` the client of a login, a
rotation or a logout may have been answered before (`Returned`): it then holds its
tokens, and `reply` is set, while the transaction may still fail. A replay, an expired
token and any other exception are answered after `get_db` has rolled back in either
order. `delivered` notes with each token a client has received the expiry it was issued
with.

### TokenLedger and its implementation

The ledger knows claims (a new session, or the rotation of a live token), drawing a
fresh token, entering it, ending sets of tokens of one session or one owner, and
purging. It has no statements, locks, replies or reasons. `ImplementsLedger` says
that each step of `RefreshTokens` is one of these or a stutter: `Login` and
`SelectValid` claim, `CreateRefreshToken` draws, `CommitMint` enters, `CommitBulk`
ends or purges, `Fail`, `DeadlockVictim` and `Crash` withdraw claims. What the
ledger does not promise is as telling: claims are not exclusive, and ending a
token does not withdraw a claim on it. That is exactly what the races below exploit.

### PermissionMatch

A permission is the sequence of its colon-separated segments, which is all that
`split(":", 1)` and the comparisons see. `StandsFor` reads the table of the docstring
as a language (the codenames a permission stands for) and is compared with `Allows`: by
`AgreesWithTable` for the claims of the tokens in use, and by a theorem for all codenames.

### RoleCatalog

| code | actions |
|---|---|
| `POST /admin/roles`, `POST /roles` (role check, then the INSERT and its commit) | `CreateRoleRequest`, `InsertRole`, `NameTaken` |
| the loop of `create_admin_role` | `BadCodename`, `CreatePermission`, `AssignPermission`, `AssignMissing`, `Finish` |
| `POST`/`DELETE /admin/roles/{id}/permissions`, `POST /admin/permissions` | `GrantRequest`, then `AssignPermission`, `RevokePermission`, `CreatePermission` |
| a token without the role | `Forbidden` |
| `register_user` | `Register` |
| `login_user`: user and role; assignments; legacy column; token | `Login`, `LoadGrants`, `LoadLegacy`, `IssueAccess` |
| `refresh_tokens`: access token without claims | `IssueRefreshed` |
| `create_policy`: the role; the description; the INSERT | `PolicyRequest`, `LookUpRole`, `InsertPolicy` |
| expiry, failure, crash | `Tick`, `Fail`, `Crash` |

The legacy column is a list of codenames joined with commas, and a login splits it at
commas and strips the parts (`admin.py:99`, `auth_service.py:149`). `AdminRoleCreate`
(`schemas/user.py:189`) allows a comma inside a codename, so `Legacy` takes apart each entry
(`Split`): `"tasks:read,*"` is assigned as one permission, and read from the column as two
claims. `POST /roles` takes the joined text itself, and its payload is the list that text is
split into.

Each transaction, and each SELECT of a login, is one action. Roles and permissions
are never updated or deleted by this code, so a check made inside a transaction
cannot go stale before its INSERT. `revoked` and `held` are history variables: they
record, and no action reads them. The text of descriptions and password checks are left
out; a login starts where the password was accepted. The wait for a policy's description
is the step between `LookUpRole` and `InsertPolicy`.

### Tenants

| code | actions |
|---|---|
| `POST /tenants/`; INSERT of the row | `CreateRequest`; `InsertTenant`, `InsertRefused` |
| `CREATE SCHEMA IF NOT EXISTS` | `SchemaExists`, `SchemaMissing` then `CreateSchema` or `SchemaRace` |
| tables and system roles; commit | `CreateTables`, `CommitCreate` |
| `PATCH /tenants/{id}/plan`; SELECT | `PatchRequest`; `LoadTenant`, `TenantMissing` |
| `update_tenant_plan`; `is_active`; commit | `UpdatePlan`, `SetActive` (each a `Flush`), `CommitPatch` |
| response, failure, crash | `Respond`, `Fail`, `Crash` |

What a transaction has not committed is in its record: the row it has inserted or
updated, whether it has created its schema (`made`), seeded it, or written its row
(`wrote`, and then holds its lock). A unique index makes an INSERT wait for another
one's uncommitted equal value, and refuses a committed one. `Flush` is SQLAlchemy's
unit of work: it writes the attributes that differ from what was loaded, onto the
newest version of the row. DDL is transactional: a schema is there for others after
the commit. A slug is a sequence of characters because two facts about it matter: the
replacement of `-` and the cut at PostgreSQL's 63 bytes (`NameLimit`). Reserved words
and display names are left out.

### Accounts

| code | actions |
|---|---|
| `POST /auth/register`, `/auth/login` | `Register`, `Login` |
| `get_tenant_by_slug` in the request's session | `FindTenant`, `TenantNotFound` |
| `register_user`: email, role; hash and INSERT; commit of the tenant session | `EmailTaken`, `RoleMissing`, `Checked`; `InsertUser`, `InsertClash`; `CommitUser` |
| `login_user`: user row and password; `last_login` and refresh token; commit | `ReadUser`, `LoginRefused`; `TouchUser`; `CommitLogin` |
| `get_db` commits the request's session | `CommitPublic` |
| response, failure, crash | `CallResponds`, `CallFails`, `Restart` |
| an operator's SQL on `users.is_active` (no endpoint writes it) | `DisableUser` |

Every step of `AccountsSpec` that is not one of these is a step of `Tenants` with the
accounts unchanged, so tenants are created and deactivated under running logins. A slot
serves one request of either kind. Rows of a schema carry the schema's physical name,
so that tenants whose names are cut to the same schema really share its tables, and
only the `tenant_id` filters keep them apart. Claims are `RoleCatalog`'s matter and what
becomes of a session is `RefreshTokens`': here a session is the fact that its first
token was committed. Answers come after the commit in `Tenants` and `Accounts`. An earlier
one would change no row there; a registration has committed its rows in the tenant session
before its handler returns, and an early answer of a login is in `RefreshTokens`. `seen` and `recorded` are history variables; `recorded` holds a login
with the account whose `last_login` it wrote, so that `LoginRecorded` is about the right one.

### Directory and its implementation

The directory has tenants (slug, subdomain, plan, limits, active), accounts (tenant, email,
role, active), the marks that logins leave and the sessions they open; it has no
statements, locks, snapshots, answers or schemas. `ImplementsDirectory` says that each step
of `Accounts` and of its tenants is one step of the directory or a stutter:

| step of the code | step of the directory |
|---|---|
| `CommitCreate` | `Enter`: both names free, the plan's limits, active |
| `CommitPatch` | `Amend`: each column named takes the value asked for or stays, limits go with the plan |
| `CommitUser` | `Enroll`: email free in that tenant, a role of that tenant or none |
| `CommitLogin` | `Mark`: one for each login, on one account |
| `CommitPublic` of a login | `Admit`: a session out of a mark, at most one |
| `DisableUser` | `Suspend` |
| everything else, faults included | none |

Two things it does not promise tell about the code. An amendment may leave alone a column
it was asked to set: the unit of work writes what differs from a stale read. And a mark need
not become a session, since the second commit of a login may fail. The schema of a tenant is
no part of it: two tenants that share a schema still behave as two entries, which
is what the `tenant_id` filters of the queries achieve.

### ConnectionPool

| code | actions |
|---|---|
| arrival: the middleware resolves a tenant, or has nothing to resolve | `Arrive` |
| its session; its end; the pool's timeout swallowed at `tenant_middleware.py:135` | `Resolve`, `Resolved`, `ResolveTimeout` |
| first statement of `get_db`'s session | `OpenPublic` |
| `get_tenant_session` inside it, or alone, once or in a chain | `EnterTenant`, `OpenTenant`, `CloseTenant` |
| `generate_policy_description` inside a tenant session | `Described` |
| `get_db` closes | `ClosePublic` |
| QueuePool timeout, failure, crash | `PoolTimeout`, `Fail`, `Crash` |

Endpoints are sorted by the order in which they open and close sessions (`Kinds`). A
session takes a connection at its first statement, not when it is made. Overflow
connections are connections like others: `Conns` is `pool_size + max_overflow`, 15 by
default, since `database.py:32` sets neither.

## 3. Model checking

| run | instance | shows |
|---|---|---|
| `safety` | 3 tokens, 1 user, 2 requests, clock 0..1, response first | `TypeOK`, `SessionChain`, `StatementCovers`, `AuditTrail`, `DeadSessionStaysDead`, `OnlyBulkDeadlocks` |
| `owners` | 2 tokens, 2 users, 2 requests, clock 0..2, response after commit | `BlastRadius`, `DeliveredIsDurable`, `ImplementsLedger` |
| `serial` | 3 tokens, 1 user, 2 requests kept from three overlaps, clock 0..1, response after commit | the strict contract: `SingleUse`, `OneLiveToken`, `ReplayEndsSession`, `GlobalLogoutEndsSessions` |
| `live` | 2 tokens, 1 user, 2 requests, clock 0..1, fair | `EveryRequestEnds` |
| `roles` | 3 roles, 1 user, 2 requests, payloads of 2 codenames, clock 0..1 | `TypeOK`, `CompletedRoleIsComplete`, `GrantsAppear`, `ClaimsWereHeld`, `AdminIsTheSystemRole`, `AgreesWithTable` |
| `accounts` | 2 tenants, 2 users, 1 email, 2 requests, 1 login, names cut at 9 | `AccountsTypeOK`, `AccountsStayHome`, `OneAccountPerEmail`, `AnswersAreTrue`, `LoginRecorded`, `LimitsFollowPlan`, `NamesAreUnique`, `HomeReady`, `DeactivationHolds`, `NoLostUpdate`, `ImplementsDirectory` |
| `pool` | 3 requests, 2 connections, chains of 2, fair | `TypeOK`, `NoLeak`, `StallTakesNested`, `EveryCallEnds` |

### Runs that TLC must find violated

| run | the text | what the code does |
|---|---|---|
| `twochildren` | a presented token is "immediatamente revocato" (`endpoints/auth.py:93`) | two concurrent refreshes with one token both get a successor: the row is not looked at again when it is updated |
| `replayrace` | "Tutta la family di token ... viene invalidata" (`endpoints/auth.py:100`) | a rotation in flight commits a live token of the family after the invalidation |
| `expired` | "Revoca ordinata" (`refresh_token_service.py:132`) | the revocation is flushed, then the exception makes `get_db` roll it back |
| `revoked` | "Permesso revocato con successo" (`endpoints/admin.py:246`) | after the last revocation the legacy column gives the role everything it was created with |
| `sharedschema` | "Lo schema PostgreSQL garantisce isolamento fisico" (`models/user.py:9`) | schema names are unique in full, PostgreSQL cuts them at 63 bytes, and `CREATE SCHEMA IF NOT EXISTS` adopts the schema that is there |

`serial` shows that, where answers follow commits, nothing else breaks the contract. Its behaviours (`ApartSpec`) are those in
which requests overlap as they like but for three overlaps: two rotations of one token
(`OneRotation`), a rotation in a session that a replay is invalidating (`QuietReplay`), and a
rotation of a user whose sessions a global logout is ending (`QuietLogout`). None can be
dispensed with: without the first TLC finds `SingleUse` and `OneLiveToken` violated, without
the second `ReplayEndsSession`, without the third `GlobalLogoutEndsSessions`. Logins,
logouts of one token, purges, failures, lost answers and crashes need no restraint.

The order of commit and response is a condition of its own. From FastAPI 0.118 on a global
logout is answered before `get_db` commits it: the sessions are live at the answer, and stay
so if the transaction then fails or the process dies. With `ResponseFirst = TRUE` in
`RefreshTokens_serial.cfg` TLC finds `GlobalLogoutEndsSessions` violated without any overlap,
while the other three hold (a replay commits before it raises, in either order); in
`RefreshTokens_owners.cfg` it finds `DeliveredIsDurable` violated by a login that is answered
and then lost. These two runs take the older order for that reason, and `safety` the newer one.

Divergences met while modelling, visible in the actions but without a run of their own:

* with the newer FastAPI that `requirements.txt` allows, the answers of login, refresh and
  logout precede the commit they depend on (`config/database.py:61`, see above);
* a codename with a comma in it is one permission when it is assigned and several claims when
  the legacy column is read (`admin.py:99`, `auth_service.py:149`; `Split`);
* a logout that omits `refresh_token` is a 422 (`schemas/user.py:97`), not the global
  logout of `endpoints/auth.py:136`; only the empty string is (`LogoutOmitted`);
* logout with a token that has just been rotated leaves the successor alive and says
  "Sessione corrente terminata" (`auth_service.py:305-314`);
* a refreshed access token has no role and no permissions (`auth_service.py:263-271`),
  although `permission_service.py:16` says they are reloaded (`IssueRefreshed`);
* `POST /admin/roles` is not "un'unica operazione" (`admin.py:54`): a bad codename
  answers 400 and leaves the role with its first permissions (`BadCodename`);
* its text accepts the permission `admin:roles` (`admin.py:64`), its guard only the
  role name (`require_admin`);
* the system viewer's `read:*` (`tenant_service.py:155`) is resource `read`, and does
  not allow `tasks:read`; the tests use `*:read` (`src/tests/test_step4_rbac.py:115`);
* administrators "passano sempre" thanks to `*` (`endpoints/admin.py:16`), but that `*` is
  in the legacy column of the admin role: assign the role one permission, and it is read
  no more (`LoadGrants`). This is the other face of the run `revoked`;
* refresh reads neither the tenant nor the user (`auth_service.py:228-284`): a session
  outlives the deactivation of both, which `DeactivationHolds` states for logins only;
* two registrations of one email that pass the check together: the second answers 500,
  not the 400 of `auth_service.py:54-56` (`InsertClash`); no data is wrong;
* a PATCH equal to the row it has read emits no UPDATE and answers 200, although another
  plan was committed since its read: last writer does not win (`Flush`, `dirty = {}`);
* a slug of 94 to 100 characters is valid and cannot be created: 500 (`InsertRefused`);
* `check_user_limit` (`tenant_deps.py:101-110`) is called by nobody and `max_users` read
  by nothing: plans limit storage and users in name only;
* a rotation that has passed its check before a replay was detected overwrites
  `revoked_reason` "replay_attack" by "rotated", since `_revoke_single` updates the row
  whatever it says by then (`RevokeSingle`): the trace of the attack is lost on that row;
* the middleware promises a tenant in `request.state` (`tenant_middleware.py:55-61`), which
  no endpoint reads, and swallows its own failures, a pool timeout included.

### Bounds, and why they are enough

* `Requests`: two, because each race of the code is between two transactions, and two
  suffice for lock waits and deadlocks. The proofs have no such bound.
* `Tokens`: three allow a login, its rotation and a second child, a second login or a
  grandchild; two suffice where two users are needed. With no token left an insert can
  only fail, which is why `Fail` is always possible.
* `MaxTime`, `RefreshTTL`, `AccessTTL`: in `owners` the lifetime is 1 and the clock
  reaches 2, so that a token is young, at its last valid moment, and expired, and the
  purge meets all three. In `safety` the lifetime is 0 and the clock reaches 1: valid
  at its birth and expired after it. `serial` has the same
  clock, and access tokens that outlive refresh tokens.
* `MaxTokens` limits the access tokens in use, not those ever issued.
* `roles` explores three scopes, given by the variable `scope` of `MCRoleCatalog`: "roles" (all
  requests but policies, clock at 0), "claims" (grants, logins and the clock, no creation) and
  "policies" (policies and logins). What races with a login are assignments and
  revocations, and creations race with each other; policies are read by none of them. The
  payloads are a complete role of two permissions, one whose first codename has a comma and
  whose second has no colon, and a second "admin". `AgreesWithTable` compares over all codenames of up to three
  segments out of three, one of them the star: a second colon and every branch are met.
* `accounts` explores two: "plans" (creations and all PATCHes, two at a time) and "accounts"
  (registrations and logins, beside one creation, activation or deactivation at a time). The limits of the plans are those of the
  code. With names cut at 9 characters the slugs `a-b` and `a-c` share a schema, and
  `a-b-c` exceeds a column of 10; 63 and 100 behave alike. Each of the first two bodies has
  the other's slug as its subdomain, the third has a subdomain in common with the first.
  One login is enough for what a login may see; two requests for each race. `RoleNames`
  limits the roles that registrations name to the viewers, of either tenant.
* `pool`: with two connections and three requests, two logins stall the pool while a third
  request waits. Chains of two sessions stand for longer ones, whose state between two
  sessions is the same. `MaxSessions` bounds them.
* Symmetry permutes tokens, users, tenants, slots and custom roles; it is off in the liveness
  runs.

### Fairness

`FairSpec` lets a request that can go on go on (WF on `Progress`): the event loop runs
every ready coroutine and PostgreSQL answers every statement. `RevokeSingle` and
`Visit` wait for row locks, which PostgreSQL grants in the order of arrival, hence SF: a
lock may be taken and released in between. The deadlock detector is fair: it exists to
abort one transaction of a cycle. Clients, the clock and faults are under no obligation.
One conjunct belongs to the bound on `Tokens`: an insert with no token left fails.

In `ConnectionPool`, a request that has what it needs goes on (WF on `GoOn`: database and
language model answer, or their clients time out, which `Fail` covers). `QueuePool` serves
its waiters in turn, so a request that could take a connection again and again does (SF on
`Acquire`). Its timeout fires when the pool stays empty (WF on `TimeOut`). Arrivals,
failures and crashes are under no obligation. Without `TimeOut` two logins between their
sessions wait for ever, which is what the mutant of `EveryCallEnds` shows.

## 4. Proofs

TLAPS checks all of them, for every value of the constants: any number of requests,
tokens, users, roles, tenants and connections, any lifetimes, bodies and limits. The
assumptions are those the modules name: `ConstantsAssumption` (`RefreshTokens`),
`SegmentsAssumption`, `CatalogAssumption`, `TenantsAssumption`, `AccountsAssumption` and
`PoolAssumption`. They say that `None` is none of the values, that times and limits are
naturals, that the pool and its requests are finite and the pool not empty, and that
bodies are ones the schemas of `schemas/` accept. TLC evaluates them on every run.

| module | theorem | statement |
|---|---|---|
| `RefreshTokens_proofs` | `TypeCorrect`, `Invariance` | `Spec => []TypeOK`, `Spec => []IInv` |
| | `ChainsHold`, `AuditTrailHolds`, `StatementsCover` | `[]SessionChain`, `[]AuditTrail`, `[]StatementCovers` |
| | `DeadStaysDead` | `DeadSessionStaysDead` |
| | `DeadlocksAreBulk` | `[]OnlyBulkDeadlocks` |
| `RefreshTokensLedger_proofs` | `BlastRadiusHolds` | `BlastRadius` |
| | `DeliveredStays` | `[]DeliveredIsDurable`, if the commit precedes the response |
| | `Refinement` | `Spec => ImplementsLedger` |
| `RefreshTokensContract_proofs` | `SingleUseHolds`, `OneTokenPerSession` | `[]SingleUse`, `[]OneLiveToken`, if `[]OneRotation` |
| | `ReplayEnds` | `[]ReplayEndsSession`, if `[]QuietReplay` |
| | `LogoutEnds` | `[]GlobalLogoutEndsSessions`, if `[]QuietLogout` and the commit precedes the response |
| `PermissionMatch_proofs` | `AllowsWhatItStandsFor` | among any codenames, `Allows` is the docstring's table |
| | `CoverTransitive` | a list that allows every entry of a second list allows all that one does |
| | `Monotone` | more permissions never allow less |
| `RoleCatalog_proofs` | `TypeCorrect`, `CompletedRoles`, `GrantsReachTokens`, `ClaimsAreGrounded`, `AdminsAreGenuine` | `TypeOK` and the invariants of `roles` about rows and claims |
| | `GuardsAgree`, `GuardsMatchTheTable` | `GuardsFollowTable` for every set of codenames; `[]AgreesWithTable` |
| `Tenants_proofs` | `TypeCorrect`, `LimitsFollow`, `NamesUnique`, `HomesReady` | `TypeOK` and the invariants of `accounts` about tenants |
| | `NoUpdateIsLost` | `NoLostUpdate` |
| `Accounts_proofs` | `ImplementsTenants` | `AccountsSpec => Spec` of `Tenants` |
| | `AccountsTypeCorrect`, `AccountsAtHome`, `OneAccount`, `AnswersHold`, `LoginsRecorded` | the invariants of `accounts` about accounts |
| | `DeactivationStopsLogins` | `DeactivationHolds` |
| | `DirectoryRefinement` | `AccountsSpec => ImplementsDirectory` |
| `ConnectionPool_proofs` | `TypeCorrect`, `NothingLeaks`, `StallsAreNested` | `[]TypeOK`, `[]NoLeak`, `[]StallTakesNested` |

None of these invariants but the types is inductive: what a handler does with a row was
decided from a read several awaits earlier. Each module's inductive invariant says, for a
request at each program point, what of that read still holds.

### Sessions

`SessionChain`: `CommitMint` makes a child from what the request noted several steps
earlier, when the parent may have been revoked, rotated by another request or purged
since. `IInv` adds what makes it so:

* `TableSound`: stored tokens and parents were minted, no row expires later than a
  lifetime from now, and `SessionChain` and `AuditTrail` themselves;
* `Sound(q)`, for one request: while it rotates and the presented row exists, that
  row's family and owner are those it noted; before its insert it holds the lock of
  exactly the presented row, which therefore cannot be purged or rewritten; rows hit by
  a bulk statement were unrevoked and still match the fixed part of its WHERE clause
  (`Target`); every row matched is still to visit, hit, or revoked or gone; a purge hits
  only rows past its cutoff; the token about to be entered is nobody's parent yet;
* `Apart(p, q)`, for two requests: disjoint locks, and nobody has matched, presents or
  makes the token another one is about to enter.

The proof has one lemma per kind of step. Steps that change only their own record
(`StepSound`, `HarmlessSound`) keep everyone else's part; `OthersSound` and `CommitApart`
carry the other requests across a commit; `CommitMintSound` and `CommitBulkSound` do the
rows. `DeadStaysDead` follows from `IInv`: the only step that adds a live row commits a
rotation or a login, the first is excluded by `SessionDead`, the second has a family that
was not minted before (`DeadCreate`).

The ledger needs `LInv`, which adds to `IInv` that a request has no token and no time of
one before it draws it (`Fresh`), that a replay still knows the family of the row it
presented (`Presented`; the row is older than any token about to be entered or in a reply,
`Older`), and that the token in a reply is stored with its whole lifetime, or that lifetime
is over (`Received`, by `Lasts`). `Presented` is what bounds a replay's revocations by
`BlastRadius`. `Received` is what makes a delivered token durable: `Respond` hands the client
a token of which it holds, and from then on `DeliveredIsDurable` is inductive, together with
the fact that no token about to be entered has been delivered (`Unsent`). The refinement is
proved step by step: `ClaimOf` gives the claim of a request's record, and one lemma per
kind of step shows which step of the ledger it is, or that it is none.
`DeliveredStays` needs `~ResponseFirst`: an answer that leaves before the commit may be
about a row that never comes to be, which is why FastAPI's order matters. `ChainsHold`,
`AuditTrailHolds`, `StatementsCover`, `DeadStaysDead`, `BlastRadiusHolds` and `Refinement`
hold in either order: `StatementsCover` speaks of transactions that are over.

`DeadlocksAreBulk` needs only `IInv`. Each member of a cycle is waited for, so it holds the
lock of a row; each waits, so it is at `RevokeSingle` or in a bulk statement. A rotation takes
its one lock with `RevokeSingle` and holds nothing while it waits there (`Sound`), so every
member is in a bulk statement: a login or a rotation is never the victim.

### The contract of a session

The strict contract is false of the code and true of it without the three overlaps above,
the part about global logouts where answers follow commits.
The overlaps are hypotheses of the theorems, `[]OneRotation` and the like: they restrict which
requests overlap, never what a request does. Each theorem assumes only the overlap it needs.

* `NInv` adds to `LInv` the kinship of what is in flight: a session has one owner
  (`OneOwner`), a rotation knows the owner of the session it rotates in, a login about to
  commit makes a session that has no row yet (`Kin`), and nobody rotates in or invalidates a
  session not yet entered (`Unborn`). It holds without hypotheses.
* `RInv` adds `SingleUse` and `OneLiveToken`, and `Unspent`: a token being rotated has no
  child, and any unrevoked token of its session is the one presented. Two rotations in one
  session then present the same token, which `OneRotation` excludes when a child is
  entered. The two invariants are proved together because neither is inductive alone: a
  second live token is a rotation that may make a second child.
* `EInv(op)`, for the two requests that end sessions: the statement has matched every
  unrevoked row of the sessions it ends (`Covers`), and once they are committed these
  sessions are dead (`Ended`), and stay so by `DeadSessionStaysDead`. A row that appears
  under the statement is a rotation's, and `Undisturbed` says there is none. For a global
  logout a session counts as asked to end if one of the rows matched belongs to it, and a
  rotation in it is the caller's own, by `OneOwner`: `QuietLogout` need only speak of the
  caller's rotations. What follows is a fact about committed logouts
  (`CommittedLogout`), in either order; `LogoutEnds` adds that with the commit first no
  logout is answered before (`AnswersLast`). An early answer only sets the reply of a
  record, which these lemmas treat as the same request (`Alike`).

### Roles, tenants, accounts, connections

* `RoleCatalog`. `StoredSound` has the references and that the name `admin` is of one
  role; `HeldNow` that the history knows what each role gives at this instant. With them
  `LoginSound` says of each read of a login what it has seen: after the assignments were
  read, a permission of the beginning is still there or was revoked, and each claim was
  held at some instant since. `CreationSound` says the same of the loop of
  `create_admin_role`. Rows only appear (`Grows`), but assignments, so a reference checked
  in one transaction is good in the next.
* `Tenants`. A PATCH works on a row read before others changed it. `Asked` says that, once
  it holds the lock, its row differs from the stored one only as the patch asks, the
  limits going with the plan; `Storable` that every row in flight has the limits of its
  plan. `Apart` is the lock of a row or an index entry.
* `Accounts`. `ImplementsTenants` carries everything proved of `Tenants` over. `AInv` then
  says what a registration or login knows at each point (`SoundRegistration`,
  `SoundLogin`), and stays true because no tenant, role or user disappears or changes its
  identity (`TenantsGrow`, `UsersGrow`); `ApartCalls` is the unique index at work.
* `Directory`. `DInv` adds what the mapping must know: a row in flight is what one of the
  bodies asked for (`Ordered`), since `Enter` takes an order and not a row; and a login's
  number is its own and has left no mark before its first commit (`LoginsApart`). With
  `AInv` each commit is then one step (`CommitCreateEnters`, `CommitPatchAmends` and so on):
  `Clash` of the unique columns gives the free names, `Asked` the amendment, `SoundLogin`
  the mark and its account.
* `ConnectionPool`. `OneHolder` and `Shape`: which connections a request holds follows from
  its program point. A stall takes as many nested requests as there are connections by a
  counting argument: each holder waits at the same point, with one connection.

### Only model-checked

`EveryRequestEnds` and `EveryCallEnds`: liveness under fairness is out of the prover's
reach. All other properties of the passing runs are stated by a theorem, under the
hypotheses the table names; those of the runs that must be violated are false of the code.

## 5. Not modelled

* `get_current_tenant`, `require_plan`, `check_user_limit` (`services/tenant_deps.py`) and
  what the middleware leaves in `request.state`: no endpoint of the application reads it,
  and `check_user_limit` is empty. Of the middleware the model has its session and its
  swallowed failures.
* `search_path`: every statement names its schema, so it decides nothing.
* Reserved slugs, display names, password rules: rejected before any state is touched.
* `GET` endpoints: they read in one transaction and change nothing.
* bcrypt and the signing of JWTs: pure calls. A password check is a choice of the model.
* The language model's texts and their fallbacks: they decide nothing. When they are
  awaited, and with which connection held, is in `ConnectionPool`.
* Settings, logging, CORS, start-up, `alembic/`: configuration.

## 6. Plan

Done, in the order of their importance:

1. `RefreshTokens` with its safety and liveness runs, and `TokenLedger`.
2. The inductive invariant and its theorems; the refinement of `TokenLedger`.
3. `PermissionMatch` with its theorems, for all codenames.
4. `RoleCatalog` with policies, runs and proofs.
5. `Tenants`: schema names, unique columns, stale PATCHes, with proofs.
6. `Accounts`: registration and login composed with `Tenants`, with proofs.
7. `ConnectionPool`: hold-and-wait of nested sessions, timeout, with liveness and proofs.
8. The strict contract of a session under the overlaps it needs excluded, with proofs.
9. `Directory`, and the proof that `Accounts` implements it.

Left:

* `Accounts` composed with `RefreshTokens`. They meet in one fact, that a login's first
  token was committed, and a refresh reads nothing of accounts; the composition would
  show again that a session outlives a deactivation, and multiply the states of both.
* If a later version enforces `max_users` or checks tenants in a refresh: the read, and the
  commits between it and the write it allows, belong into `Accounts`.
