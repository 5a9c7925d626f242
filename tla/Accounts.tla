------------------------------- MODULE Accounts -------------------------------
(***************************************************************************)
(* Registration and login in the tenants of module Tenants:                *)
(* register_user and login_user of app/services/auth_service.py, their     *)
(* endpoints in auth.py, and get_tenant_session of config/database.py.     *)
(*                                                                         *)
(* A call holds two transactions: the request's own on the public schema,  *)
(* and one of get_tenant_session on the tenant's schema.  The tenant's     *)
(* commits first, when its "async with" ends; the public one, with the     *)
(* refresh token of a login, when the handler has returned.                *)
(*                                                                         *)
(* A slot of Requests serves one request at a time, of Tenants or of this  *)
(* module, and every step of Tenants is a step here.                       *)
(***************************************************************************)
EXTENDS Tenants

CONSTANTS
    UserIds, Emails,
    RoleNames,          \* bound on the roles registrations name
    MaxLogins           \* bound on the logins that arrive

ASSUME AccountsAssumption ==
    /\ None \notin UserIds /\ None \notin Emails
    /\ None \notin Nat /\ None \notin {"ok", "taken"}
    /\ MaxLogins \in Nat

VARIABLES
    users,              \* rows of the users tables, by id
    sessions,           \* refresh tokens that logins have committed
    calls,              \* for each slot, the registration or login running in it
    started,            \* how many logins have arrived
    seen,               \* history: for each slot, what its login could have found active so far
    recorded            \* history: the logins whose last_login was committed, and where

accountVars == <<users, sessions, calls, started, recorded>>
allVars == <<vars, accountVars, seen>>

NoCall == [op |-> "none", pc |-> "idle", slug |-> None, email |-> None,
           role |-> None, login |-> None, tenant |-> None, user |-> None, reply |-> None]

AccountsInit ==
    /\ Init
    /\ users = [u \in {} |-> None]
    /\ sessions = {}
    /\ calls = [r \in Requests |-> NoCall]
    /\ started = 0
    /\ seen = [r \in Requests |-> {}]
    /\ recorded = {}

\* The tenant and the user a login asks for, as far as they are active now.
Found(q) ==
    LET ts == {t \in DOMAIN tenants : tenants[t].slug = q.slug}
    IN  {t \in ts : tenants[t].is_active} \cup
        {u \in DOMAIN users : /\ users[u].tenant_id \in ts /\ users[u].email = q.email
                              /\ users[u].is_active}

Record ==
    seen' = [r \in Requests |-> IF calls[r]'.login = None THEN {}
                                ELSE seen[r] \cup Found(calls[r])']

CallStep(r, q) == calls' = [calls EXCEPT ![r] = q]

CallStatement(r, q) == CallStep(r, q) /\ UNCHANGED <<users, sessions, started, recorded>>

\* The answer, with what it is about.
Reply(r, reply) ==
    LET q == [calls[r] EXCEPT !.login = None, !.user = None, !.slug = None]
    IN  CallStep(r, [q EXCEPT !.pc = "reply", !.reply = reply])

CallRefused(r, reply) == CallStatement(r, [NoCall EXCEPT !.pc = "reply", !.reply = reply])

-----------------------------------------------------------------------------
(* Arrival, and the tenant                                                 *)

\* POST /auth/register and /auth/login: the header X-Tenant-Slug is required.
Register(r, slug, email, role) ==
    /\ calls[r].pc = "idle"
    /\ CallStatement(r, [NoCall EXCEPT !.op = "register", !.pc = "tenant", !.slug = slug,
                                       !.email = email, !.role = role])

Login(r, slug, email) ==
    /\ calls[r].pc = "idle"
    /\ started < MaxLogins
    /\ started' = started + 1
    /\ CallStep(r, [NoCall EXCEPT !.op = "login", !.pc = "tenant", !.slug = slug,
                                  !.email = email, !.login = started + 1])
    /\ UNCHANGED <<users, sessions, recorded>>

\* The rows get_tenant_by_slug can find.
BySlug(slug) == {t \in DOMAIN tenants : tenants[t].slug = slug /\ tenants[t].is_active}

\* Mutant: the handler's lookup takes inactive tenants as well.
FindTenant_inactiveToo(r) ==
    /\ calls[r].pc = "tenant"
    /\ \E t \in DOMAIN tenants :
          /\ tenants[t].slug = calls[r].slug
          /\ CallStatement(r, [calls[r] EXCEPT !.tenant = t,
                 !.pc = IF calls[r].op = "login" THEN "user" ELSE "check"])

\* get_tenant_by_slug, in the request's session.
FindTenant(r) ==
    /\ calls[r].pc = "tenant"
    /\ \E t \in BySlug(calls[r].slug) :
          CallStatement(r, [calls[r] EXCEPT !.tenant = t,
              !.pc = IF calls[r].op = "login" THEN "user" ELSE "check"])

TenantNotFound(r) ==
    /\ calls[r].pc = "tenant" /\ BySlug(calls[r].slug) = {}
    /\ CallRefused(r, "refused")

\* The schema a call's tenant session works in.
SchemaOf(t) == Physical(tenants[t].db_schema)

-----------------------------------------------------------------------------
(* register_user                                                           *)

\* Mutant: WHERE email = :email, without the tenant.
SameAccount_anyTenant(u, q) ==
    users[u].schema = SchemaOf(q.tenant) /\ users[u].email = q.email

\* WHERE tenant_id = :tid AND email = :email, in the tenant's schema.
SameAccount(u, q) ==
    /\ users[u].schema = SchemaOf(q.tenant)
    /\ users[u].tenant_id = q.tenant
    /\ users[u].email = q.email

EmailTaken(r) ==
    /\ calls[r].pc = "check" /\ \E u \in DOMAIN users : SameAccount(u, calls[r])
    /\ Reply(r, "taken")
    /\ UNCHANGED <<users, sessions, started, recorded>>

\* Mutant: WHERE id = :rid, without the tenant.
RoleFound_anyTenant(q) ==
    q.role # None => q.role \in roles /\ q.role.schema = SchemaOf(q.tenant)

\* WHERE tenant_id = :tid AND id = :rid, in the tenant's schema, when a role is named.
RoleFound(q) ==
    q.role # None =>
        q.role \in roles /\ q.role.schema = SchemaOf(q.tenant) /\ q.role.tenant_id = q.tenant

RoleMissing(r) ==
    /\ calls[r].pc = "check" /\ ~RoleFound(calls[r])
    /\ CallRefused(r, "no_role")

\* Both checks passed; hash_password comes before the INSERT.
Checked(r) ==
    /\ calls[r].pc = "check" /\ RoleFound(calls[r])
    /\ \A u \in DOMAIN users : ~SameAccount(u, calls[r])
    /\ CallStatement(r, [calls[r] EXCEPT !.pc = "insert_user"])

\* Mutant: no unique constraint stands behind the check.
InsertUser_unconstrained(r) ==
    /\ calls[r].pc = "insert_user"
    /\ \E u \in UserIds \ (DOMAIN users \cup {calls[s].user : s \in Requests}) :
          CallStatement(r, [calls[r] EXCEPT !.user = u, !.pc = "commit_user"])

\* uq_users_tenant_email: the INSERT waits for an uncommitted equal row.
InsertUser(r) ==
    /\ calls[r].pc = "insert_user"
    /\ \A s \in Requests : calls[s].pc = "commit_user" =>
          ~(calls[s].tenant = calls[r].tenant /\ calls[s].email = calls[r].email)
    /\ \A u \in DOMAIN users : ~SameAccount(u, calls[r])
    /\ \E u \in UserIds \ (DOMAIN users \cup {calls[s].user : s \in Requests}) :
          CallStatement(r, [calls[r] EXCEPT !.user = u, !.pc = "commit_user"])

\* The same email was registered after the check: IntegrityError is no ValueError, 500.
InsertClash(r) ==
    /\ calls[r].pc = "insert_user" /\ \E u \in DOMAIN users : SameAccount(u, calls[r])
    /\ CallRefused(r, "error")

\* get_tenant_session commits the account.
CommitUser(r) ==
    /\ calls[r].pc = "commit_user"
    /\ LET q == calls[r]
           row == [schema |-> SchemaOf(q.tenant), tenant_id |-> q.tenant, email |-> q.email,
                   role |-> q.role, is_active |-> TRUE, last_login |-> None]
       IN  users' = [u \in DOMAIN users \cup {q.user} |-> IF u = q.user THEN row ELSE users[u]]
    /\ CallStep(r, [calls[r] EXCEPT !.pc = "public"])
    /\ UNCHANGED <<sessions, started, recorded>>

-----------------------------------------------------------------------------
(* login_user                                                              *)

\* The row is there, its password is the one given, it is active.
ReadUser(r) ==
    /\ calls[r].pc = "user"
    /\ \E u \in DOMAIN users :
          /\ SameAccount(u, calls[r]) /\ users[u].is_active
          /\ CallStatement(r, [calls[r] EXCEPT !.user = u, !.pc = "touch"])

\* No such row, another password, or "Account disabilitato": 401.
LoginRefused(r) == calls[r].pc = "user" /\ CallRefused(r, "refused")

Session(q) == [login |-> q.login, user |-> q.user, tenant |-> q.tenant]

\* Mutant: the public transaction commits before the tenant's.
TouchUser_publicFirst(r) ==
    /\ calls[r].pc = "touch"
    /\ \A s \in Requests : calls[s].pc = "commit_login" => calls[s].user # calls[r].user
    /\ sessions' = sessions \cup {Session(calls[r])}
    /\ CallStep(r, [calls[r] EXCEPT !.pc = "commit_login"])
    /\ UNCHANGED <<users, started, recorded>>

\* UPDATE users SET last_login waits for another login's lock on the row; then
\* create_refresh_token adds its row to the public transaction.
TouchUser(r) ==
    /\ calls[r].pc = "touch"
    /\ \A s \in Requests : calls[s].pc = "commit_login" => calls[s].user # calls[r].user
    /\ CallStatement(r, [calls[r] EXCEPT !.pc = "commit_login"])

\* get_tenant_session commits last_login (which holds the login here, NOW() in the code).
CommitLogin(r) ==
    /\ calls[r].pc = "commit_login"
    /\ users' = [users EXCEPT ![calls[r].user].last_login = calls[r].login]
    /\ recorded' = recorded \cup {Session(calls[r])}
    /\ CallStep(r, [calls[r] EXCEPT !.pc = "public"])
    /\ UNCHANGED <<sessions, started>>

\* get_db commits after the handler: for a login, its refresh token.
CommitPublic(r) ==
    /\ calls[r].pc = "public"
    /\ sessions' = IF calls[r].op = "login" THEN sessions \cup {Session(calls[r])} ELSE sessions
    /\ Reply(r, "ok")
    /\ UNCHANGED <<users, started, recorded>>

-----------------------------------------------------------------------------
(* Answers and faults                                                      *)

CallResponds(r) == calls[r].pc = "reply" /\ CallStatement(r, NoCall)

\* A statement or a commit fails: what is not committed is rolled back, 500.
CallFails(r) == calls[r].pc \notin {"idle", "reply"} /\ CallRefused(r, "error")

\* External: no endpoint writes users.is_active, an operator's SQL does.
DisableUser(u) ==
    /\ u \in DOMAIN users
    /\ \A s \in Requests : calls[s].pc = "commit_login" => calls[s].user # u
    /\ users' = [users EXCEPT ![u].is_active = FALSE]
    /\ UNCHANGED <<sessions, calls, started, recorded>>

\* The process dies: both kinds of transactions are rolled back.
Restart ==
    /\ Crash
    /\ calls' = [r \in Requests |-> NoCall]
    /\ UNCHANGED <<users, sessions, started, recorded>>

CallArrivals(r) ==
    \E slug \in {b.slug : b \in Bodies}, email \in Emails :
        \/ \E role \in {x \in roles : x.name \in RoleNames} \cup {None} :
              Register(r, slug, email, role)
        \/ Login(r, slug, email)

Registering(r) ==
    \/ EmailTaken(r)
    \/ RoleMissing(r)
    \/ Checked(r)
    \/ InsertUser(r)
    \/ InsertClash(r)
    \/ CommitUser(r)

LoggingIn(r) ==
    \/ ReadUser(r)
    \/ LoginRefused(r)
    \/ TouchUser(r)
    \/ CommitLogin(r)

CallServe(r) ==
    \/ CallArrivals(r)
    \/ FindTenant(r)
    \/ TenantNotFound(r)
    \/ Registering(r)
    \/ LoggingIn(r)
    \/ CommitPublic(r)
    \/ CallResponds(r)
    \/ CallFails(r)

AccountsNext ==
    /\ \/ \E r \in Requests :
             \/ calls[r].pc = "idle" /\ Serve(r) /\ UNCHANGED accountVars
             \/ rq[r].pc = "idle" /\ CallServe(r) /\ UNCHANGED vars
       \/ \E u \in UserIds : DisableUser(u) /\ UNCHANGED vars
       \/ Restart
    /\ Record

AccountsSpec == AccountsInit /\ [][AccountsNext]_allVars
-----------------------------------------------------------------------------
(* Properties                                                              *)

UserRow == [schema : schemas, tenant_id : DOMAIN tenants, email : Emails,
            role : roles \cup {None}, is_active : BOOLEAN, last_login : 1..started \cup {None}]

\* What a login leaves where it succeeds.
LoginMark == [login : 1..started, user : DOMAIN users, tenant : DOMAIN tenants]

\* Every variable has its type; users live in schemas, tenants and roles that exist.
AccountsTypeOK ==
    /\ TypeOK
    /\ DOMAIN users \subseteq UserIds /\ users \in [DOMAIN users -> UserRow]
    /\ recorded \subseteq LoginMark
    /\ DOMAIN calls = Requests
    /\ \A r \in Requests : calls[r].tenant \in DOMAIN tenants \cup {None}
    /\ started \in 0..MaxLogins

\* An account is in its tenant's schema, with a role of that tenant, and a session is of
\* an account of its own tenant: even where two tenants share a schema, the tenant_id
\* filters keep their accounts apart ("Doppia difesa", models/user.py).
AccountsStayHome ==
    /\ \A u \in DOMAIN users :
          /\ users[u].schema = SchemaOf(users[u].tenant_id)
          /\ users[u].role # None => users[u].role.tenant_id = users[u].tenant_id
    /\ \A s \in sessions : users[s.user].tenant_id = s.tenant

\* One account for an email in a tenant, however many registrations checked it together.
OneAccountPerEmail ==
    \A u, v \in DOMAIN users :
        users[u].tenant_id = users[v].tenant_id /\ users[u].email = users[v].email => u = v

\* An answered registration is stored as it was asked for, and "già registrata in questo
\* tenant" is said only of an email that this tenant, not another in its schema, has.
AnswersAreTrue ==
    \A r \in Requests :
        calls[r].op = "register" /\ calls[r].reply \in {"ok", "taken"} =>
            \E u \in DOMAIN users :
                /\ users[u].tenant_id = calls[r].tenant /\ users[u].email = calls[r].email
                /\ calls[r].reply = "ok" => users[u].role = calls[r].role

\* A login whose session exists has left its mark in last_login of the same account: the
\* two commits of a login may be separated by a failure or a crash in one order only.
LoginRecorded == sessions \subseteq recorded

\* A login that gave a session could have found its tenant and its user active after it
\* had arrived: a deactivation stops every login that begins after its commit.
DeactivationHolds ==
    [][\A s \in sessions' \ sessions : \E r \in Requests :
          calls[r].login = s.login /\ {s.tenant, s.user} \subseteq seen[r]]_allVars
=============================================================================
