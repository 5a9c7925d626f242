----------------------------- MODULE RoleCatalog -----------------------------
(***************************************************************************)
(* Roles and permissions of one tenant, and the claims its users log in    *)
(* with: app/services/permission_service.py, the endpoints of admin.py and *)
(* roles.py that write roles, the claims part of login_user and            *)
(* refresh_tokens, and the guards of rbac.py.                              *)
(*                                                                         *)
(* Every service function opens a tenant session of its own and commits it *)
(* before it returns, so POST /admin/roles is a chain of transactions, and *)
(* a login reads roles and grants in separate statements at READ           *)
(* COMMITTED.  Each statement or transaction is an action.  Roles and      *)
(* permissions are never updated or deleted, which is why the checks       *)
(* inside one transaction cannot go stale and need no step of their own.   *)
(***************************************************************************)
EXTENDS PermissionMatch, FiniteSets

CONSTANTS
    RoleIds,            \* uuids of roles
    AdminId, ViewerId,  \* the two rows create_tenant inserts
    Users, Requests, None,
    Payloads,           \* bodies of POST /admin/roles and POST /roles: name, codenames
    Pairs,              \* (resource, action) the admin endpoints and policies name
    Guarded,            \* codenames a guard may be asked for
    Split(_),           \* what one codename becomes when the legacy column, in which it
                        \* was joined with commas, is split at commas and stripped
    AccessTTL,          \* lifetime of an access token
    MaxTime, MaxTokens  \* bounds on the clock and on the access tokens in use

\* The codenames that leave codenames behind: nothing forbids a comma in one of them.
Listed == {c \in Codenames : Split(c) \subseteq Codenames}

ASSUME CatalogAssumption ==
    /\ "read" \in Segments
    /\ Split(Star) = {Star} /\ Split(<<"read", "*">>) = {<<"read", "*">>}
    /\ AdminId \in RoleIds /\ ViewerId \in RoleIds /\ AdminId # ViewerId
    /\ None \notin RoleIds \cup Users /\ None # "admin"
    /\ AccessTTL \in Nat \ {0} /\ MaxTime \in Nat /\ MaxTokens \in Nat
    /\ Payloads \subseteq [name : STRING, codenames : Seq(Listed)]
    /\ Pairs \subseteq Codenames \X Codenames
    /\ Guarded \subseteq Codenames

VARIABLES
    roles,              \* rows of roles: name, and the list joined in the permissions column
    permissions,        \* rows of permissions, one for each (resource, action)
    role_permissions,   \* the (role, permission) pairs assigned
    policies,           \* rows of policies: role, (resource, action), effect
    account,            \* registered users and the role of each
    sessions,           \* users who hold a refresh token
    tokens,             \* access tokens that have not expired
    rq,                 \* for each slot, the request running in it
    now,
    revoked,            \* history: the pairs some administrator has revoked
    held                \* history: which role gave which codename at what time

stored == <<roles, permissions, role_permissions, policies, account>>
history == <<revoked, held>>
vars == <<stored, sessions, tokens, rq, now, history>>

Idle == [op |-> "none", pc |-> "idle", user |-> None, role |-> None, body |-> None,
         next |-> 1, perm |-> None, effect |-> None, claims |-> {}, base |-> {}, begun |-> 0, reply |-> None]

\* create_tenant has inserted the two system roles; nobody is registered.
Init ==
    /\ roles = [x \in {AdminId, ViewerId} |->
                   IF x = AdminId THEN [name |-> "admin",  csv |-> <<Star>>]
                                  ELSE [name |-> "viewer", csv |-> <<<<"read", "*">>>>]]
    /\ permissions = {}
    /\ role_permissions = {}
    /\ policies = {}
    /\ account = [u \in {} |-> None]
    /\ sessions = {}
    /\ tokens = {}
    /\ rq = [r \in Requests |-> Idle]
    /\ now = 0
    /\ revoked = {}
    /\ held = {<<AdminId, Star, 0>>, <<ViewerId, <<"read", "*">>, 0>>}

-----------------------------------------------------------------------------
(* What a role gives                                                       *)

Roles == DOMAIN roles

Pair(c) == <<Resource(c), Action(c)>>

\* get_role_permissions: the codenames of the permissions assigned to role x.
Granted(x) == {Codename(p[1], p[2]) : p \in {q \in permissions : <<x, q>> \in role_permissions}}

\* The legacy column, split at its commas: those of the join, and those in a codename.
Legacy(x) == UNION {Split(roles[x].csv[i]) : i \in 1..Len(roles[x].csv)}

\* What a login that saw no change would put in the token.
Effective(x) == IF Granted(x) # {} THEN Granted(x) ELSE Legacy(x)

\* A step that changes what roles give, or the time, notes what each gives after it.
Record == held' = held \cup UNION {{<<x, c, now'>> : c \in Effective(x)'} : x \in Roles'}

-----------------------------------------------------------------------------
(* Requests                                                                *)

Busy(r) == rq[r].pc \notin {"idle", "reply"}

Step(r, q) == rq' = [rq EXCEPT ![r] = q]

Answer(r, reply) == Step(r, [rq[r] EXCEPT !.pc = "reply", !.reply = reply])

\* require_role("admin") compares the name in the token.
require_admin(tok) == tok \in tokens /\ tok.role = "admin"

Arrive(r, q) ==
    /\ rq[r].pc = "idle"
    /\ Step(r, q)
    /\ UNCHANGED <<stored, sessions, tokens, now, history>>

\* POST /admin/roles, POST /roles: the role check, then the Groq description.
CreateRoleRequest(r, tok, op, body) ==
    /\ require_admin(tok)
    /\ Arrive(r, [Idle EXCEPT !.op = op, !.pc = "insert", !.body = body])

\* The same with a token of another role: 403.
Forbidden(r, tok) ==
    /\ tok \in tokens /\ tok.role # "admin"
    /\ Arrive(r, [Idle EXCEPT !.op = "create_admin_role", !.pc = "reply",
                              !.reply = "forbidden"])

\* POST and DELETE /admin/roles/{role}/permissions, POST /admin/permissions.
GrantRequest(r, tok, op, x, p) ==
    /\ require_admin(tok)
    /\ Arrive(r, [Idle EXCEPT !.op = op, !.role = x, !.perm = p,
                              !.pc = IF op = "create_permission" THEN "catalogue" ELSE op])

\* Mutant: the unique constraint on names is missing.
Taken_never(name) == FALSE

\* uq_roles_tenant_name has the name.
Taken(name) == \E x \in Roles : roles[x].name = name

\* INSERT INTO roles and its commit, all codenames in the legacy column.
InsertRole(r) ==
    /\ rq[r].pc = "insert"
    /\ ~Taken(rq[r].body.name)
    /\ \E x \in RoleIds \ Roles :
          /\ roles' = [y \in Roles \cup {x} |->
                          IF y = x THEN [name |-> rq[r].body.name, csv |-> rq[r].body.codenames]
                          ELSE roles[y]]
          /\ Step(r, IF rq[r].op = "create_role"
                     THEN [rq[r] EXCEPT !.role = x, !.pc = "reply", !.reply = "created"]
                     ELSE [rq[r] EXCEPT !.role = x, !.pc = "codename"])
    /\ UNCHANGED <<permissions, role_permissions, policies, account, sessions, tokens, now, revoked>>
    /\ Record

\* uq_roles_tenant_name: IntegrityError, 500.
NameTaken(r) ==
    /\ rq[r].pc = "insert"
    /\ Taken(rq[r].body.name)
    /\ Answer(r, "error")
    /\ UNCHANGED <<stored, sessions, tokens, now, history>>

Codenames_of(r) == rq[r].body.codenames

\* The next codename has no colon: 400, with what was committed before it.
BadCodename(r) ==
    /\ rq[r].pc = "codename" /\ rq[r].next <= Len(Codenames_of(r))
    /\ ~HasColon(Codenames_of(r)[rq[r].next])
    /\ Answer(r, "bad_request")
    /\ UNCHANGED <<stored, sessions, tokens, now, history>>

\* create_permission: the description, then an upsert on (resource, action).
CreatePermission(r) ==
    /\ \/ /\ rq[r].pc = "codename" /\ rq[r].next <= Len(Codenames_of(r))
          /\ LET c == Codenames_of(r)[rq[r].next]
             IN  /\ HasColon(c)
                 /\ permissions' = permissions \cup {Pair(c)}
                 /\ Step(r, [rq[r] EXCEPT !.pc = "assign", !.perm = Pair(c)])
       \/ /\ rq[r].pc = "catalogue"
          /\ permissions' = permissions \cup {rq[r].perm}
          /\ Answer(r, "created")
    /\ UNCHANGED <<roles, role_permissions, policies, account, sessions, tokens, now, history>>

\* Mutant: a permission that is already in the role ends the loop.
AssignPermission_stopsAtDuplicate(r) ==
    /\ rq[r].pc = "assign"
    /\ rq[r].role \in Roles /\ rq[r].perm \in permissions
    /\ role_permissions' = role_permissions \cup {<<rq[r].role, rq[r].perm>>}
    /\ IF rq[r].op = "assign" \/ <<rq[r].role, rq[r].perm>> \in role_permissions
       THEN Answer(r, IF rq[r].op = "assign" THEN "assigned" ELSE "created")
       ELSE Step(r, [rq[r] EXCEPT !.pc = "codename", !.next = @ + 1])
    /\ UNCHANGED <<roles, permissions, policies, account, sessions, tokens, now, revoked>>
    /\ Record

\* Mutant: the permission is not looked up before the INSERT.
AssignPermission_unchecked(r) ==
    /\ rq[r].pc = "assign"
    /\ rq[r].role \in Roles
    /\ role_permissions' = role_permissions \cup {<<rq[r].role, rq[r].perm>>}
    /\ IF rq[r].op = "assign"
       THEN Answer(r, "assigned")
       ELSE Step(r, [rq[r] EXCEPT !.pc = "codename", !.next = @ + 1])
    /\ UNCHANGED <<roles, permissions, policies, account, sessions, tokens, now, revoked>>
    /\ Record

\* assign_permission_to_role: ON CONFLICT DO NOTHING.
AssignPermission(r) ==
    /\ rq[r].pc = "assign"
    /\ rq[r].role \in Roles /\ rq[r].perm \in permissions
    /\ role_permissions' = role_permissions \cup {<<rq[r].role, rq[r].perm>>}
    /\ IF rq[r].op = "assign"
       THEN Answer(r, "assigned")
       ELSE Step(r, [rq[r] EXCEPT !.pc = "codename", !.next = @ + 1])
    /\ UNCHANGED <<roles, permissions, policies, account, sessions, tokens, now, revoked>>
    /\ Record

\* The role or the permission is not there: 404.
AssignMissing(r) ==
    /\ rq[r].pc = "assign"
    /\ rq[r].role \notin Roles \/ rq[r].perm \notin permissions
    /\ Answer(r, "not_found")
    /\ UNCHANGED <<stored, sessions, tokens, now, history>>

\* The loop is over: get_role_with_permissions reads the role back, 201.
Finish(r) ==
    /\ rq[r].pc = "codename" /\ rq[r].next > Len(Codenames_of(r))
    /\ Answer(r, "created")
    /\ UNCHANGED <<stored, sessions, tokens, now, history>>

\* revoke_permission_from_role: DELETE ... RETURNING, 404 when it removed nothing.
RevokePermission(r) ==
    /\ rq[r].pc = "revoke"
    /\ LET pair == <<rq[r].role, rq[r].perm>>
       IN  /\ role_permissions' = role_permissions \ {pair}
           /\ IF pair \in role_permissions
              THEN Answer(r, "revoked") /\ revoked' = revoked \cup {pair}
              ELSE Answer(r, "not_found") /\ UNCHANGED revoked
    /\ UNCHANGED <<roles, permissions, policies, account, sessions, tokens, now>>
    /\ Record

-----------------------------------------------------------------------------
(* Policies                                                                *)

\* POST /roles/{role_id}/policies, whose body names the role of its URL.
PolicyRequest(r, tok, x, p, effect) ==
    /\ require_admin(tok)
    /\ Arrive(r, [Idle EXCEPT !.op = "policy", !.pc = "role", !.role = x, !.perm = p,
                              !.effect = effect])

\* SELECT name FROM roles; then generate_policy_description, which always answers.
LookUpRole(r) ==
    /\ rq[r].pc = "role"
    /\ IF rq[r].role \in Roles THEN Step(r, [rq[r] EXCEPT !.pc = "policy"])
                               ELSE Answer(r, "not_found")
    /\ UNCHANGED <<stored, sessions, tokens, now, history>>

\* uq_policies_tenant_role_res_act
SameKey(a, b) == a.role = b.role /\ a.perm = b.perm

Policy(q) == [role |-> q.role, perm |-> q.perm, effect |-> q.effect]

\* INSERT INTO policies and its commit, or an IntegrityError, 500.
InsertPolicy(r) ==
    /\ rq[r].pc = "policy"
    /\ IF \E q \in policies : SameKey(q, Policy(rq[r]))
       THEN Answer(r, "error") /\ UNCHANGED policies
       ELSE Answer(r, "created") /\ policies' = policies \cup {Policy(rq[r])}
    /\ UNCHANGED <<roles, permissions, role_permissions, account, sessions, tokens, now, history>>

-----------------------------------------------------------------------------
(* Accounts and tokens                                                     *)

\* register_user with the optional role_id of its body.
Register(u, x) ==
    /\ u \in Users \ DOMAIN account
    /\ x \in Roles \cup {None}
    /\ account' = [v \in DOMAIN account \cup {u} |-> IF v = u THEN x ELSE account[v]]
    /\ UNCHANGED <<roles, permissions, role_permissions, policies, sessions, tokens, rq, now, history>>

\* login_user has read the user, the role and its name, and accepted the password.
Login(r, u) ==
    /\ u \in DOMAIN account
    /\ Arrive(r, [Idle EXCEPT !.op = "login", !.user = u, !.role = account[u], !.begun = now,
                              !.pc   = IF account[u] = None THEN "issue" ELSE "grants",
                              !.base = {p \in permissions : <<account[u], p>> \in role_permissions}])

\* Mutant: the legacy column comes first.
LoadGrants_legacyFirst(r) ==
    /\ rq[r].pc = "grants"
    /\ LET codenames == IF Legacy(rq[r].role) # {} THEN Legacy(rq[r].role)
                                                   ELSE Granted(rq[r].role)
       IN  Step(r, [rq[r] EXCEPT !.claims = codenames, !.pc = "issue"])
    /\ UNCHANGED <<stored, sessions, tokens, now, history>>

\* SELECT codename ... JOIN role_permissions.
LoadGrants(r) ==
    /\ rq[r].pc = "grants"
    /\ LET codenames == Granted(rq[r].role)
       IN  Step(r, [rq[r] EXCEPT !.claims = codenames,
                                 !.pc = IF codenames = {} THEN "legacy" ELSE "issue"])
    /\ UNCHANGED <<stored, sessions, tokens, now, history>>

\* Mutant: the codenames of the catalogue stand in for an empty list.
LoadLegacy_catalogue(r) ==
    /\ rq[r].pc = "legacy"
    /\ Step(r, [rq[r] EXCEPT !.claims = {Codename(p[1], p[2]) : p \in permissions},
                             !.pc = "issue"])
    /\ UNCHANGED <<stored, sessions, tokens, now, history>>

\* None assigned: the permissions column of the role.
LoadLegacy(r) ==
    /\ rq[r].pc = "legacy"
    /\ Step(r, [rq[r] EXCEPT !.claims = Legacy(rq[r].role), !.pc = "issue"])
    /\ UNCHANGED <<stored, sessions, tokens, now, history>>

AccessToken(u, kind, x, claims, base, begun) ==
    [user |-> u, kind |-> kind, role |-> IF x = None THEN None ELSE roles[x].name,
     permissions |-> claims, base |-> base, begun |-> begun, iat |-> now,
     exp |-> now + AccessTTL]

\* create_access_token, and the answer of the login.
IssueAccess(r) ==
    /\ rq[r].pc = "issue"
    /\ Cardinality(tokens) < MaxTokens
    /\ tokens' = tokens \cup {AccessToken(rq[r].user, "login", rq[r].role, rq[r].claims,
                                          rq[r].base, rq[r].begun)}
    /\ sessions' = sessions \cup {rq[r].user}
    /\ Step(r, Idle)
    /\ UNCHANGED <<stored, now, history>>

\* refresh_tokens makes its access token with neither role nor permissions.
IssueRefreshed(u) ==
    /\ u \in sessions
    /\ Cardinality(tokens) < MaxTokens
    /\ tokens' = tokens \cup {AccessToken(u, "refresh", None, {}, {}, now)}
    /\ UNCHANGED <<stored, sessions, rq, now, history>>

-----------------------------------------------------------------------------
(* Answers, faults, time                                                   *)

Respond(r) ==
    /\ rq[r].pc = "reply"
    /\ Step(r, Idle)
    /\ UNCHANGED <<stored, sessions, tokens, now, history>>

\* The database fails the transaction at hand; those before it stay committed.
Fail(r) ==
    /\ Busy(r)
    /\ Answer(r, "error")
    /\ UNCHANGED <<stored, sessions, tokens, now, history>>

Crash ==
    /\ rq' = [r \in Requests |-> Idle]
    /\ UNCHANGED <<stored, sessions, tokens, now, history>>

\* decode_token refuses a token from its exp on.
Tick ==
    /\ now < MaxTime
    /\ now' = now + 1
    /\ tokens' = {tok \in tokens : now' < tok.exp}
    /\ UNCHANGED <<stored, sessions, rq, revoked>>
    /\ Record

-----------------------------------------------------------------------------
Arrivals(r) ==
    \/ \E tok \in tokens, body \in Payloads, op \in {"create_admin_role", "create_role"} :
          CreateRoleRequest(r, tok, op, body)
    \/ \E tok \in tokens : Forbidden(r, tok)
    \/ \E tok \in tokens, x \in RoleIds, p \in Pairs, op \in {"assign", "revoke"} :
          GrantRequest(r, tok, op, x, p)
    \/ \E tok \in tokens, p \in Pairs : GrantRequest(r, tok, "create_permission", None, p)
    \/ \E tok \in tokens, x \in RoleIds, p \in Pairs, effect \in {"allow", "deny"} :
          PolicyRequest(r, tok, x, p, effect)
    \/ \E u \in Users : Login(r, u)

Progress(r) ==
    \/ InsertRole(r)
    \/ NameTaken(r)
    \/ BadCodename(r)
    \/ CreatePermission(r)
    \/ AssignPermission(r)
    \/ AssignMissing(r)
    \/ Finish(r)
    \/ RevokePermission(r)
    \/ LookUpRole(r)
    \/ InsertPolicy(r)
    \/ LoadGrants(r)
    \/ LoadLegacy(r)
    \/ IssueAccess(r)
    \/ Respond(r)
    \/ Fail(r)

Next ==
    \/ \E r \in Requests : Arrivals(r) \/ Progress(r)
    \/ \E u \in Users, x \in RoleIds \cup {None} : Register(u, x)
    \/ \E u \in Users : IssueRefreshed(u)
    \/ Crash
    \/ Tick

Spec == Init /\ [][Next]_vars
-----------------------------------------------------------------------------
(* Invariants                                                              *)

Names == {"admin", "viewer"} \cup {body.name : body \in Payloads}
Row == [name : Names, csv : Seq(Listed)]
Assignments == Roles \X permissions

\* Every variable has its type; every assignment names a role and a permission that
\* exist (the foreign keys), and so does every account.
TypeOK ==
    /\ Roles \subseteq RoleIds /\ \A x \in Roles : roles[x] \in Row
    /\ permissions \subseteq Codenames \X Codenames
    /\ role_permissions \subseteq Assignments
    /\ policies \subseteq [role : Roles, perm : Codenames \X Codenames, effect : {"allow", "deny"}]
    /\ DOMAIN account \subseteq Users
    /\ \A u \in DOMAIN account : account[u] \in Roles \cup {None}
    /\ sessions \subseteq DOMAIN account
    /\ \A tok \in tokens : /\ tok.user \in DOMAIN account
                           /\ tok.permissions \subseteq Codenames
                           /\ tok.begun <= tok.iat /\ tok.iat <= now /\ now < tok.exp
    /\ DOMAIN rq = Requests
    /\ now \in Nat

Login_tokens == {tok \in tokens : tok.kind = "login"}

\* An administrator's 201 for POST /admin/roles means that the role has every
\* permission asked for, but those another administrator has revoked meanwhile:
\* however many requests assign, revoke and create the same permissions at once.
CompletedRoleIsComplete ==
    \A r \in Requests :
        rq[r].op = "create_admin_role" /\ rq[r].pc = "reply" /\ rq[r].reply = "created" =>
            \A i \in 1..Len(Codenames_of(r)) :
                <<rq[r].role, Pair(Codenames_of(r)[i])>> \in role_permissions \cup revoked

\* A permission that was assigned before a login began, and was not revoked, is in its
\* token ("assegnato dopo il login precedente compare nel nuovo JWT").
GrantsAppear ==
    \A tok \in Login_tokens : \A p \in tok.base :
        <<account[tok.user], p>> \in revoked \/ Codename(p[1], p[2]) \in tok.permissions

\* Each claim of a token in use was given by its user's role at some time between the
\* start of that login and the issue: two statements read at different moments never
\* add up to rights the role did not give.
ClaimsWereHeld ==
    \A tok \in tokens : \A c \in tok.permissions :
        \E d \in tok.begun..tok.iat : <<account[tok.user], c, d>> \in held

\* The guard compares a name, and two endpoints create roles under names they do not
\* check: still, who passes for "admin" has the role create_tenant made, and no account
\* can be given another role of that name.
AdminIsTheSystemRole ==
    /\ \A x \in Roles : roles[x].name = "admin" => x = AdminId
    /\ \A tok \in tokens : tok.role = "admin" => account[tok.user] = AdminId

\* require_permission: one claim allows what the endpoint requires.
require_permission(claims, required) == \E c \in claims : Allows(c, required)

\* A guard lets a token through to exactly the codenames its claims stand for, in the
\* language that the table in the docstring of _has_permission describes.
GuardsFollowTable(universe) ==
    \A tok \in tokens :
        {c \in universe : require_permission(tok.permissions, c)} =
            universe \cap UNION {StandsFor(p, universe) : p \in tok.permissions}

\* The same of the codenames that guards are asked for: rbac.py compares what an endpoint
\* requires with the claims a login put together from lists, grants and legacy columns.
AgreesWithTable == GuardsFollowTable(Guarded)

-----------------------------------------------------------------------------
(* What the documentation says                                             *)

\* "Permesso revocato con successo": the role does not give it any more, unless it was
\* assigned again (endpoints/admin.py).
RevokedMeansRevoked ==
    \A r \in Requests :
        rq[r].pc = "reply" /\ rq[r].reply = "revoked" =>
            \/ <<rq[r].role, rq[r].perm>> \in role_permissions
            \/ Codename(rq[r].perm[1], rq[r].perm[2]) \notin Effective(rq[r].role)
=============================================================================
