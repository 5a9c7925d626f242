---------------------------- MODULE Accounts_proofs ----------------------------
(* Proofs about Accounts for every value of its constants.                   *)
EXTENDS AccountsDirectory, Tenants_proofs

-----------------------------------------------------------------------------
(* Accounts implements Tenants                                               *)

\* Every step is a step of Tenants or leaves its variables alone.
LEMMA TenantsStep == AccountsNext => [Next]_vars
  <1> SUFFICES ASSUME AccountsNext PROVE [Next]_vars
    OBVIOUS
  <1>1. Restart => Crash
    BY DEF Restart
  <1> QED  BY <1>1 DEF AccountsNext, Next

\* With registrations and logins in its slots, the tenants' part still is what Tenants
\* specifies: whatever is proved of it holds here too.
THEOREM ImplementsTenants == AccountsSpec => Spec
  <1>1. AccountsInit => Init
    BY DEF AccountsInit
  <1>2. [AccountsNext]_allVars => [Next]_vars
    BY TenantsStep DEF allVars, vars
  <1> QED  BY <1>1, <1>2, PTL DEF AccountsSpec, Spec

-----------------------------------------------------------------------------
(* The inductive invariant                                                   *)

Slugs == {b.slug : b \in Bodies}

\* What a slot may hold.  Roles, tenants and users are those that exist now.
CallType ==
    [op : {"none", "register", "login"},
     pc : {"idle", "tenant", "check", "insert_user", "commit_user", "user", "touch",
           "commit_login", "public", "reply"},
     slug : Slugs \cup {None}, email : Emails \cup {None},
     role : roles \cup {None}, login : Nat \cup {None}, tenant : DOMAIN tenants \cup {None},
     user : UserIds \cup {None},
     reply : {None, "ok", "taken", "refused", "no_role", "error"}]

\* The account an answered registration is about.
Stored(q) ==
    \E u \in DOMAIN users :
        /\ users[u].tenant_id = q.tenant /\ users[u].email = q.email
        /\ q.reply # "taken" => users[u].role = q.role

\* What holds of a registration, by how far it is.
SoundRegistration(q) ==
    /\ q.pc \in {"insert_user", "commit_user"} =>
          (q.role # None => q.role.tenant_id = q.tenant)
    /\ q.pc = "commit_user" =>
          /\ q.user \in UserIds \ DOMAIN users
          /\ \A u \in DOMAIN users : ~SameAccount(u, q)
    /\ q.pc = "public" \/ q.reply \in {"ok", "taken"} => Stored(q)

\* What holds of a login, by how far it is; look is what it could have found active.
SoundLogin(q, look) ==
    /\ q.pc # "reply" => q.login \in 1..started
    /\ q.pc \in {"user", "touch", "commit_login", "public"} =>
          tenants[q.tenant].slug = q.slug /\ q.tenant \in look
    /\ q.pc \in {"touch", "commit_login", "public"} =>
          q.user \in DOMAIN users /\ users[q.user].tenant_id = q.tenant /\ q.user \in look
    /\ q.pc = "public" => Session(q) \in recorded

SoundCall(q, look) ==
    /\ q \in CallType
    /\ q.op = "none" => q.pc \in {"idle", "reply"}
    /\ q.pc = "idle" => q.op = "none"
    /\ q.pc # "reply" => q.reply = None
    /\ q.pc \notin {"idle", "reply"} => q.email \in Emails
    /\ q.pc \notin {"idle", "tenant", "reply"} => q.tenant \in DOMAIN tenants
    /\ q.pc \in {"check", "insert_user", "commit_user"} => q.op = "register"
    /\ q.pc \in {"user", "touch", "commit_login"} => q.op = "login"
    /\ q.op = "register" => SoundRegistration(q)
    /\ q.op = "login" => SoundLogin(q, look)

\* Two registrations about to commit enter different rows, for different accounts.
ApartCalls(p, q) ==
    p.pc = "commit_user" /\ q.pc = "commit_user" =>
        p.user # q.user /\ ~(p.tenant = q.tenant /\ p.email = q.email)

\* What holds of the rows.
RowsSound ==
    /\ DOMAIN users \subseteq UserIds /\ users \in [DOMAIN users -> UserRow]
    /\ recorded \subseteq LoginMark
    /\ started \in 0..MaxLogins
    /\ AccountsStayHome
    /\ OneAccountPerEmail
    /\ LoginRecorded

AInv ==
    /\ IInv
    /\ RowsSound
    /\ DOMAIN calls = Requests
    /\ \A r \in Requests : SoundCall(calls[r], seen[r])
    /\ \A r, s \in Requests : r # s => ApartCalls(calls[r], calls[s])

-----------------------------------------------------------------------------
(* What a step does to what is there: nothing disappears                     *)

TenantsGrow ==
    /\ \A t \in DOMAIN tenants :
          t \in DOMAIN tenants' /\ SameNames(tenants'[t], tenants[t])
    /\ schemas \subseteq schemas'
    /\ roles \subseteq roles'

UsersGrow ==
    /\ \A u \in DOMAIN users :
          /\ u \in DOMAIN users'
          /\ users'[u].schema = users[u].schema
          /\ users'[u].tenant_id = users[u].tenant_id
          /\ users'[u].email = users[u].email
          /\ users'[u].role = users[u].role
    /\ started' \in Nat /\ started \in Nat /\ started <= started'
    /\ recorded \subseteq recorded'

LEMMA GrowsInTenants == IInv /\ [Next]_vars => TenantsGrow
  <1> SUFFICES ASSUME IInv, [Next]_vars PROVE TenantsGrow
    OBVIOUS
  <1>1. UNCHANGED <<tenants, schemas, roles>> => TenantsGrow
    BY DEF TenantsGrow, SameNames
  <1>2. ASSUME NEW r \in Requests, CommitCreate(r) PROVE TenantsGrow
    <2>1. rq[r].id \notin DOMAIN tenants
      BY <1>2 DEF CommitCreate, IInv, Sound, Making
    <2>2. \A t \in DOMAIN tenants : t \in DOMAIN tenants' /\ tenants'[t] = tenants[t]
      BY <1>2, <2>1 DEF CommitCreate
    <2> QED  BY <1>2, <2>2 DEF CommitCreate, TenantsGrow, SameNames
  <1>3. ASSUME NEW r \in Requests, CommitPatch(r) PROVE TenantsGrow
    <2>1. rq[r].id \in DOMAIN tenants /\ SameNames(rq[r].row, tenants[rq[r].id])
      BY <1>3 DEF CommitPatch, IInv, Sound, Changing
    <2> QED  BY <1>1, <1>3, <2>1 DEF CommitPatch, TenantsGrow, SameNames, IInv, TypeOK
  <1>4. ASSUME NEW r \in Requests, Serve(r), ~CommitCreate(r), ~CommitPatch(r)
        PROVE  UNCHANGED <<tenants, schemas, roles>>
    <2>1. CASE Arrivals(r)
      BY <2>1 DEF Arrivals, CreateRequest, PatchRequest, Arrive
    <2>2. CASE Creating(r)
      BY <1>4, <2>2 DEF Creating, InsertTenant, InsertRefused, SchemaExists, SchemaMissing,
          CreateSchema, SchemaRace, CreateTables, Statement, Refused
    <2>3. CASE Patching(r)
      BY <1>4, <2>3 DEF Patching, LoadTenant, TenantMissing, UpdatePlan, SetActive, Flush,
          Statement, Refused
    <2>4. CASE Respond(r) \/ Fail(r)
      BY <2>4 DEF Respond, Fail, Statement, Refused
    <2> QED  BY <1>4, <2>1, <2>2, <2>3, <2>4 DEF Serve
  <1>5. CASE Crash
    BY <1>1, <1>5 DEF Crash
  <1>6. CASE UNCHANGED vars
    BY <1>1, <1>6 DEF vars
  <1> QED  BY <1>1, <1>2, <1>3, <1>4, <1>5, <1>6 DEF Next
-----------------------------------------------------------------------------
(* Growth, and what it keeps                                                 *)

LEMMA SchemaOfKept ==
    ASSUME TenantsGrow, NEW t \in DOMAIN tenants
    PROVE  SchemaOf(t)' = SchemaOf(t)
  BY DEF TenantsGrow, SameNames, SchemaOf, Physical

LEMMA SchemaThere ==
    ASSUME IInv, NEW t \in DOMAIN tenants
    PROVE  SchemaOf(t) \in schemas
  BY DEF IInv, HomeReady, SchemaOf

\* Record adds to what a login could have found, as long as the login lasts.
LEMMA Seen ==
    ASSUME Record, NEW r \in Requests, calls'[r].login # None
    PROVE  /\ seen[r] \subseteq seen'[r]
           /\ \A t \in DOMAIN tenants' :
                 tenants'[t].slug = calls'[r].slug /\ tenants'[t].is_active => t \in seen'[r]
           /\ \A u \in DOMAIN users' :
                 /\ users'[u].tenant_id \in DOMAIN tenants'
                 /\ tenants'[users'[u].tenant_id].slug = calls'[r].slug
                 /\ users'[u].email = calls'[r].email
                 /\ users'[u].is_active
                 => u \in seen'[r]
  <1>1. seen'[r] = seen[r] \cup Found(calls[r])'
    BY DEF Record
  <1> QED  BY <1>1 DEF Found

\* A call that does not move stays sound when tables grow, if the row it is about to
\* enter is still a new one.
LEMMA OthersSound ==
    ASSUME AInv, TenantsGrow, UsersGrow, Record, NEW s \in Requests, calls'[s] = calls[s],
           calls[s].pc = "commit_user" =>
               /\ calls[s].user \notin DOMAIN users'
               /\ \A u \in DOMAIN users' :
                     u \in DOMAIN users \/ ~SameAccount(u, calls[s])'
    PROVE  SoundCall(calls[s], seen[s])'
  <1> DEFINE q == calls[s]
  <1>1. SoundCall(q, seen[s])
    BY DEF AInv
  <1>2. (q \in CallType)'
    <2>1. /\ roles \cup {None} \subseteq roles' \cup {None}
          /\ DOMAIN tenants \cup {None} \subseteq DOMAIN tenants' \cup {None}
      BY DEF TenantsGrow
    <2>2. q \in CallType
      BY <1>1 DEF SoundCall
    <2>3. calls[s] \in CallType'
      BY <2>1, <2>2 DEF CallType
    <2> QED  BY <2>3
  <1>3. (q.op = "register" => SoundRegistration(q))'
    <2> SUFFICES ASSUME q.op = "register" PROVE SoundRegistration(q)'
      OBVIOUS
    <2>1. SoundRegistration(q)
      BY <1>1 DEF SoundCall
    <2>2. Stored(q) => Stored(q)'
      BY DEF Stored, UsersGrow
    <2>3. ASSUME q.pc = "commit_user", NEW u \in DOMAIN users'
          PROVE  ~SameAccount(u, q)'
      <3>1. CASE u \in DOMAIN users
        <4>1. ~SameAccount(u, q) /\ q.tenant \in DOMAIN tenants
          BY <1>1, <2>1, <2>3, <3>1 DEF SoundCall, SoundRegistration
        <4>2. SchemaOf(q.tenant)' = SchemaOf(q.tenant)
          BY <4>1, SchemaOfKept
        <4> QED  BY <3>1, <4>1, <4>2 DEF SameAccount, UsersGrow
      <3> QED  BY <2>3, <3>1
    <2> QED  BY <2>1, <2>2, <2>3 DEF SoundRegistration
  <1>4. (q.op = "login" => SoundLogin(q, seen[s]))'
    <2> SUFFICES ASSUME q.op = "login" PROVE SoundLogin(q, seen[s])'
      OBVIOUS
    <2>1. SoundLogin(q, seen[s])
      BY <1>1 DEF SoundCall
    <2>2. CASE q.pc = "reply"
      BY <2>2 DEF SoundLogin
    <2>3. CASE q.pc # "reply"
      <3>1. q.login \in 1..started /\ q.login # None
        BY <2>1, <2>3, AccountsAssumption DEF SoundLogin
      <3>2. seen[s] \subseteq seen'[s]
        BY <3>1, Seen
      <3>3. q.login \in 1..started'
        BY <3>1 DEF UsersGrow
      <3>4. q.pc \in {"user", "touch", "commit_login", "public"} =>
               q.tenant \in DOMAIN tenants /\ tenants'[q.tenant].slug = q.slug
        BY <1>1, <2>1 DEF SoundCall, SoundLogin, TenantsGrow, SameNames
      <3> QED  BY <2>1, <3>2, <3>3, <3>4 DEF SoundLogin, UsersGrow
    <2> QED  BY <2>2, <2>3
  <1> QED  BY <1>1, <1>2, <1>3, <1>4 DEF SoundCall, TenantsGrow

\* Rows keep what holds of them while tenants grow around them.
LEMMA RowsKept ==
    ASSUME AInv, TenantsGrow, UNCHANGED <<users, sessions, recorded>>,
           started \in Nat, started' \in 0..MaxLogins, started <= started'
    PROVE  RowsSound'
  <1>1. users \in [DOMAIN users -> UserRow] /\ DOMAIN users \subseteq UserIds
    BY DEF AInv, RowsSound
  <1>2. UserRow \subseteq UserRow'
    <2>1. 1..started \subseteq 1..started'
      OBVIOUS
    <2>2. DOMAIN tenants \subseteq DOMAIN tenants'
      BY DEF TenantsGrow
    <2> QED  BY <2>1, <2>2 DEF UserRow, TenantsGrow
  <1>3. (DOMAIN users \subseteq UserIds /\ users \in [DOMAIN users -> UserRow])'
    BY <1>1, <1>2
  <1>4. (recorded \subseteq LoginMark)'
    <2>1. recorded \subseteq LoginMark
      BY DEF AInv, RowsSound
    <2>2. DOMAIN tenants \subseteq DOMAIN tenants' /\ 1..started \subseteq 1..started'
      BY DEF TenantsGrow
    <2>3. LoginMark \subseteq LoginMark'
      BY <2>2 DEF LoginMark
    <2> QED  BY <2>1, <2>3
  <1>5. AccountsStayHome'
    <2>1. \A u \in DOMAIN users : SchemaOf(users[u].tenant_id)' = SchemaOf(users[u].tenant_id)
      BY <1>1, SchemaOfKept DEF UserRow
    <2> QED  BY <2>1 DEF AccountsStayHome, AInv, RowsSound
  <1>6. OneAccountPerEmail' /\ LoginRecorded'
    BY DEF AInv, RowsSound, OneAccountPerEmail, LoginRecorded
  <1> QED  BY <1>3, <1>4, <1>5, <1>6 DEF RowsSound

\* A statement that writes no row: the call that makes it has to be sound after it.
LEMMA OwnStatement ==
    ASSUME AInv, UNCHANGED vars, Record, NEW r \in Requests, NEW q, CallStatement(r, q),
           SoundCall(q, seen'[r]),
           \A s \in Requests \ {r} : ApartCalls(q, calls[s])
    PROVE  AInv'
  <1>1. /\ DOMAIN calls' = Requests /\ calls'[r] = q
        /\ \A s \in Requests \ {r} : calls'[s] = calls[s]
    BY DEF AInv, CallStatement, CallStep
  <1>2. IInv'
    BY StepKeeps DEF AInv
  <1>3. TenantsGrow
    BY GrowsInTenants DEF AInv
  <1>4. UNCHANGED <<users, sessions, started, recorded>> /\ started \in 0..MaxLogins
    BY DEF CallStatement, AInv, RowsSound
  <1>5. started \in Nat /\ UsersGrow
    BY <1>4, AccountsAssumption DEF UsersGrow
  <1>6. RowsSound'
    BY <1>3, <1>4, <1>5, RowsKept
  <1>7. \A s \in Requests \ {r} : SoundCall(calls[s], seen[s])'
    <2> SUFFICES ASSUME NEW s \in Requests \ {r} PROVE SoundCall(calls[s], seen[s])'
      OBVIOUS
    <2>1. calls[s].pc = "commit_user" => calls[s].user \notin DOMAIN users
      BY DEF AInv, SoundCall, SoundRegistration
    <2> QED  BY <1>1, <1>3, <1>4, <1>5, <2>1, OthersSound
  <1>8. SoundCall(calls[r], seen[r])'
    BY <1>1, <1>4 DEF SoundCall, CallType, SoundRegistration, SoundLogin, Stored, SameAccount,
        SchemaOf, vars
  <1>9. \A s, t \in Requests : s # t => ApartCalls(calls[s], calls[t])'
    BY <1>1 DEF AInv, ApartCalls
  <1> QED  BY <1>1, <1>2, <1>6, <1>7, <1>8, <1>9 DEF AInv
-----------------------------------------------------------------------------
(* One lemma per kind of step: statements                                    *)

\* A call that is over holds nothing.
LEMMA NoCallSound ==
    ASSUME NEW look
    PROVE  /\ SoundCall(NoCall, look)
           /\ \A reply \in {"ok", "taken", "refused", "no_role", "error"} :
                 SoundCall([NoCall EXCEPT !.pc = "reply", !.reply = reply], look)
           /\ \A q : ApartCalls(NoCall, q)
           /\ \A reply, q : ApartCalls([NoCall EXCEPT !.pc = "reply", !.reply = reply], q)
  <1>1. NoCall \in CallType
    BY DEF NoCall, CallType
  <1>2. \A reply \in {"ok", "taken", "refused", "no_role", "error"} :
           [NoCall EXCEPT !.pc = "reply", !.reply = reply] \in CallType
    BY DEF NoCall, CallType
  <1> QED  BY <1>1, <1>2 DEF SoundCall, ApartCalls, NoCall

LEMMA CallRefusedKeeps ==
    ASSUME AInv, UNCHANGED vars, Record, NEW r \in Requests,
           NEW reply \in {"refused", "no_role", "error"}, CallRefused(r, reply)
    PROVE  AInv'
  <1> DEFINE q == [NoCall EXCEPT !.pc = "reply", !.reply = reply]
  <1>1. CallStatement(r, q) /\ SoundCall(q, seen'[r]) /\ \A s : ApartCalls(q, s)
    BY NoCallSound DEF CallRefused
  <1> HIDE DEF q
  <1> QED  BY <1>1, OwnStatement

LEMMA RegisterKeeps ==
    ASSUME AInv, UNCHANGED vars, Record, NEW r \in Requests, NEW slug \in Slugs,
           NEW email \in Emails, NEW role \in roles \cup {None}, Register(r, slug, email, role)
    PROVE  AInv'
  <1> DEFINE q == [NoCall EXCEPT !.op = "register", !.pc = "tenant", !.slug = slug,
                                 !.email = email, !.role = role]
  <1>1. CallStatement(r, q)
    BY DEF Register
  <1>2. q \in CallType /\ q.op = "register" /\ q.pc = "tenant" /\ q.reply = None
        /\ q.email \in Emails
    BY DEF NoCall, CallType
  <1> HIDE DEF q
  <1>3. SoundCall(q, seen'[r])
    BY <1>2, AccountsAssumption DEF SoundCall, SoundRegistration
  <1> QED  BY <1>1, <1>2, <1>3, OwnStatement DEF ApartCalls

LEMMA FindTenantKeeps ==
    ASSUME AInv, UNCHANGED vars, Record, NEW r \in Requests, FindTenant(r)
    PROVE  AInv'
  <1>1. PICK t \in BySlug(calls[r].slug) :
           CallStatement(r, [calls[r] EXCEPT !.tenant = t,
               !.pc = IF calls[r].op = "login" THEN "user" ELSE "check"])
    BY DEF FindTenant
  <1> DEFINE p == calls[r]
             next == IF p.op = "login" THEN "user" ELSE "check"
             q == [p EXCEPT !.tenant = t, !.pc = next]
  <1>2. /\ p \in CallType /\ p.pc = "tenant" /\ p.op \in {"register", "login"}
        /\ p.email \in Emails /\ p.reply = None
        /\ p.op = "login" => p.login \in 1..started
    BY DEF FindTenant, AInv, SoundCall, SoundLogin, CallType
  <1>3. t \in DOMAIN tenants /\ tenants[t].slug = p.slug /\ tenants[t].is_active
    BY DEF BySlug
  <1>4. /\ q \in CallType /\ q.op = p.op /\ q.tenant = t /\ q.email = p.email /\ q.slug = p.slug
        /\ q.pc = next /\ q.reply = None /\ q.login = p.login
    <2>1. next \in {"user", "check"}
      OBVIOUS
    <2> HIDE DEF next, p
    <2>2. q \in CallType
      <3>1. t \in DOMAIN tenants \cup {None} /\ p \in CallType
        BY <1>2, <1>3
      <3> QED  BY <2>1, <3>1 DEF CallType
    <2>3. q.tenant = t /\ q.pc = next
      BY <1>2 DEF CallType
    <2>4. q.op = p.op /\ q.email = p.email /\ q.slug = p.slug
      BY <1>2 DEF CallType
    <2>5. q.reply = None /\ q.login = p.login
      BY <1>2 DEF CallType
    <2> QED  BY <2>2, <2>3, <2>4, <2>5
  <1>5. CallStatement(r, q) /\ calls'[r] = q
    BY <1>1 DEF AInv, CallStatement, CallStep
  <1> HIDE DEF q
  <1>6. p.op = "login" => t \in seen'[r]
    BY <1>2, <1>3, <1>4, <1>5, Seen, AccountsAssumption DEF vars
  <1>7. SoundCall(q, seen'[r])
    BY <1>2, <1>3, <1>4, <1>6, AccountsAssumption DEF SoundCall, SoundRegistration, SoundLogin
  <1> QED  BY <1>4, <1>5, <1>7, OwnStatement DEF ApartCalls
\* The answer keeps what it is about (auth.py, register and login).
LEMMA Replied ==
    ASSUME NEW p, p \in CallType, NEW reply, reply \in {"ok", "taken"}
    PROVE  LET given == [p EXCEPT !.login = None, !.user = None, !.slug = None]
               q == [given EXCEPT !.pc = "reply", !.reply = reply]
           IN  /\ q \in CallType /\ q.op = p.op /\ q.tenant = p.tenant /\ q.email = p.email
               /\ q.role = p.role /\ q.pc = "reply" /\ q.reply = reply
  <1> DEFINE given == [p EXCEPT !.login = None, !.user = None, !.slug = None]
             q == [given EXCEPT !.pc = "reply", !.reply = reply]
  <1>1. given \in CallType
    BY DEF CallType
  <1>2. /\ given.op = p.op /\ given.tenant = p.tenant /\ given.email = p.email
        /\ given.role = p.role
    BY DEF CallType
  <1> HIDE DEF given
  <1>3. q \in CallType
    <2>1. reply = "ok" => [given EXCEPT !.pc = "reply", !.reply = "ok"] \in CallType
      BY <1>1 DEF CallType
    <2>2. reply = "taken" => [given EXCEPT !.pc = "reply", !.reply = "taken"] \in CallType
      BY <1>1 DEF CallType
    <2> QED  BY <2>1, <2>2
  <1>4. /\ q.op = given.op /\ q.tenant = given.tenant /\ q.email = given.email
        /\ q.role = given.role /\ q.pc = "reply" /\ q.reply = reply
    BY <1>1 DEF CallType
  <1> HIDE DEF q
  <1>5. /\ q \in CallType /\ q.op = p.op /\ q.tenant = p.tenant /\ q.email = p.email
        /\ q.role = p.role /\ q.pc = "reply" /\ q.reply = reply
    BY <1>2, <1>3, <1>4
  <1> QED  BY <1>5 DEF q, given

LEMMA EmailTakenKeeps ==
    ASSUME AInv, UNCHANGED vars, Record, NEW r \in Requests, EmailTaken(r)
    PROVE  AInv'
  <1> DEFINE p == calls[r]
             given == [p EXCEPT !.login = None, !.user = None, !.slug = None]
             q == [given EXCEPT !.pc = "reply", !.reply = "taken"]
  <1>1. /\ p \in CallType /\ p.pc = "check" /\ p.op = "register"
        /\ \E u \in DOMAIN users : SameAccount(u, p)
    BY DEF EmailTaken, AInv, SoundCall
  <1>2. CallStatement(r, q)
    BY DEF EmailTaken, Reply, CallStatement
  <1>3. /\ q \in CallType /\ q.op = "register" /\ q.tenant = p.tenant
        /\ q.email = p.email /\ q.pc = "reply" /\ q.reply = "taken"
    BY <1>1, Replied
  <1> HIDE DEF q
  <1>4. Stored(q)
    BY <1>1, <1>3 DEF Stored, SameAccount
  <1>5. SoundCall(q, seen'[r])
    BY <1>3, <1>4 DEF SoundCall, SoundRegistration
  <1> QED  BY <1>2, <1>3, <1>5, OwnStatement DEF ApartCalls

LEMMA CheckedKeeps ==
    ASSUME AInv, UNCHANGED vars, Record, NEW r \in Requests, Checked(r)
    PROVE  AInv'
  <1> DEFINE p == calls[r]
             q == [p EXCEPT !.pc = "insert_user"]
  <1>1. /\ p \in CallType /\ p.pc = "check" /\ p.op = "register" /\ p.reply = None
        /\ p.email \in Emails /\ p.tenant \in DOMAIN tenants
        /\ p.role # None => p.role.tenant_id = p.tenant
    BY DEF Checked, RoleFound, AInv, SoundCall
  <1>2. CallStatement(r, q)
    BY DEF Checked
  <1>3. /\ q \in CallType /\ q.op = "register" /\ q.tenant = p.tenant /\ q.reply = None
        /\ q.email = p.email /\ q.pc = "insert_user" /\ q.role = p.role
    BY <1>1 DEF CallType
  <1> HIDE DEF q
  <1>4. SoundCall(q, seen'[r])
    BY <1>1, <1>3, AccountsAssumption DEF SoundCall, SoundRegistration
  <1> QED  BY <1>2, <1>3, <1>4, OwnStatement DEF ApartCalls

\* The index that makes the INSERT wait keeps registrations about to commit apart.
LEMMA InsertUserKeeps ==
    ASSUME AInv, UNCHANGED vars, Record, NEW r \in Requests, InsertUser(r)
    PROVE  AInv'
  <1> DEFINE p == calls[r]
  <1>1. PICK u \in UserIds \ (DOMAIN users \cup {calls[s].user : s \in Requests}) :
           CallStatement(r, [p EXCEPT !.user = u, !.pc = "commit_user"])
    BY DEF InsertUser
  <1> DEFINE q == [p EXCEPT !.user = u, !.pc = "commit_user"]
  <1>2. /\ p \in CallType /\ p.pc = "insert_user" /\ p.op = "register" /\ p.reply = None
        /\ p.email \in Emails /\ p.tenant \in DOMAIN tenants
        /\ p.role # None => p.role.tenant_id = p.tenant
        /\ \A v \in DOMAIN users : ~SameAccount(v, p)
    BY DEF InsertUser, AInv, SoundCall, SoundRegistration
  <1>3. /\ q \in CallType /\ q.op = "register" /\ q.tenant = p.tenant /\ q.reply = None
        /\ q.email = p.email /\ q.pc = "commit_user" /\ q.role = p.role /\ q.user = u
    BY <1>2 DEF CallType
  <1>4. CallStatement(r, q)
    BY <1>1
  <1> HIDE DEF q
  <1>5. \A v \in DOMAIN users : ~SameAccount(v, q)
    BY <1>2, <1>3 DEF SameAccount
  <1>6. SoundCall(q, seen'[r])
    BY <1>2, <1>3, <1>5, AccountsAssumption DEF SoundCall, SoundRegistration
  <1>7. \A s \in Requests \ {r} : ApartCalls(q, calls[s])
    BY <1>3 DEF InsertUser, ApartCalls
  <1> QED  BY <1>4, <1>6, <1>7, OwnStatement

LEMMA ReadUserKeeps ==
    ASSUME AInv, UNCHANGED vars, Record, NEW r \in Requests, ReadUser(r)
    PROVE  AInv'
  <1> DEFINE p == calls[r]
  <1>1. PICK u \in DOMAIN users :
           /\ SameAccount(u, p) /\ users[u].is_active
           /\ CallStatement(r, [p EXCEPT !.user = u, !.pc = "touch"])
    BY DEF ReadUser
  <1> DEFINE q == [p EXCEPT !.user = u, !.pc = "touch"]
  <1>2. /\ p \in CallType /\ p.pc = "user" /\ p.op = "login" /\ p.reply = None
        /\ p.email \in Emails /\ p.tenant \in DOMAIN tenants
        /\ p.login \in 1..started
        /\ tenants[p.tenant].slug = p.slug /\ p.tenant \in seen[r]
    BY DEF ReadUser, AInv, SoundCall, SoundLogin
  <1>3. /\ q \in CallType /\ q.op = "login" /\ q.tenant = p.tenant /\ q.reply = None
        /\ q.email = p.email /\ q.pc = "touch" /\ q.slug = p.slug /\ q.login = p.login
        /\ q.user = u
    <2>1. u \in UserIds
      BY DEF AInv, RowsSound
    <2> QED  BY <1>2, <2>1 DEF CallType
  <1>4. CallStatement(r, q) /\ calls'[r] = q /\ UNCHANGED users
    BY <1>1 DEF AInv, CallStatement, CallStep
  <1> HIDE DEF q
  <1>5. users[u].tenant_id = p.tenant /\ users[u].email = p.email /\ users[u].is_active
    BY <1>1 DEF SameAccount
  <1>6. p.tenant \in seen'[r] /\ u \in seen'[r]
    BY <1>2, <1>3, <1>4, <1>5, Seen, AccountsAssumption DEF vars
  <1>7. SoundCall(q, seen'[r])
    BY <1>2, <1>3, <1>5, <1>6, AccountsAssumption DEF SoundCall, SoundLogin
  <1> QED  BY <1>3, <1>4, <1>7, OwnStatement DEF ApartCalls

LEMMA TouchUserKeeps ==
    ASSUME AInv, UNCHANGED vars, Record, NEW r \in Requests, TouchUser(r)
    PROVE  AInv'
  <1> DEFINE p == calls[r]
             q == [p EXCEPT !.pc = "commit_login"]
  <1>1. /\ p \in CallType /\ p.pc = "touch" /\ p.op = "login" /\ p.reply = None
        /\ p.email \in Emails /\ p.tenant \in DOMAIN tenants
        /\ p.login \in 1..started
        /\ tenants[p.tenant].slug = p.slug /\ p.tenant \in seen[r]
        /\ p.user \in DOMAIN users /\ users[p.user].tenant_id = p.tenant /\ p.user \in seen[r]
    BY DEF TouchUser, AInv, SoundCall, SoundLogin
  <1>2. /\ q \in CallType /\ q.op = "login" /\ q.tenant = p.tenant /\ q.reply = None
        /\ q.email = p.email /\ q.pc = "commit_login" /\ q.slug = p.slug /\ q.login = p.login
        /\ q.user = p.user
    BY <1>1 DEF CallType
  <1>3. CallStatement(r, q) /\ calls'[r] = q
    BY DEF TouchUser, AInv, CallStatement, CallStep
  <1> HIDE DEF q
  <1>4. seen[r] \subseteq seen'[r]
    BY <1>1, <1>2, <1>3, Seen, AccountsAssumption
  <1>5. SoundCall(q, seen'[r])
    BY <1>1, <1>2, <1>4, AccountsAssumption DEF SoundCall, SoundLogin
  <1> QED  BY <1>2, <1>3, <1>5, OwnStatement DEF ApartCalls
-----------------------------------------------------------------------------
(* One lemma per kind of step: commits, and what other slots do               *)

\* A step that writes users, sessions or what is recorded.
LEMMA WriteKeeps ==
    ASSUME AInv, UNCHANGED vars, Record, UsersGrow, RowsSound', NEW r \in Requests,
           DOMAIN calls' = Requests, \A s \in Requests \ {r} : calls'[s] = calls[s],
           SoundCall(calls[r], seen[r])',
           \A s \in Requests \ {r} : ApartCalls(calls'[r], calls[s]),
           \A s \in Requests \ {r} : calls[s].pc = "commit_user" =>
               /\ calls[s].user \notin DOMAIN users'
               /\ \A u \in DOMAIN users' : u \in DOMAIN users \/ ~SameAccount(u, calls[s])'
    PROVE  AInv'
  <1>1. IInv' /\ TenantsGrow
    BY StepKeeps, GrowsInTenants DEF AInv
  <1>2. \A s \in Requests \ {r} : SoundCall(calls[s], seen[s])'
    BY <1>1, OthersSound
  <1>3. \A s, t \in Requests : s # t => ApartCalls(calls[s], calls[t])'
    BY DEF AInv, ApartCalls
  <1> QED  BY <1>1, <1>2, <1>3 DEF AInv

LEMMA LoginKeeps ==
    ASSUME AInv, UNCHANGED vars, Record, NEW r \in Requests, NEW slug \in Slugs,
           NEW email \in Emails, Login(r, slug, email)
    PROVE  AInv'
  <1> DEFINE q == [NoCall EXCEPT !.op = "login", !.pc = "tenant", !.slug = slug,
                                 !.email = email, !.login = started + 1]
  <1>1. /\ started \in Nat /\ started < MaxLogins /\ started' = started + 1 /\ MaxLogins \in Nat
        /\ UNCHANGED <<users, sessions, recorded>>
    BY AccountsAssumption DEF Login, AInv, RowsSound
  <1>2. calls'[r] = q /\ DOMAIN calls' = Requests /\ \A s \in Requests \ {r} : calls'[s] = calls[s]
    BY DEF Login, CallStep, AInv
  <1>3. q \in CallType /\ q.op = "login" /\ q.pc = "tenant" /\ q.reply = None
        /\ q.email \in Emails /\ q.login = started + 1
    <2>1. started + 1 \in Nat
      BY <1>1
    <2> QED  BY <2>1 DEF NoCall, CallType
  <1> HIDE DEF q
  <1>4. UsersGrow
    BY <1>1 DEF UsersGrow
  <1>5. RowsSound'
    <2>1. TenantsGrow
      BY GrowsInTenants DEF AInv
    <2> QED  BY <1>1, <2>1, RowsKept
  <1>6. SoundCall(calls[r], seen[r])'
    <2>1. q \in CallType'
      BY <1>3 DEF CallType, vars
    <2> QED  BY <1>1, <1>2, <1>3, <2>1 DEF SoundCall, SoundLogin
  <1>7. \A s \in Requests \ {r} : ApartCalls(calls'[r], calls[s])
    BY <1>2, <1>3 DEF ApartCalls
  <1>8. \A s \in Requests : calls[s].pc = "commit_user" => calls[s].user \notin DOMAIN users
    BY DEF AInv, SoundCall, SoundRegistration
  <1> QED  BY <1>1, <1>2, <1>4, <1>5, <1>6, <1>7, <1>8, WriteKeeps

\* get_tenant_session commits an account: its id and its (tenant, email) are new, and no
\* registration still waiting has either.
LEMMA CommitUserKeeps ==
    ASSUME AInv, UNCHANGED vars, Record, NEW r \in Requests, CommitUser(r)
    PROVE  AInv'
  <1> DEFINE p == calls[r]
             q == [p EXCEPT !.pc = "public"]
             row == [schema |-> SchemaOf(p.tenant), tenant_id |-> p.tenant, email |-> p.email,
                     role |-> p.role, is_active |-> TRUE, last_login |-> None]
  <1>1. /\ p \in CallType /\ p.pc = "commit_user" /\ p.op = "register" /\ p.reply = None
        /\ p.email \in Emails /\ p.tenant \in DOMAIN tenants
        /\ p.role # None => p.role.tenant_id = p.tenant
        /\ p.user \in UserIds \ DOMAIN users
        /\ \A u \in DOMAIN users : ~SameAccount(u, p)
    BY DEF CommitUser, AInv, SoundCall, SoundRegistration
  <1>2. /\ users' = [u \in DOMAIN users \cup {p.user} |-> IF u = p.user THEN row ELSE users[u]]
        /\ UNCHANGED <<sessions, started, recorded>>
    BY DEF CommitUser
  <1>3. /\ DOMAIN users' = DOMAIN users \cup {p.user} /\ users'[p.user] = row
        /\ \A u \in DOMAIN users : users'[u] = users[u]
    BY <1>1, <1>2
  <1>4. calls'[r] = q /\ DOMAIN calls' = Requests /\ \A s \in Requests \ {r} : calls'[s] = calls[s]
    BY DEF CommitUser, CallStep, AInv
  <1>5. /\ q \in CallType /\ q.op = "register" /\ q.pc = "public" /\ q.reply = None
        /\ q.email = p.email /\ q.tenant = p.tenant /\ q.role = p.role
    BY <1>1 DEF CallType
  <1>6. /\ started \in 0..MaxLogins /\ UNCHANGED tenants /\ UNCHANGED roles /\ UNCHANGED schemas
        /\ \A t : SchemaOf(t)' = SchemaOf(t)
    BY DEF AInv, RowsSound, vars, SchemaOf
  <1>7. /\ row \in UserRow /\ row.schema = SchemaOf(p.tenant) /\ row.tenant_id = p.tenant
        /\ row.email = p.email /\ row.role = p.role
    <2>1. SchemaOf(p.tenant) \in schemas
      BY <1>1, SchemaThere DEF AInv
    <2>2. p.role \in roles \cup {None}
      BY <1>1 DEF CallType
    <2> QED  BY <1>1, <2>1, <2>2 DEF UserRow
  <1> HIDE DEF q, row
  <1>8. UsersGrow
    BY <1>2, <1>3, <1>6, AccountsAssumption DEF UsersGrow
  <1>9. RowsSound'
    <2>1. (DOMAIN users \subseteq UserIds /\ users \in [DOMAIN users -> UserRow])'
      <3>1. UserRow' = UserRow
        BY <1>2, <1>6 DEF UserRow
      <3>2. DOMAIN users \subseteq UserIds /\ users \in [DOMAIN users -> UserRow]
        BY DEF AInv, RowsSound
      <3>3. users' \in [DOMAIN users \cup {p.user} -> UserRow]
        BY <1>2, <1>7, <3>2
      <3> QED  BY <1>1, <1>3, <3>1, <3>2, <3>3
    <2>2. (recorded \subseteq LoginMark)'
      <3>1. recorded \subseteq LoginMark
        BY DEF AInv, RowsSound
      <3>2. LoginMark \subseteq LoginMark'
        BY <1>2, <1>3, <1>6 DEF LoginMark
      <3> QED  BY <1>2, <3>1, <3>2
    <2>3. AccountsStayHome'
      <3>1. \A s \in sessions : s.user \in DOMAIN users
        BY DEF AInv, RowsSound, LoginRecorded, LoginMark
      <3> QED  BY <1>1, <1>2, <1>3, <1>6, <1>7, <3>1 DEF AInv, RowsSound, AccountsStayHome
    <2>4. OneAccountPerEmail'
      <3>1. \A u \in DOMAIN users : ~(users[u].tenant_id = p.tenant /\ users[u].email = p.email)
        BY <1>1 DEF SameAccount, AInv, RowsSound, AccountsStayHome
      <3> QED  BY <1>3, <1>7, <3>1 DEF AInv, RowsSound, OneAccountPerEmail
    <2>5. LoginRecorded' /\ (started \in 0..MaxLogins)'
      BY <1>2 DEF AInv, RowsSound, LoginRecorded
    <2> QED  BY <2>1, <2>2, <2>3, <2>4, <2>5 DEF RowsSound
  <1>10. SoundCall(calls[r], seen[r])'
    <2>1. q \in CallType'
      BY <1>5, <1>6 DEF CallType
    <2>2. Stored(calls[r])'
      BY <1>3, <1>4, <1>5, <1>7 DEF Stored
    <2> QED  BY <1>1, <1>4, <1>5, <1>6, <2>1, <2>2 DEF SoundCall, SoundRegistration
  <1>11. \A s \in Requests \ {r} : ApartCalls(calls'[r], calls[s])
    BY <1>4, <1>5 DEF ApartCalls
  <1>12. ASSUME NEW s \in Requests \ {r}, calls[s].pc = "commit_user"
         PROVE  /\ calls[s].user \notin DOMAIN users'
                /\ \A u \in DOMAIN users' : u \in DOMAIN users \/ ~SameAccount(u, calls[s])'
    <2>1. /\ calls[s].user \notin DOMAIN users /\ calls[s].user # p.user
          /\ ~(calls[s].tenant = p.tenant /\ calls[s].email = p.email)
      BY <1>1, <1>12 DEF AInv, SoundCall, SoundRegistration, ApartCalls
    <2>2. ASSUME NEW u \in DOMAIN users', u \notin DOMAIN users, SameAccount(u, calls[s])'
          PROVE  FALSE
      <3>1. users'[u].tenant_id = calls[s].tenant /\ users'[u].email = calls[s].email
        BY <1>4, <2>2 DEF SameAccount
      <3>2. users'[u] = row
        BY <1>3, <2>2
      <3> QED  BY <1>7, <2>1, <3>1, <3>2
    <2>3. calls[s].user \notin DOMAIN users'
      BY <1>3, <2>1
    <2> QED  BY <2>2, <2>3
  <1> QED  BY <1>4, <1>8, <1>9, <1>10, <1>11, <1>12, WriteKeeps
\* What an UPDATE of last_login or is_active leaves as it was.
LEMMA ColumnKept ==
    ASSUME AInv, UNCHANGED <<tenants, schemas, roles, sessions, started>>, recorded \subseteq recorded',
           recorded' \subseteq LoginMark, NEW u \in DOMAIN users, NEW row \in UserRow,
           users' = [users EXCEPT ![u] = row],
           row.schema = users[u].schema, row.tenant_id = users[u].tenant_id,
           row.email = users[u].email, row.role = users[u].role
    PROVE  UsersGrow /\ RowsSound' /\ DOMAIN users' = DOMAIN users
  <1>1. /\ DOMAIN users \subseteq UserIds /\ users \in [DOMAIN users -> UserRow]
        /\ started \in 0..MaxLogins
    BY DEF AInv, RowsSound
  <1>2. DOMAIN users' = DOMAIN users /\ users'[u] = row
        /\ \A v \in DOMAIN users \ {u} : users'[v] = users[v]
    BY <1>1
  <1>3. \A v \in DOMAIN users :
           /\ users'[v].schema = users[v].schema /\ users'[v].tenant_id = users[v].tenant_id
           /\ users'[v].email = users[v].email /\ users'[v].role = users[v].role
    BY <1>2
  <1>4. UsersGrow
    BY <1>1, <1>2, <1>3, AccountsAssumption DEF UsersGrow
  <1>5. (DOMAIN users \subseteq UserIds /\ users \in [DOMAIN users -> UserRow])'
    <2>1. UserRow' = UserRow
      BY DEF UserRow
    <2>2. users' \in [DOMAIN users -> UserRow]
      BY <1>1
    <2> QED  BY <1>1, <1>2, <2>1, <2>2
  <1>6. (recorded \subseteq LoginMark)'
    BY <1>2 DEF LoginMark
  <1>7. AccountsStayHome'
    <2>1. \A t : SchemaOf(t)' = SchemaOf(t)
      BY DEF SchemaOf
    <2>2. \A s \in sessions : s.user \in DOMAIN users
      BY DEF AInv, RowsSound, LoginRecorded, LoginMark
    <2> QED  BY <1>2, <1>3, <2>1, <2>2 DEF AInv, RowsSound, AccountsStayHome
  <1>8. OneAccountPerEmail' /\ LoginRecorded'
    BY <1>2, <1>3 DEF AInv, RowsSound, OneAccountPerEmail, LoginRecorded
  <1> QED  BY <1>1, <1>2, <1>4, <1>5, <1>6, <1>7, <1>8 DEF RowsSound

LEMMA CommitLoginKeeps ==
    ASSUME AInv, UNCHANGED vars, Record, NEW r \in Requests, CommitLogin(r)
    PROVE  AInv'
  <1> DEFINE p == calls[r]
             q == [p EXCEPT !.pc = "public"]
             row == [users[p.user] EXCEPT !.last_login = p.login]
  <1>1. /\ p \in CallType /\ p.pc = "commit_login" /\ p.op = "login" /\ p.reply = None
        /\ p.email \in Emails /\ p.tenant \in DOMAIN tenants
        /\ p.login \in 1..started
        /\ tenants[p.tenant].slug = p.slug /\ p.tenant \in seen[r]
        /\ p.user \in DOMAIN users /\ users[p.user].tenant_id = p.tenant /\ p.user \in seen[r]
    BY DEF CommitLogin, AInv, SoundCall, SoundLogin
  <1>2. /\ q \in CallType /\ q.op = "login" /\ q.tenant = p.tenant /\ q.reply = None
        /\ q.email = p.email /\ q.pc = "public" /\ q.slug = p.slug /\ q.login = p.login
        /\ q.user = p.user
    BY <1>1 DEF CallType
  <1>3. /\ calls'[r] = q /\ DOMAIN calls' = Requests
        /\ \A s \in Requests \ {r} : calls'[s] = calls[s]
    BY DEF CommitLogin, CallStep, AInv
  <1>4. /\ users' = [users EXCEPT ![p.user] = row]
        /\ recorded' = recorded \cup {Session(p)} /\ UNCHANGED <<sessions, started>>
        /\ UNCHANGED <<tenants, schemas, roles>>
    BY DEF CommitLogin, vars
  <1>5. /\ row \in UserRow /\ row.schema = users[p.user].schema
        /\ row.tenant_id = users[p.user].tenant_id /\ row.email = users[p.user].email
        /\ row.role = users[p.user].role
    <2>1. users[p.user] \in UserRow
      BY <1>1 DEF AInv, RowsSound
    <2> QED  BY <1>1, <2>1 DEF UserRow
  <1> HIDE DEF q, row
  <1>6. recorded \subseteq recorded' /\ recorded' \subseteq LoginMark
    <2>1. Session(p) \in LoginMark
      BY <1>1 DEF Session, LoginMark
    <2> QED  BY <1>4, <2>1 DEF AInv, RowsSound
  <1>7. UsersGrow /\ RowsSound' /\ DOMAIN users' = DOMAIN users
    BY <1>1, <1>4, <1>5, <1>6, ColumnKept
  <1>8. SoundCall(calls[r], seen[r])'
    <2>1. seen[r] \subseteq seen'[r]
      BY <1>1, <1>2, <1>3, Seen, AccountsAssumption
    <2>2. q \in CallType'
      BY <1>2, <1>4 DEF CallType
    <2>3. users'[q.user].tenant_id = q.tenant /\ Session(q) \in recorded'
      BY <1>1, <1>2, <1>4, <1>7 DEF UsersGrow, Session
    <2> QED  BY <1>1, <1>2, <1>3, <1>4, <1>7, <2>1, <2>2, <2>3, AccountsAssumption
                DEF SoundCall, SoundLogin
  <1>9. \A s \in Requests \ {r} : ApartCalls(calls'[r], calls[s])
    BY <1>2, <1>3 DEF ApartCalls
  <1>10. \A s \in Requests : calls[s].pc = "commit_user" => calls[s].user \notin DOMAIN users
    BY DEF AInv, SoundCall, SoundRegistration
  <1> QED  BY <1>3, <1>7, <1>8, <1>9, <1>10, WriteKeeps

LEMMA CommitPublicKeeps ==
    ASSUME AInv, UNCHANGED vars, Record, NEW r \in Requests, CommitPublic(r)
    PROVE  AInv'
  <1> DEFINE p == calls[r]
             given == [p EXCEPT !.login = None, !.user = None, !.slug = None]
             q == [given EXCEPT !.pc = "reply", !.reply = "ok"]
             new == Session(p)
  <1>1. /\ p \in CallType /\ p.pc = "public" /\ p.op \in {"register", "login"} /\ p.reply = None
        /\ p.op = "register" => Stored(p)
        /\ p.tenant \in DOMAIN tenants
        /\ p.op = "login" => Session(p) \in recorded
                             /\ p.user \in DOMAIN users /\ users[p.user].tenant_id = p.tenant
    BY DEF CommitPublic, AInv, SoundCall, SoundLogin, SoundRegistration, CallType
  <1>2. /\ q \in CallType /\ q.op = p.op /\ q.tenant = p.tenant
        /\ q.email = p.email /\ q.role = p.role /\ q.pc = "reply" /\ q.reply = "ok"
    BY <1>1, Replied
  <1>3. /\ calls'[r] = q /\ DOMAIN calls' = Requests
        /\ \A s \in Requests \ {r} : calls'[s] = calls[s]
    BY DEF CommitPublic, Reply, CallStep, AInv
  <1>4. /\ sessions' = IF p.op = "login" THEN sessions \cup {new} ELSE sessions
        /\ UNCHANGED <<users, started, recorded>> /\ UNCHANGED <<tenants, schemas, roles>>
        /\ started \in 0..MaxLogins
    BY DEF CommitPublic, vars, AInv, RowsSound
  <1>5. new.user = p.user /\ new.tenant = p.tenant /\ (p.op = "login" => new \in recorded)
    BY <1>1 DEF Session
  <1> HIDE DEF q, given, new
  <1>6. UsersGrow
    BY <1>4, AccountsAssumption DEF UsersGrow
  <1>7. RowsSound'
    <2>1. (DOMAIN users \subseteq UserIds /\ users \in [DOMAIN users -> UserRow])'
      BY <1>4 DEF AInv, RowsSound, UserRow
    <2>2. (recorded \subseteq LoginMark)'
      BY <1>4 DEF AInv, RowsSound, LoginMark
    <2>3. AccountsStayHome'
      <3>1. \A t : SchemaOf(t)' = SchemaOf(t)
        BY <1>4 DEF SchemaOf
      <3> QED  BY <1>1, <1>4, <1>5, <3>1 DEF AInv, RowsSound, AccountsStayHome
    <2>4. OneAccountPerEmail' /\ LoginRecorded'
      BY <1>1, <1>4, <1>5 DEF AInv, RowsSound, OneAccountPerEmail, LoginRecorded
    <2> QED  BY <1>4, <2>1, <2>2, <2>3, <2>4 DEF AInv, RowsSound
  <1>8. SoundCall(calls[r], seen[r])'
    <2>1. q \in CallType'
      BY <1>2, <1>4 DEF CallType
    <2>2. p.op = "register" => Stored(calls[r])'
      BY <1>1, <1>2, <1>3, <1>4, AccountsAssumption DEF Stored
    <2> QED  BY <1>1, <1>2, <1>3, <2>1, <2>2 DEF SoundCall, SoundRegistration, SoundLogin
  <1>9. \A s \in Requests \ {r} : ApartCalls(calls'[r], calls[s])
    BY <1>2, <1>3 DEF ApartCalls
  <1>10. \A s \in Requests : calls[s].pc = "commit_user" => calls[s].user \notin DOMAIN users
    BY DEF AInv, SoundCall, SoundRegistration
  <1> QED  BY <1>3, <1>4, <1>6, <1>7, <1>8, <1>9, <1>10, WriteKeeps
\* A step of somebody else: of Tenants, or of the operator who disables a user.
LEMMA CallsKeep ==
    ASSUME AInv, IInv', TenantsGrow, UsersGrow, Record, RowsSound', UNCHANGED calls,
           DOMAIN users' = DOMAIN users
    PROVE  AInv'
  <1>1. \A s \in Requests : calls[s].pc = "commit_user" => calls[s].user \notin DOMAIN users
    BY DEF AInv, SoundCall, SoundRegistration
  <1>2. \A s \in Requests : SoundCall(calls[s], seen[s])'
    BY <1>1, OthersSound
  <1>3. \A s, t \in Requests : s # t => ApartCalls(calls[s], calls[t])'
    BY DEF AInv, ApartCalls
  <1> QED  BY <1>2, <1>3 DEF AInv

LEMMA DisableUserKeeps ==
    ASSUME AInv, UNCHANGED vars, Record, NEW u \in UserIds, DisableUser(u)
    PROVE  AInv'
  <1> DEFINE row == [users[u] EXCEPT !.is_active = FALSE]
  <1>1. /\ u \in DOMAIN users /\ users' = [users EXCEPT ![u] = row]
        /\ UNCHANGED <<tenants, schemas, roles, sessions, calls, started, recorded>>
    BY DEF DisableUser, vars
  <1>2. /\ row \in UserRow /\ row.schema = users[u].schema
        /\ row.tenant_id = users[u].tenant_id /\ row.email = users[u].email
        /\ row.role = users[u].role
    <2>1. users[u] \in UserRow
      BY <1>1 DEF AInv, RowsSound
    <2> QED  BY <2>1 DEF UserRow
  <1> HIDE DEF row
  <1>3. recorded \subseteq recorded' /\ recorded' \subseteq LoginMark
    BY <1>1 DEF AInv, RowsSound
  <1>4. UsersGrow /\ RowsSound' /\ DOMAIN users' = DOMAIN users
    BY <1>1, <1>2, <1>3, ColumnKept
  <1>5. IInv' /\ TenantsGrow
    BY StepKeeps, GrowsInTenants DEF AInv
  <1> QED  BY <1>1, <1>4, <1>5, CallsKeep

LEMMA TenantsStepKeeps ==
    ASSUME AInv, [Next]_vars, UNCHANGED accountVars, Record
    PROVE  AInv'
  <1>1. IInv' /\ TenantsGrow
    BY StepKeeps, GrowsInTenants DEF AInv
  <1>2. UNCHANGED <<users, sessions, calls, started, recorded>> /\ started \in 0..MaxLogins
        /\ started \in Nat
    BY AccountsAssumption DEF accountVars, AInv, RowsSound
  <1>3. UsersGrow
    BY <1>2 DEF UsersGrow
  <1>4. RowsSound'
    BY <1>1, <1>2, RowsKept
  <1> QED  BY <1>1, <1>2, <1>3, <1>4, CallsKeep

LEMMA RestartKeeps ==
    ASSUME AInv, Restart, Record
    PROVE  AInv'
  <1>1. IInv' /\ TenantsGrow
    BY StepKeeps, GrowsInTenants DEF AInv, Restart, Next
  <1>2. UNCHANGED <<users, sessions, started, recorded>> /\ started \in 0..MaxLogins
        /\ started \in Nat
    BY AccountsAssumption DEF Restart, AInv, RowsSound
  <1>3. RowsSound'
    BY <1>1, <1>2, RowsKept
  <1>4. DOMAIN calls' = Requests /\ \A r \in Requests : calls'[r] = NoCall
    BY DEF Restart
  <1>5. \A r \in Requests : SoundCall(calls[r], seen[r])'
    <2> SUFFICES ASSUME NEW r \in Requests PROVE SoundCall(calls[r], seen[r])'
      OBVIOUS
    <2>1. NoCall \in CallType'
      BY DEF NoCall, CallType
    <2> QED  BY <1>4, <2>1 DEF SoundCall, NoCall
  <1>6. \A s, t \in Requests : s # t => ApartCalls(calls[s], calls[t])'
    BY <1>4 DEF ApartCalls, NoCall
  <1> QED  BY <1>1, <1>3, <1>4, <1>5, <1>6 DEF AInv

-----------------------------------------------------------------------------
(* The theorems                                                              *)

LEMMA InitAInv == AccountsInit => AInv
  <1> SUFFICES ASSUME AccountsInit PROVE AInv
    OBVIOUS
  <1>1. IInv
    BY InitIInv DEF AccountsInit
  <1>2. DOMAIN users = {} /\ users \in [{} -> UserRow]
    BY DEF AccountsInit
  <1>3. RowsSound
    BY <1>2, AccountsAssumption DEF AccountsInit, RowsSound, AccountsStayHome,
        OneAccountPerEmail, LoginRecorded
  <1>4. \A r \in Requests : SoundCall(calls[r], seen[r])
    BY NoCallSound DEF AccountsInit
  <1>5. \A r, s \in Requests : r # s => ApartCalls(calls[r], calls[s])
    BY NoCallSound DEF AccountsInit
  <1> QED  BY <1>1, <1>3, <1>4, <1>5 DEF AccountsInit, AInv

LEMMA CallServeKeeps ==
    ASSUME AInv, UNCHANGED vars, Record, NEW r \in Requests, CallServe(r)
    PROVE  AInv'
  <1>1. CASE CallArrivals(r)
    BY <1>1, RegisterKeeps, LoginKeeps DEF CallArrivals, Slugs
  <1>2. CASE FindTenant(r)
    BY <1>2, FindTenantKeeps
  <1>3. CASE TenantNotFound(r) \/ CallFails(r)
    BY <1>3, CallRefusedKeeps DEF TenantNotFound, CallFails
  <1>4. CASE Registering(r)
    <2>1. CASE EmailTaken(r)
      BY <2>1, EmailTakenKeeps
    <2>2. CASE RoleMissing(r) \/ InsertClash(r)
      BY <2>2, CallRefusedKeeps DEF RoleMissing, InsertClash
    <2>3. CASE Checked(r)
      BY <2>3, CheckedKeeps
    <2>4. CASE InsertUser(r)
      BY <2>4, InsertUserKeeps
    <2>5. CASE CommitUser(r)
      BY <2>5, CommitUserKeeps
    <2> QED  BY <1>4, <2>1, <2>2, <2>3, <2>4, <2>5 DEF Registering
  <1>5. CASE LoggingIn(r)
    <2>1. CASE ReadUser(r)
      BY <2>1, ReadUserKeeps
    <2>2. CASE LoginRefused(r)
      BY <2>2, CallRefusedKeeps DEF LoginRefused
    <2>3. CASE TouchUser(r)
      BY <2>3, TouchUserKeeps
    <2>4. CASE CommitLogin(r)
      BY <2>4, CommitLoginKeeps
    <2> QED  BY <1>5, <2>1, <2>2, <2>3, <2>4 DEF LoggingIn
  <1>6. CASE CommitPublic(r)
    BY <1>6, CommitPublicKeeps
  <1>7. CASE CallResponds(r)
    <2>1. /\ CallStatement(r, NoCall) /\ SoundCall(NoCall, seen'[r])
          /\ \A s \in Requests \ {r} : ApartCalls(NoCall, calls[s])
      BY <1>7, NoCallSound DEF CallResponds
    <2> QED  BY <2>1, OwnStatement
  <1> QED  BY <1>1, <1>2, <1>3, <1>4, <1>5, <1>6, <1>7 DEF CallServe

LEMMA AccountsStepKeeps == AInv /\ [AccountsNext]_allVars => AInv'
  <1> SUFFICES ASSUME AInv, [AccountsNext]_allVars PROVE AInv'
    OBVIOUS
  <1>1. ASSUME NEW r \in Requests, Serve(r), UNCHANGED accountVars, Record PROVE AInv'
    BY <1>1, TenantsStepKeeps DEF Next
  <1>2. ASSUME NEW r \in Requests, CallServe(r), UNCHANGED vars, Record PROVE AInv'
    BY <1>2, CallServeKeeps
  <1>3. ASSUME NEW u \in UserIds, DisableUser(u), UNCHANGED vars, Record PROVE AInv'
    BY <1>3, DisableUserKeeps
  <1>4. ASSUME Restart, Record PROVE AInv'
    BY <1>4, RestartKeeps
  <1>5. CASE UNCHANGED allVars
    <2>1. IInv'
      BY <1>5, StepKeeps DEF allVars, AInv
    <2>2. RowsSound' /\ UNCHANGED <<calls, seen>>
      BY <1>5 DEF allVars, vars, accountVars, AInv, RowsSound, UserRow, AccountsStayHome, SchemaOf,
          OneAccountPerEmail, LoginRecorded, LoginMark
    <2>3. \A r \in Requests : SoundCall(calls[r], seen[r])'
      BY <1>5 DEF allVars, vars, accountVars, AInv, SoundCall, CallType, SoundRegistration,
          SoundLogin, Stored, SameAccount, SchemaOf
    <2>4. \A r, s \in Requests : r # s => ApartCalls(calls[r], calls[s])'
      BY <2>2 DEF AInv, ApartCalls
    <2> QED  BY <2>1, <2>2, <2>3, <2>4 DEF AInv
  <1> QED  BY <1>1, <1>2, <1>3, <1>4, <1>5 DEF AccountsNext

\* The inductive invariant holds for any tenants, users, emails, requests and bodies.
THEOREM AccountsInvariance == AccountsSpec => []AInv
  <1> QED  BY InitAInv, AccountsStepKeeps, PTL DEF AccountsSpec

\* The types of all variables; users and sessions live in schemas and tenants that exist.
THEOREM AccountsTypeCorrect == AccountsSpec => []AccountsTypeOK
  <1>1. AInv => AccountsTypeOK
    <2> SUFFICES ASSUME AInv PROVE AccountsTypeOK
      OBVIOUS
    <2>1. TypeOK
      BY DEF AInv, IInv
    <2>2. \A r \in Requests : calls[r].tenant \in DOMAIN tenants \cup {None}
      BY DEF AInv, SoundCall, CallType
    <2> QED  BY <2>1, <2>2 DEF AInv, RowsSound, AccountsTypeOK
  <1> QED  BY AccountsInvariance, <1>1, PTL

\* The tenant_id filters keep accounts, their roles and their sessions in one tenant, also
\* where two tenants share a schema (auth_service.py).
THEOREM AccountsAtHome == AccountsSpec => []AccountsStayHome
  <1>1. AInv => AccountsStayHome
    BY DEF AInv, RowsSound
  <1> QED  BY AccountsInvariance, <1>1, PTL

\* One account for an email in a tenant, however many registrations race: the index keeps
\* the INSERTs apart that the check lets through (register_user).
THEOREM OneAccount == AccountsSpec => []OneAccountPerEmail
  <1>1. AInv => OneAccountPerEmail
    BY DEF AInv, RowsSound
  <1> QED  BY AccountsInvariance, <1>1, PTL

\* What a registration was answered is true, and stays so: "registered" and "taken".
THEOREM AnswersHold == AccountsSpec => []AnswersAreTrue
  <1>1. AInv => AnswersAreTrue
    BY DEF AInv, SoundCall, SoundRegistration, Stored, AnswersAreTrue
  <1> QED  BY AccountsInvariance, <1>1, PTL

\* No session without its last_login: the tenant's transaction commits first (login_user).
THEOREM LoginsRecorded == AccountsSpec => []LoginRecorded
  <1>1. AInv => LoginRecorded
    BY DEF AInv, RowsSound
  <1> QED  BY AccountsInvariance, <1>1, PTL

\* A session is given only to a login that could have found its tenant and its user active
\* since it arrived (login_user reads one, then the other, and commits later still).
THEOREM DeactivationStopsLogins == AccountsSpec => DeactivationHolds
  <1> DEFINE Held == \A s \in sessions' \ sessions : \E r \in Requests :
                 calls[r].login = s.login /\ {s.tenant, s.user} \subseteq seen[r]
  <1>1. AInv /\ [AccountsNext]_allVars => [Held]_allVars
    <2> SUFFICES ASSUME AInv, AccountsNext, NEW s \in sessions' \ sessions
                 PROVE  \E r \in Requests :
                            calls[r].login = s.login /\ {s.tenant, s.user} \subseteq seen[r]
      OBVIOUS
    <2>1. ASSUME NEW r \in Requests, CommitPublic(r)
          PROVE  calls[r].login = s.login /\ {s.tenant, s.user} \subseteq seen[r]
      <3>1. calls[r].op = "login" /\ calls[r].pc = "public" /\ s = Session(calls[r])
        BY <2>1 DEF CommitPublic
      <3>2. calls[r].tenant \in seen[r] /\ calls[r].user \in seen[r]
        BY <3>1 DEF AInv, SoundCall, SoundLogin
      <3> QED  BY <3>1, <3>2 DEF Session
    <2>2. ASSUME NEW r \in Requests, CallServe(r), ~CommitPublic(r)
          PROVE  UNCHANGED sessions
      <3>1. CASE CallArrivals(r)
        BY <3>1 DEF CallArrivals, Register, Login, CallStatement
      <3>2. CASE FindTenant(r) \/ TenantNotFound(r) \/ CallResponds(r) \/ CallFails(r)
        BY <3>2 DEF FindTenant, TenantNotFound, CallResponds, CallFails, CallStatement, CallRefused
      <3>3. CASE Registering(r)
        BY <3>3 DEF Registering, EmailTaken, RoleMissing, Checked, InsertUser, InsertClash,
            CommitUser, CallStatement, CallRefused
      <3>4. CASE LoggingIn(r)
        BY <3>4 DEF LoggingIn, ReadUser, LoginRefused, TouchUser, CommitLogin, CallStatement,
            CallRefused
      <3> QED  BY <2>2, <3>1, <3>2, <3>3, <3>4 DEF CallServe
    <2>3. (\E r \in Requests : CallServe(r)) \/ UNCHANGED sessions
      BY DEF AccountsNext, accountVars, DisableUser, Restart
    <2> QED  BY <2>1, <2>2, <2>3
  <1> QED  BY <1>1, AccountsInvariance, PTL DEF AccountsSpec, DeactivationHolds
-----------------------------------------------------------------------------
(* Accounts implements Directory: what the mapping needs besides AInv        *)

\* A row about to be inserted, or inserted and not committed, is what a body asked for.
Ordered(q) == q.pc \in {"insert"} \cup Making => \E b \in Bodies : q.row = NewRow(b)

\* A login leaves its mark once.
FreshLogin(q) ==
    q.login # None =>
        /\ q.login \in 1..started
        /\ q.pc # "public" => \A m \in recorded : m.login # q.login

\* The numbers of logins, and which of them have left a mark.
LoginsApart ==
    /\ \A r \in Requests : FreshLogin(calls[r])
    /\ \A r, s \in Requests : r # s /\ calls[r].login # None => calls[r].login # calls[s].login

DInv ==
    /\ AInv
    /\ \A r \in Requests : Ordered(rq[r])
    /\ LoginsApart

LEMMA OrderedStep ==
    ASSUME TypeOK, NEW r \in Requests, NEW q, Step(r, q), Ordered(q),
           \A s \in Requests : Ordered(rq[s])
    PROVE  \A s \in Requests : Ordered(rq'[s])
  <1>1. \A s \in Requests : rq'[s] = IF s = r THEN q ELSE rq[s]
    BY DEF TypeOK, Step
  <1> QED  BY <1>1

LEMMA OrderedRefused ==
    ASSUME TypeOK, NEW r \in Requests, NEW reply, Answer(r, reply),
           \A s \in Requests : Ordered(rq[s])
    PROVE  \A s \in Requests : Ordered(rq'[s])
  <1> DEFINE q == [Idle EXCEPT !.pc = "reply", !.reply = reply]
  <1>1. Step(r, q) /\ q.pc = "reply"
    BY DEF Answer, Idle
  <1> HIDE DEF q
  <1> QED  BY <1>1, OrderedStep DEF Ordered, Making

LEMMA ServeKeepsOrder ==
    ASSUME TypeOK, NEW r \in Requests, Serve(r), \A s \in Requests : Ordered(rq[s])
    PROVE  \A s \in Requests : Ordered(rq'[s])
  <1>0. rq[r] \in Call /\ Ordered(rq[r])
    BY DEF TypeOK
  <1>1. ASSUME NEW b \in Bodies, CreateRequest(r, b)
        PROVE  \A s \in Requests : Ordered(rq'[s])
    <2> DEFINE q == [Idle EXCEPT !.op = "create", !.pc = "insert", !.row = NewRow(b)]
    <2>1. Step(r, q) /\ q.row = NewRow(b)
      BY <1>1 DEF CreateRequest, Arrive, Idle
    <2> HIDE DEF q
    <2> QED  BY <2>1, OrderedStep DEF Ordered
  <1>2. ASSUME NEW id, NEW patch, PatchRequest(r, id, patch)
        PROVE  \A s \in Requests : Ordered(rq'[s])
    <2> DEFINE q == [Idle EXCEPT !.op = "patch", !.pc = "load", !.id = id, !.patch = patch]
    <2>1. Step(r, q) /\ q.pc = "load"
      BY <1>2 DEF PatchRequest, Arrive, Idle
    <2> HIDE DEF q
    <2> QED  BY <2>1, OrderedStep DEF Ordered, Making
  <1>3. ASSUME NEW q, Step(r, q), rq[r].pc \in {"insert"} \cup Making, q.row = rq[r].row
        PROVE  \A s \in Requests : Ordered(rq'[s])
    BY <1>0, <1>3, OrderedStep DEF Ordered
  <1>4. CASE Creating(r)
    <2>1. CASE InsertTenant(r)
      <3>1. PICK id : Step(r, [rq[r] EXCEPT !.id = id, !.pc = "schema"])
        BY <2>1 DEF InsertTenant, Statement
      <3>2. [rq[r] EXCEPT !.id = id, !.pc = "schema"].row = rq[r].row
        BY <1>0 DEF Call
      <3> QED  BY <1>3, <2>1, <3>1, <3>2 DEF InsertTenant
    <2>2. CASE SchemaExists(r) \/ SchemaMissing(r)
      <3>1. PICK pc : Step(r, [rq[r] EXCEPT !.pc = pc])
        BY <2>2 DEF SchemaExists, SchemaMissing, Statement
      <3>2. [rq[r] EXCEPT !.pc = pc].row = rq[r].row /\ rq[r].pc \in Making
        BY <1>0, <2>2 DEF Call, SchemaExists, SchemaMissing, Making
      <3> QED  BY <1>3, <3>1, <3>2
    <2>3. CASE CreateSchema(r)
      <3>1. Step(r, [rq[r] EXCEPT !.made = TRUE, !.pc = "tables"])
        BY <2>3 DEF CreateSchema, Statement
      <3>2. [rq[r] EXCEPT !.made = TRUE, !.pc = "tables"].row = rq[r].row /\ rq[r].pc \in Making
        BY <1>0, <2>3 DEF Call, CreateSchema, Making
      <3> QED  BY <1>3, <3>1, <3>2
    <2>4. CASE CreateTables(r)
      <3>1. Step(r, [rq[r] EXCEPT !.seeded = TRUE, !.pc = "commit_create"])
        BY <2>4 DEF CreateTables, Statement
      <3>2. /\ [rq[r] EXCEPT !.seeded = TRUE, !.pc = "commit_create"].row = rq[r].row
            /\ rq[r].pc \in Making
        BY <1>0, <2>4 DEF Call, CreateTables, Making
      <3> QED  BY <1>3, <3>1, <3>2
    <2>5. CASE InsertRefused(r) \/ SchemaRace(r) \/ CommitCreate(r)
      BY <2>5, OrderedRefused DEF InsertRefused, SchemaRace, CommitCreate, Refused
    <2> QED  BY <1>4, <2>1, <2>2, <2>3, <2>4, <2>5 DEF Creating
  <1>5. ASSUME NEW q, Step(r, q), q.pc \in Changing \cup {"idle"}
        PROVE  \A s \in Requests : Ordered(rq'[s])
    BY <1>5, OrderedStep DEF Ordered, Making, Changing
  <1>6. CASE Patching(r)
    <2>0. AfterLoad(rq[r].patch) \in Changing /\ AfterPlan(rq[r].patch) \in Changing
      BY DEF AfterLoad, AfterPlan, Changing
    <2>1. CASE LoadTenant(r)
      <3> DEFINE q == [rq[r] EXCEPT !.row = tenants[rq[r].id], !.pc = AfterLoad(rq[r].patch)]
      <3>1. Step(r, q) /\ q.pc = AfterLoad(rq[r].patch)
        BY <1>0, <2>1 DEF LoadTenant, Statement, Call
      <3> HIDE DEF q
      <3> QED  BY <1>5, <2>0, <3>1
    <2>2. ASSUME NEW target, NEW pc \in Changing, Flush(r, target, pc)
          PROVE  \A s \in Requests : Ordered(rq'[s])
      <3>1. PICK row, wrote : Step(r, [rq[r] EXCEPT !.row = row, !.wrote = wrote, !.pc = pc])
        <4>1. ASSUME NEW row
              PROVE  [rq[r] EXCEPT !.row = row, !.pc = pc] =
                         [rq[r] EXCEPT !.row = row, !.wrote = rq[r].wrote, !.pc = pc]
          BY <1>0 DEF Call
        <4> QED  BY <2>2, <4>1 DEF Flush, Statement
      <3> DEFINE q == [rq[r] EXCEPT !.row = row, !.wrote = wrote, !.pc = pc]
      <3>2. Step(r, q) /\ q.pc = pc
        BY <1>0, <3>1 DEF Call
      <3> HIDE DEF q
      <3> QED  BY <1>5, <2>2, <3>2
    <2>3. CASE UpdatePlan(r)
      BY <2>0, <2>2, <2>3 DEF UpdatePlan
    <2>4. CASE SetActive(r)
      BY <2>2, <2>4 DEF SetActive, Changing
    <2>5. CASE TenantMissing(r) \/ CommitPatch(r)
      BY <2>5, OrderedRefused DEF TenantMissing, CommitPatch, Refused
    <2> QED  BY <1>6, <2>1, <2>3, <2>4, <2>5 DEF Patching
  <1>7. CASE Respond(r)
    BY <1>5, <1>7 DEF Respond, Statement, Idle
  <1>8. CASE Fail(r)
    BY <1>8, OrderedRefused DEF Fail, Refused
  <1> QED  BY <1>1, <1>2, <1>4, <1>6, <1>7, <1>8 DEF Serve, Arrivals

\* A call goes on with its login, or without.
Keeps(q, p) == q.login # None => q.login = p.login /\ (p.pc = "public" => q.pc = "public")

LEMMA LoginsStayApart ==
    ASSUME LoginsApart, \A r \in Requests : Keeps(calls'[r], calls[r]),
           UNCHANGED recorded, started \in Nat, started' \in Nat, started <= started'
    PROVE  LoginsApart'
  <1>1. ASSUME NEW r \in Requests PROVE FreshLogin(calls[r])'
    <2> SUFFICES ASSUME calls'[r].login # None PROVE FreshLogin(calls[r])'
      BY DEF FreshLogin
    <2>1. /\ calls'[r].login = calls[r].login
          /\ calls[r].pc = "public" => calls'[r].pc = "public"
      BY DEF Keeps
    <2>2. calls[r].login \in 1..started'
      BY <2>1 DEF LoginsApart, FreshLogin
    <2> QED  BY <2>1, <2>2 DEF LoginsApart, FreshLogin
  <1>2. ASSUME NEW r \in Requests, NEW s \in Requests, r # s, calls'[r].login # None
        PROVE  calls'[r].login # calls'[s].login
    BY <1>2 DEF Keeps, LoginsApart
  <1> QED  BY <1>1, <1>2 DEF LoginsApart

\* What a call's own step does to its login: kept until it is public, or dropped.
LEMMA CallServeKeepsLogin ==
    ASSUME AInv, NEW r \in Requests, CallServe(r), ~CommitLogin(r),
           \A slug \in Slugs, email \in Emails : ~Login(r, slug, email)
    PROVE  /\ \A s \in Requests : Keeps(calls'[s], calls[s])
           /\ UNCHANGED <<recorded, started>>
  <1>0. DOMAIN calls = Requests /\ calls[r] \in CallType
    BY DEF AInv, SoundCall
  <1>1. ASSUME NEW q, CallStep(r, q), Keeps(q, calls[r])
        PROVE  \A s \in Requests : Keeps(calls'[s], calls[s])
    <2>1. \A s \in Requests : calls'[s] = IF s = r THEN q ELSE calls[s]
      BY <1>0, <1>1 DEF CallStep
    <2> QED  BY <1>1, <2>1 DEF Keeps
  <1>2. ASSUME NEW reply, CallRefused(r, reply)
        PROVE  (\A s \in Requests : Keeps(calls'[s], calls[s])) /\ UNCHANGED <<recorded, started>>
    <2> DEFINE q == [NoCall EXCEPT !.pc = "reply", !.reply = reply]
    <2>1. CallStep(r, q) /\ q.login = None /\ UNCHANGED <<recorded, started>>
      BY <1>2 DEF CallRefused, CallStatement, NoCall
    <2> HIDE DEF q
    <2> QED  BY <1>1, <2>1 DEF Keeps
  <1>3. ASSUME NEW reply, Reply(r, reply)
        PROVE  \A s \in Requests : Keeps(calls'[s], calls[s])
    <2> DEFINE given == [calls[r] EXCEPT !.login = None, !.user = None, !.slug = None]
               q == [given EXCEPT !.pc = "reply", !.reply = reply]
    <2>1. CallStep(r, q)
      BY <1>3 DEF Reply
    <2>2. q.login = None
      BY <1>0 DEF CallType
    <2> HIDE DEF q
    <2> QED  BY <1>1, <2>1, <2>2 DEF Keeps
  <1>4. ASSUME NEW q, CallStep(r, q), q.login = calls[r].login, calls[r].pc # "public"
        PROVE  \A s \in Requests : Keeps(calls'[s], calls[s])
    BY <1>1, <1>4 DEF Keeps
  <1>6. CASE CallArrivals(r)
    <2>1. PICK slug, email, role : Register(r, slug, email, role)
      BY <1>6 DEF CallArrivals, Slugs
    <2> DEFINE q == [NoCall EXCEPT !.op = "register", !.pc = "tenant", !.slug = slug,
                                   !.email = email, !.role = role]
    <2>2. CallStep(r, q) /\ q.login = None /\ UNCHANGED <<recorded, started>>
      BY <2>1 DEF Register, CallStatement, NoCall
    <2> HIDE DEF q
    <2> QED  BY <1>1, <2>2 DEF Keeps
  <1>7. CASE FindTenant(r)
    <2>1. PICK tenant, pc : CallStep(r, [calls[r] EXCEPT !.tenant = tenant, !.pc = pc])
      BY <1>7 DEF FindTenant, CallStatement
    <2>2. [calls[r] EXCEPT !.tenant = tenant, !.pc = pc].login = calls[r].login
      BY <1>0 DEF CallType
    <2>3. calls[r].pc # "public" /\ UNCHANGED <<recorded, started>>
      BY <1>7 DEF FindTenant, CallStatement
    <2> QED  BY <1>4, <2>1, <2>2, <2>3
  <1>8. ASSUME NEW pc, CallStep(r, [calls[r] EXCEPT !.pc = pc]), calls[r].pc # "public"
        PROVE  \A s \in Requests : Keeps(calls'[s], calls[s])
    <2>1. [calls[r] EXCEPT !.pc = pc].login = calls[r].login
      BY <1>0 DEF CallType
    <2> QED  BY <1>4, <1>8, <2>1
  <1>9. ASSUME NEW user, NEW pc, CallStep(r, [calls[r] EXCEPT !.user = user, !.pc = pc]),
               calls[r].pc # "public"
        PROVE  \A s \in Requests : Keeps(calls'[s], calls[s])
    <2>1. [calls[r] EXCEPT !.user = user, !.pc = pc].login = calls[r].login
      BY <1>0 DEF CallType
    <2> QED  BY <1>4, <1>9, <2>1
  <1>10. CASE Registering(r)
    <2>1. CASE EmailTaken(r)
      BY <1>3, <2>1 DEF EmailTaken
    <2>2. CASE RoleMissing(r) \/ InsertClash(r)
      BY <1>2, <2>2 DEF RoleMissing, InsertClash
    <2>3. CASE Checked(r)
      BY <1>8, <2>3 DEF Checked, CallStatement
    <2>4. CASE InsertUser(r)
      <3>1. PICK user : CallStep(r, [calls[r] EXCEPT !.user = user, !.pc = "commit_user"])
        BY <2>4 DEF InsertUser, CallStatement
      <3> QED  BY <1>9, <2>4, <3>1 DEF InsertUser, CallStatement
    <2>5. CASE CommitUser(r)
      BY <1>8, <2>5 DEF CommitUser
    <2> QED  BY <1>10, <2>1, <2>2, <2>3, <2>4, <2>5 DEF Registering
  <1>11. CASE LoggingIn(r)
    <2>1. CASE ReadUser(r)
      <3>1. PICK user : CallStep(r, [calls[r] EXCEPT !.user = user, !.pc = "touch"])
        BY <2>1 DEF ReadUser, CallStatement
      <3> QED  BY <1>9, <2>1, <3>1 DEF ReadUser, CallStatement
    <2>2. CASE LoginRefused(r)
      BY <1>2, <2>2 DEF LoginRefused
    <2>3. CASE TouchUser(r)
      BY <1>8, <2>3 DEF TouchUser, CallStatement
    <2> QED  BY <1>11, <2>1, <2>2, <2>3 DEF LoggingIn
  <1>12. CASE TenantNotFound(r) \/ CallFails(r)
    BY <1>2, <1>12 DEF TenantNotFound, CallFails
  <1>13. CASE CommitPublic(r)
    BY <1>3, <1>13 DEF CommitPublic
  <1>14. CASE CallResponds(r)
    BY <1>1, <1>14 DEF CallResponds, CallStatement, NoCall, Keeps
  <1> QED  BY <1>6, <1>7, <1>10, <1>11, <1>12, <1>13, <1>14 DEF CallServe

\* An arriving login takes the next number.
LEMMA LoginApart ==
    ASSUME AInv, LoginsApart, NEW r \in Requests, NEW slug, NEW email, Login(r, slug, email)
    PROVE  LoginsApart'
  <1> DEFINE q == [NoCall EXCEPT !.op = "login", !.pc = "tenant", !.slug = slug,
                                 !.email = email, !.login = started + 1]
  <1>1. /\ started \in Nat /\ started' = started + 1 /\ UNCHANGED recorded
        /\ \A s \in Requests : calls'[s] = IF s = r THEN q ELSE calls[s]
    BY AccountsAssumption DEF Login, CallStep, AInv, RowsSound
  <1>2. q.login = started + 1 /\ q.pc = "tenant"
    BY DEF NoCall
  <1> HIDE DEF q
  <1>3. \A m \in recorded : m.login \in 1..started
    BY DEF AInv, RowsSound, LoginMark
  <1>4. ASSUME NEW s \in Requests PROVE FreshLogin(calls[s])'
    <2>1. CASE s = r
      <3>1. \A m \in recorded : m.login # started + 1
        BY <1>1, <1>3
      <3>2. started + 1 \in 1..started'
        BY <1>1
      <3> QED  BY <1>1, <1>2, <2>1, <3>1, <3>2 DEF FreshLogin
    <2>2. CASE s # r
      BY <1>1, <2>2 DEF LoginsApart, FreshLogin
    <2> QED  BY <2>1, <2>2
  <1>5. \A s \in Requests : calls[s].login # None => calls[s].login \in 1..started
    BY DEF LoginsApart, FreshLogin
  <1>6. \A s \in Requests : calls[s].login # started + 1
    BY <1>1, <1>5, AccountsAssumption
  <1>7. \A s, t \in Requests :
           s # t /\ calls'[s].login # None => calls'[s].login # calls'[t].login
    BY <1>1, <1>2, <1>6 DEF LoginsApart
  <1> QED  BY <1>4, <1>7 DEF LoginsApart

\* The mark of a login that commits is its own.
LEMMA CommitLoginApart ==
    ASSUME AInv, LoginsApart, NEW r \in Requests, CommitLogin(r)
    PROVE  /\ LoginsApart'
           /\ calls[r].login \in 1..started /\ \A m \in recorded : m.login # calls[r].login
  <1> DEFINE q == [calls[r] EXCEPT !.pc = "public"]
  <1>0. /\ calls[r] \in CallType /\ calls[r].pc = "commit_login"
        /\ calls[r].login \in 1..started /\ calls[r].login # None
    BY AccountsAssumption DEF CommitLogin, AInv, SoundCall, SoundLogin
  <1>1. /\ UNCHANGED started /\ recorded' = recorded \cup {Session(calls[r])}
        /\ \A s \in Requests : calls'[s] = IF s = r THEN q ELSE calls[s]
    BY DEF CommitLogin, CallStep, AInv
  <1>2. q.login = calls[r].login /\ q.pc = "public" /\ Session(calls[r]).login = calls[r].login
    BY <1>0 DEF CallType, Session
  <1> HIDE DEF q
  <1>3. \A m \in recorded : m.login # calls[r].login
    BY <1>0 DEF LoginsApart, FreshLogin
  <1>4. ASSUME NEW s \in Requests PROVE FreshLogin(calls[s])'
    <2>1. CASE s = r
      BY <1>0, <1>1, <1>2, <2>1 DEF FreshLogin
    <2>2. CASE s # r
      <3>1. calls[s].login # None => calls[s].login # calls[r].login
        BY <2>2 DEF LoginsApart
      <3> QED  BY <1>1, <1>2, <2>2, <3>1 DEF LoginsApart, FreshLogin
    <2> QED  BY <2>1, <2>2
  <1>5. \A s, t \in Requests :
           s # t /\ calls'[s].login # None => calls'[s].login # calls'[t].login
    BY <1>1, <1>2 DEF LoginsApart
  <1> QED  BY <1>0, <1>3, <1>4, <1>5 DEF LoginsApart

LEMMA InitDInv == AccountsInit => DInv
  <1> SUFFICES ASSUME AccountsInit PROVE DInv
    OBVIOUS
  <1>1. \A r \in Requests : Ordered(rq[r])
    BY DEF AccountsInit, Init, Idle, Ordered, Making
  <1>2. LoginsApart
    BY DEF AccountsInit, NoCall, LoginsApart, FreshLogin
  <1> QED  BY <1>1, <1>2, InitAInv DEF DInv

LEMMA DInvKeeps == DInv /\ [AccountsNext]_allVars => DInv'
  <1> SUFFICES ASSUME DInv, [AccountsNext]_allVars PROVE DInv'
    OBVIOUS
  <1>0. /\ AInv /\ TypeOK /\ LoginsApart /\ \A r \in Requests : Ordered(rq[r])
        /\ started \in Nat /\ AInv'
    BY AccountsStepKeeps, AccountsAssumption DEF DInv, AInv, IInv, RowsSound
  <1>1. ASSUME UNCHANGED <<recorded, started>>, \A r \in Requests : Keeps(calls'[r], calls[r])
        PROVE  LoginsApart'
    BY <1>0, <1>1, LoginsStayApart
  <1>2. ASSUME UNCHANGED vars
        PROVE  \A r \in Requests : Ordered(rq[r])'
    BY <1>0, <1>2 DEF vars, Ordered
  <1>3. ASSUME NEW r \in Requests, Serve(r), UNCHANGED accountVars
        PROVE  DInv'
    BY <1>0, <1>1, <1>3, ServeKeepsOrder DEF accountVars, Keeps, DInv, Ordered
  <1>4. ASSUME NEW r \in Requests, CallServe(r), UNCHANGED vars
        PROVE  DInv'
    <2>1. ASSUME NEW slug, NEW email, Login(r, slug, email) PROVE LoginsApart'
      BY <1>0, <2>1, LoginApart
    <2>2. CASE CommitLogin(r)
      BY <1>0, <1>2, <1>4, <2>2, CommitLoginApart DEF DInv
    <2>3. CASE ~CommitLogin(r) /\ \A slug \in Slugs, email \in Emails : ~Login(r, slug, email)
      BY <1>0, <1>1, <1>2, <1>4, <2>3, CallServeKeepsLogin DEF DInv
    <2> QED  BY <1>0, <1>2, <1>4, <2>1, <2>2, <2>3 DEF DInv
  <1>5. ASSUME NEW u \in UserIds, DisableUser(u), UNCHANGED vars
        PROVE  DInv'
    BY <1>0, <1>1, <1>2, <1>5 DEF DisableUser, Keeps, DInv
  <1>6. ASSUME Restart
        PROVE  DInv'
    <2>1. \A r \in Requests : calls'[r].login = None
      BY <1>6 DEF Restart, NoCall
    <2>2. \A r \in Requests : Ordered(rq[r])'
      BY <1>6 DEF Restart, Crash, Idle, Ordered, Making
    <2> QED  BY <1>0, <1>1, <1>6, <2>1, <2>2 DEF Restart, Keeps, DInv
  <1>7. CASE UNCHANGED allVars
    BY <1>0, <1>1, <1>2, <1>7 DEF allVars, vars, accountVars, Keeps, DInv
  <1> QED  BY <1>3, <1>4, <1>5, <1>6, <1>7 DEF AccountsNext
-----------------------------------------------------------------------------
(* Accounts implements Directory: one lemma per commit                       *)

LEMMA EntryFields ==
    ASSUME NEW t \in DOMAIN tenants
    PROVE  /\ entriesBar[t].slug = tenants[t].slug
           /\ entriesBar[t].subdomain = tenants[t].subdomain
           /\ entriesBar[t].plan = tenants[t].plan
           /\ entriesBar[t].active = tenants[t].is_active
  BY DEF entriesBar, Entry

LEMMA AccountFields ==
    ASSUME NEW u \in DOMAIN users
    PROVE  /\ accountsBar[u].tenant = users[u].tenant_id
           /\ accountsBar[u].email = users[u].email
  BY DEF accountsBar, Account

LEMMA BarsKept ==
    /\ UNCHANGED tenants => UNCHANGED entriesBar
    /\ UNCHANGED users => UNCHANGED accountsBar
  BY DEF entriesBar, accountsBar

\* The two limits of a plan are all there is in PLAN_LIMITS for it.
LEMMA PlanLimits ==
    ASSUME NEW row, Limited(row), row.plan \in Plans
    PROVE  [max_users |-> row.max_users, max_storage_gb |-> row.max_storage_gb] =
               PLAN_LIMITS[row.plan]
  BY DEF Limited, PLAN_LIMITS, Plans

\* create_tenant enters the tenant its body asked for.
LEMMA CommitCreateEnters ==
    ASSUME DInv, NEW r \in Requests, CommitCreate(r), UNCHANGED accountVars
    PROVE  Registry!Next
  <1> DEFINE id == rq[r].id
  <1>1. PICK b \in Bodies : rq[r].row = NewRow(b)
    BY DEF CommitCreate, DInv, Ordered, Making
  <1>2. /\ id \in TenantIds \ DOMAIN tenants
        /\ \A t \in DOMAIN tenants : ~Clash(tenants[t], rq[r].row)
        /\ Storable(rq[r].row)
    BY DEF CommitCreate, DInv, AInv, IInv, Sound, Making
  <1>3. Entry(NewRow(b)) = [slug |-> b.slug, subdomain |-> b.subdomain, plan |-> b.plan,
                            limits |-> PLAN_LIMITS[b.plan], active |-> TRUE]
    <2>1. NewRow(b).plan \in Plans /\ Limited(NewRow(b))
      BY <1>1, <1>2 DEF Storable, Row
    <2>2. [max_users |-> NewRow(b).max_users, max_storage_gb |-> NewRow(b).max_storage_gb] =
              PLAN_LIMITS[NewRow(b).plan]
      BY <2>1, PlanLimits
    <2> QED  BY <2>2 DEF Entry, NewRow
  <1>4. \A t \in DOMAIN tenants :
           entriesBar[t].slug # b.slug /\ entriesBar[t].subdomain # b.subdomain
    BY <1>1, <1>2, EntryFields DEF Clash, NewRow
  <1>5. tenants' = [t \in DOMAIN tenants \cup {id} |-> IF t = id THEN NewRow(b) ELSE tenants[t]]
    BY <1>1 DEF CommitCreate
  <1>6. entriesBar' = [t \in DOMAIN tenants \cup {id} |->
                          IF t = id THEN Entry(NewRow(b)) ELSE entriesBar[t]]
    <2>1. DOMAIN tenants' = DOMAIN tenants \cup {id}
      BY <1>5
    <2>2. \A t \in DOMAIN tenants \cup {id} :
             Entry(tenants'[t]) = IF t = id THEN Entry(NewRow(b)) ELSE Entry(tenants[t])
      BY <1>5
    <2> QED  BY <2>1, <2>2 DEF entriesBar
  <1>7. DOMAIN entriesBar = DOMAIN tenants
    BY DEF entriesBar
  <1>8. UNCHANGED <<accountsBar, recorded, sessions>>
    BY BarsKept DEF accountVars
  <1> HIDE DEF id
  <1>9. Registry!Enter(id, b)
    BY <1>2, <1>3, <1>4, <1>6, <1>7, <1>8 DEF Registry!Enter, Registry!Entered
  <1> QED  BY <1>1, <1>2, <1>9 DEF Registry!Next

\* change_plan amends the columns its body names, the limits with the plan, or nothing.
LEMMA CommitPatchAmends ==
    ASSUME DInv, NEW r \in Requests, CommitPatch(r), UNCHANGED accountVars
    PROVE  [Registry!Next]_(Registry!vars)
  <1> DEFINE id == rq[r].id
             patch == rq[r].patch
             row == rq[r].row
  <1>0. UNCHANGED <<accountsBar, recorded, sessions>>
    BY BarsKept DEF accountVars
  <1>1. CASE ~rq[r].wrote
    <2>1. UNCHANGED entriesBar
      BY <1>1, BarsKept DEF CommitPatch
    <2> QED  BY <1>0, <2>1 DEF Registry!vars
  <1>2. CASE rq[r].wrote
    <2>1. /\ patch \in Patches /\ id \in DOMAIN tenants
          /\ Storable(row) /\ SameNames(row, tenants[id]) /\ Asked(row, tenants[id], patch)
      BY <1>2 DEF CommitPatch, DInv, AInv, IInv, Sound, Changing
    <2>2. /\ tenants' = [tenants EXCEPT ![id] = row]
          /\ tenants \in [DOMAIN tenants -> Row]
      BY <1>2 DEF CommitPatch, DInv, AInv, IInv, TypeOK
    <2>3. /\ row.plan \in {tenants[id].plan, patch.plan} \ {None}
          /\ row.is_active \in {tenants[id].is_active, patch.is_active} \ {None}
      <3>1. row.plan # None /\ row.is_active # None
        BY <2>1, TenantsAssumption DEF Storable, Row
      <3>2. tenants[id] \in Row
        BY <2>1, <2>2
      <3> DEFINE planned == IF patch.plan = None THEN tenants[id] ELSE ApplyPlan(tenants[id], patch.plan)
                 want == Patched(tenants[id], patch)
      <3>3. /\ planned.plan = (IF patch.plan = None THEN tenants[id].plan ELSE patch.plan)
            /\ planned.is_active = tenants[id].is_active
            /\ DOMAIN planned = DOMAIN tenants[id]
        BY <3>2 DEF ApplyPlan, Row
      <3>4. want = IF patch.is_active = None THEN planned
                   ELSE [planned EXCEPT !.is_active = patch.is_active]
        BY DEF Patched
      <3>5. {"plan", "is_active"} \subseteq DOMAIN tenants[id]
        BY <3>2 DEF Row
      <3> HIDE DEF planned
      <3>6. /\ want.plan = planned.plan
            /\ want.is_active = (IF patch.is_active = None THEN planned.is_active
                                                           ELSE patch.is_active)
        BY <3>3, <3>4, <3>5
      <3>7. \/ row.plan = tenants[id].plan \/ row.plan = want.plan
        BY <2>1 DEF Asked
      <3>8. row.is_active = tenants[id].is_active \/ row.is_active = want.is_active
        BY <2>1 DEF Asked
      <3> HIDE DEF want
      <3> QED  BY <3>1, <3>3, <3>6, <3>7, <3>8
    <2>4. Entry(row) = [slug |-> entriesBar[id].slug, subdomain |-> entriesBar[id].subdomain,
                        plan |-> row.plan, limits |-> PLAN_LIMITS[row.plan],
                        active |-> row.is_active]
      <3>1. [max_users |-> row.max_users, max_storage_gb |-> row.max_storage_gb] =
                PLAN_LIMITS[row.plan]
        BY <2>1, PlanLimits DEF Storable, Row
      <3>2. entriesBar[id].slug = row.slug /\ entriesBar[id].subdomain = row.subdomain
        BY <2>1, EntryFields DEF SameNames
      <3> QED  BY <3>1, <3>2 DEF Entry
    <2>5. entriesBar' = [entriesBar EXCEPT ![id] = Entry(row)]
      <3>1. DOMAIN tenants' = DOMAIN tenants
        BY <2>2
      <3>2. \A t \in DOMAIN tenants :
               Entry(tenants'[t]) = IF t = id THEN Entry(row) ELSE Entry(tenants[t])
        BY <2>2
      <3> QED  BY <2>1, <3>1, <3>2 DEF entriesBar
    <2>6. id \in DOMAIN entriesBar
      BY <2>1 DEF entriesBar
    <2>7. /\ entriesBar[id].plan = tenants[id].plan
          /\ entriesBar[id].active = tenants[id].is_active
      BY <2>1, EntryFields
    <2> HIDE DEF id, patch, row
    <2>8. Registry!Amend(id, patch)
      BY <1>0, <2>3, <2>4, <2>5, <2>7 DEF Registry!Amend
    <2> QED  BY <2>1, <2>6, <2>8 DEF Registry!Next, Registry!Entered
  <1> QED  BY <1>1, <1>2

\* register_user enters an account that its tenant does not have, with a role of the tenant.
LEMMA CommitUserEnrolls ==
    ASSUME DInv, NEW r \in Requests, CommitUser(r), UNCHANGED vars
    PROVE  Registry!Next
  <1> DEFINE p == calls[r]
             row == [schema |-> SchemaOf(p.tenant), tenant_id |-> p.tenant, email |-> p.email,
                     role |-> p.role, is_active |-> TRUE, last_login |-> None]
             post == IF p.role = None THEN None ELSE Post(p.role)
  <1>1. /\ p \in CallType /\ p.pc = "commit_user" /\ p.op = "register"
        /\ p.email \in Emails /\ p.tenant \in DOMAIN tenants
        /\ p.role # None => p.role.tenant_id = p.tenant
        /\ p.user \in UserIds \ DOMAIN users
        /\ \A u \in DOMAIN users : ~SameAccount(u, p)
    BY DEF CommitUser, DInv, AInv, SoundCall, SoundRegistration
  <1>2. users' = [u \in DOMAIN users \cup {p.user} |-> IF u = p.user THEN row ELSE users[u]]
    BY DEF CommitUser
  <1>3. post \in Registry!Posts(p.tenant) \cup {None}
    <2>1. CASE p.role = None
      BY <2>1
    <2>2. CASE p.role # None
      <3>1. p.role \in roles
        BY <1>1, <2>2 DEF CallType
      <3>2. p.role.name \in {"admin", "viewer"}
        BY <3>1 DEF DInv, AInv, IInv, TypeOK
      <3> QED  BY <1>1, <2>2, <3>2 DEF Post, Registry!Posts
    <2> QED  BY <2>1, <2>2
  <1>4. Account(row) = [tenant |-> p.tenant, email |-> p.email, post |-> post, active |-> TRUE]
    BY DEF Account
  <1>5. \A u \in DOMAIN users :
           ~(accountsBar[u].tenant = p.tenant /\ accountsBar[u].email = p.email)
    <2>1. \A u \in DOMAIN users : users[u].schema = SchemaOf(users[u].tenant_id)
      BY DEF DInv, AInv, RowsSound, AccountsStayHome
    <2> QED  BY <1>1, <2>1, AccountFields DEF SameAccount
  <1> HIDE DEF row, post
  <1>6. accountsBar' = [u \in DOMAIN users \cup {p.user} |->
                           IF u = p.user THEN Account(row) ELSE accountsBar[u]]
    <2>1. DOMAIN users' = DOMAIN users \cup {p.user}
      BY <1>2
    <2>2. \A u \in DOMAIN users \cup {p.user} :
             Account(users'[u]) = IF u = p.user THEN Account(row) ELSE Account(users[u])
      BY <1>2
    <2> QED  BY <2>1, <2>2 DEF accountsBar
  <1>7. DOMAIN accountsBar = DOMAIN users /\ DOMAIN entriesBar = DOMAIN tenants
    BY DEF accountsBar, entriesBar
  <1>8. UNCHANGED <<entriesBar, recorded, sessions>>
    BY BarsKept DEF CommitUser, vars
  <1> HIDE DEF p
  <1>9. Registry!Enroll(p.user, p.tenant, p.email, post)
    BY <1>1, <1>4, <1>5, <1>6, <1>7, <1>8 DEF Registry!Enroll, Registry!Enrolled
  <1> QED  BY <1>1, <1>3, <1>7, <1>9 DEF Registry!Next, Registry!Entered

\* What is written in another column of an account is not in the directory.
LEMMA OtherColumn ==
    ASSUME NEW u \in DOMAIN users, NEW row, users' = [users EXCEPT ![u] = row],
           Account(row) = Account(users[u])
    PROVE  accountsBar' = accountsBar
  <1>1. DOMAIN users' = DOMAIN users
    OBVIOUS
  <1>2. \A v \in DOMAIN users : Account(users'[v]) = Account(users[v])
    OBVIOUS
  <1> QED  BY <1>1, <1>2 DEF accountsBar

\* A login's tenant transaction leaves its mark, and only once.
LEMMA CommitLoginMarks ==
    ASSUME DInv, NEW r \in Requests, CommitLogin(r), UNCHANGED vars
    PROVE  Registry!Next
  <1> DEFINE p == calls[r]
             row == [users[p.user] EXCEPT !.last_login = p.login]
  <1>1. /\ p.pc = "commit_login" /\ p.op = "login"
        /\ p.user \in DOMAIN users /\ users[p.user].tenant_id = p.tenant
        /\ users[p.user] \in UserRow
    BY DEF CommitLogin, DInv, AInv, SoundCall, SoundLogin, RowsSound
  <1>2. p.login \in 1..started /\ \A m \in recorded : m.login # p.login
    BY CommitLoginApart DEF DInv
  <1>3. p.login \in 1..MaxLogins
    BY <1>2, AccountsAssumption DEF DInv, AInv, RowsSound
  <1>4. accountsBar' = accountsBar
    <2>1. users' = [users EXCEPT ![p.user] = row]
      BY DEF CommitLogin
    <2>2. Account(row) = Account(users[p.user])
      BY <1>1 DEF Account, UserRow
    <2> HIDE DEF row
    <2> QED  BY <1>1, <2>1, <2>2, OtherColumn
  <1>5. /\ recorded' = recorded \cup {[login |-> p.login, user |-> p.user, tenant |-> p.tenant]}
        /\ UNCHANGED <<entriesBar, sessions>>
    BY BarsKept DEF CommitLogin, Session, vars
  <1>6. accountsBar[p.user].tenant = p.tenant /\ DOMAIN accountsBar = DOMAIN users
    BY <1>1, AccountFields DEF accountsBar
  <1> HIDE DEF p, row
  <1>7. Registry!Mark(p.login, p.user)
    BY <1>2, <1>4, <1>5, <1>6 DEF Registry!Mark
  <1> QED  BY <1>1, <1>3, <1>6, <1>7 DEF Registry!Next, Registry!Enrolled

\* The public transaction of a login makes a session of its mark; that of a registration
\* writes nothing.
LEMMA CommitPublicAdmits ==
    ASSUME DInv, NEW r \in Requests, CommitPublic(r), UNCHANGED vars
    PROVE  [Registry!Next]_(Registry!vars)
  <1> DEFINE new == Session(calls[r])
  <1>1. UNCHANGED <<entriesBar, accountsBar, recorded>>
    BY BarsKept DEF CommitPublic, vars
  <1>2. CASE sessions' = sessions
    BY <1>1, <1>2 DEF Registry!vars
  <1>3. CASE sessions' # sessions
    <2>1. calls[r].op = "login" /\ calls[r].pc = "public" /\ sessions' = sessions \cup {new}
      BY <1>3 DEF CommitPublic
    <2>2. new \in recorded
      BY <2>1 DEF DInv, AInv, SoundCall, SoundLogin
    <2> HIDE DEF new
    <2>3. new \notin sessions
      BY <1>3, <2>1
    <2>4. Registry!Admit(new)
      BY <1>1, <2>1, <2>2, <2>3 DEF Registry!Admit
    <2> QED  BY <2>2, <2>4 DEF Registry!Next
  <1> QED  BY <1>2, <1>3

LEMMA SuspendedAccount ==
    ASSUME NEW t, NEW e, NEW p, NEW x, NEW y, NEW d,
           d = [tenant |-> t, email |-> e, post |-> p, active |-> x]
    PROVE  [d EXCEPT !.active = y] = [tenant |-> t, email |-> e, post |-> p, active |-> y]
  OBVIOUS

LEMMA DisableUserSuspends ==
    ASSUME DInv, NEW u \in UserIds, DisableUser(u), UNCHANGED vars
    PROVE  Registry!Next
  <1> DEFINE row == [users[u] EXCEPT !.is_active = FALSE]
             account == [accountsBar[u] EXCEPT !.active = FALSE]
  <1>1. u \in DOMAIN users /\ users[u] \in UserRow /\ users' = [users EXCEPT ![u] = row]
    <2>1. u \in DOMAIN users /\ users' = [users EXCEPT ![u] = row]
      BY DEF DisableUser
    <2> QED  BY <2>1 DEF DInv, AInv, RowsSound
  <1>2. Account(row) = account
    <2>1. accountsBar[u] = Account(users[u])
      BY <1>1 DEF accountsBar
    <2>2. /\ row.tenant_id = users[u].tenant_id /\ row.email = users[u].email
          /\ row.role = users[u].role /\ row.is_active = FALSE
      BY <1>1 DEF UserRow
    <2> DEFINE no == FALSE
    <2>3. row.is_active = no
      BY <2>2
    <2> HIDE DEF row, no
    <2>4. Account(row) = [accountsBar[u] EXCEPT !.active = no]
      BY <2>1, <2>2, <2>3, SuspendedAccount DEF Account
    <2> QED  BY <2>4 DEF no
  <1> HIDE DEF row
  <1>3. accountsBar' = [accountsBar EXCEPT ![u] = account]
    <2> HIDE DEF account
    <2>1. DOMAIN users' = DOMAIN users
      BY <1>1
    <2>2. \A v \in DOMAIN users :
             Account(users'[v]) = IF v = u THEN account ELSE Account(users[v])
      BY <1>1, <1>2
    <2> QED  BY <1>1, <2>1, <2>2 DEF accountsBar
  <1>4. UNCHANGED <<entriesBar, recorded, sessions>>
    BY BarsKept DEF DisableUser, vars
  <1>5. Registry!Suspend(u)
    BY <1>3, <1>4 DEF Registry!Suspend
  <1>6. u \in DOMAIN accountsBar
    BY <1>1 DEF accountsBar
  <1> QED  BY <1>5, <1>6 DEF Registry!Next, Registry!Enrolled

\* Every other statement and answer is unseen in the directory.
LEMMA TenantsStatementHidden ==
    ASSUME NEW r \in Requests, Serve(r), ~CommitCreate(r), ~CommitPatch(r)
    PROVE  UNCHANGED tenants
  <1>1. CASE Arrivals(r)
    BY <1>1 DEF Arrivals, CreateRequest, PatchRequest, Arrive
  <1>2. CASE Creating(r)
    BY <1>2 DEF Creating, InsertTenant, InsertRefused, SchemaExists, SchemaMissing,
        CreateSchema, SchemaRace, CreateTables, Statement, Refused
  <1>3. CASE Patching(r)
    BY <1>3 DEF Patching, LoadTenant, TenantMissing, UpdatePlan, SetActive, Flush,
        Statement, Refused
  <1>4. CASE Respond(r) \/ Fail(r)
    BY <1>4 DEF Respond, Fail, Statement, Refused
  <1> QED  BY <1>1, <1>2, <1>3, <1>4 DEF Serve

LEMMA CallStatementHidden ==
    ASSUME NEW r \in Requests, CallServe(r), ~CommitUser(r), ~CommitLogin(r), ~CommitPublic(r)
    PROVE  UNCHANGED <<users, recorded, sessions>>
  <1>1. CASE CallArrivals(r)
    BY <1>1 DEF CallArrivals, Register, Login, CallStatement
  <1>2. CASE FindTenant(r) \/ TenantNotFound(r) \/ CallResponds(r) \/ CallFails(r)
    BY <1>2 DEF FindTenant, TenantNotFound, CallResponds, CallFails, CallStatement, CallRefused
  <1>3. CASE Registering(r)
    BY <1>3 DEF Registering, EmailTaken, RoleMissing, Checked, InsertUser, InsertClash,
        CallStatement, CallRefused
  <1>4. CASE LoggingIn(r)
    BY <1>4 DEF LoggingIn, ReadUser, LoginRefused, TouchUser, CallStatement, CallRefused
  <1> QED  BY <1>1, <1>2, <1>3, <1>4 DEF CallServe

LEMMA DirectoryStep ==
    ASSUME DInv, [AccountsNext]_allVars
    PROVE  [Registry!Next]_(Registry!vars)
  <1>1. ASSUME UNCHANGED <<tenants, users, recorded, sessions>>
        PROVE  UNCHANGED Registry!vars
    BY <1>1, BarsKept DEF Registry!vars
  <1>2. ASSUME NEW r \in Requests, Serve(r), UNCHANGED accountVars
        PROVE  [Registry!Next]_(Registry!vars)
    <2>1. CASE CommitCreate(r)
      BY <1>2, <2>1, CommitCreateEnters
    <2>2. CASE CommitPatch(r)
      BY <1>2, <2>2, CommitPatchAmends
    <2>3. CASE ~CommitCreate(r) /\ ~CommitPatch(r)
      BY <1>1, <1>2, <2>3, TenantsStatementHidden DEF accountVars
    <2> QED  BY <2>1, <2>2, <2>3
  <1>3. ASSUME NEW r \in Requests, CallServe(r), UNCHANGED vars
        PROVE  [Registry!Next]_(Registry!vars)
    <2>1. CASE CommitUser(r)
      BY <1>3, <2>1, CommitUserEnrolls
    <2>2. CASE CommitLogin(r)
      BY <1>3, <2>2, CommitLoginMarks
    <2>3. CASE CommitPublic(r)
      BY <1>3, <2>3, CommitPublicAdmits
    <2>4. CASE ~CommitUser(r) /\ ~CommitLogin(r) /\ ~CommitPublic(r)
      BY <1>1, <1>3, <2>4, CallStatementHidden DEF vars
    <2> QED  BY <2>1, <2>2, <2>3, <2>4
  <1>4. ASSUME NEW u \in UserIds, DisableUser(u), UNCHANGED vars
        PROVE  [Registry!Next]_(Registry!vars)
    BY <1>4, DisableUserSuspends
  <1>5. CASE Restart
    BY <1>1, <1>5 DEF Restart, Crash
  <1>6. CASE UNCHANGED allVars
    BY <1>1, <1>6 DEF allVars, vars, accountVars
  <1> QED  BY <1>2, <1>3, <1>4, <1>5, <1>6 DEF AccountsNext

LEMMA DirectoryInit == AccountsInit => Registry!Init
  BY DEF AccountsInit, Init, Registry!Init, entriesBar, accountsBar

\* Registrations, logins, new tenants and PATCHes, however their transactions overlap, fail
\* or die, and whichever tenants share a schema, amount to a directory written one entry at
\* a time: every commit of the code is one step of it, every other statement none.
THEOREM DirectoryRefinement == AccountsSpec => ImplementsDirectory
  <1>1. DInv /\ [AccountsNext]_allVars => [Registry!Next]_(Registry!vars)
    BY DirectoryStep
  <1> QED  BY <1>1, DirectoryInit, InitDInv, DInvKeeps, PTL
           DEF AccountsSpec, ImplementsDirectory, Registry!Spec
=============================================================================
