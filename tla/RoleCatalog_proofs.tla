-------------------------- MODULE RoleCatalog_proofs --------------------------
(* Proofs about RoleCatalog for every value of its constants.                *)
EXTENDS RoleCatalog, PermissionMatch_proofs

-----------------------------------------------------------------------------
(* The inductive invariant                                                   *)

PairType == Codenames \X Codenames

Request ==
    [op : {"none", "create_admin_role", "create_role", "assign", "revoke",
           "create_permission", "policy", "login"},
     pc : {"idle", "insert", "codename", "catalogue", "assign", "revoke", "role", "policy",
           "grants", "legacy", "issue", "reply"},
     user : Users \cup {None}, role : RoleIds \cup {None}, body : Payloads \cup {None},
     next : Nat, perm : PairType \cup {None}, effect : {"allow", "deny", None},
     claims : SUBSET Codenames, base : SUBSET PairType, begun : Nat,
     reply : {None, "created", "error", "bad_request", "not_found", "forbidden",
              "assigned", "revoked"}]

\* Role x gave codename c at some time from b to e.
Was(x, c, b, e) == \E d \in b..e : <<x, c, d>> \in held

\* The first n codenames asked for are the role's, or some administrator revoked them.
Given(q, n) ==
    \A i \in 1..n : i <= Len(q.body.codenames) =>
        <<q.role, Pair(q.body.codenames[i])>> \in role_permissions \cup revoked

\* A creation of POST /admin/roles between two of its transactions.
CreationSound(q) ==
    /\ q.pc = "insert" => /\ q.body \in Payloads /\ q.next = 1
                          /\ q.op \in {"create_admin_role", "create_role"}
    /\ q.pc = "codename" => q.op = "create_admin_role"
    /\ q.pc = "assign" => q.op \in {"assign", "create_admin_role"}
    /\ q.op = "create_admin_role" /\ q.pc \in {"codename", "assign"} =>
          q.body \in Payloads /\ q.role \in Roles /\ q.next >= 1 /\ Given(q, q.next - 1)
    /\ q.op = "create_admin_role" /\ q.pc = "assign" =>
          q.next <= Len(q.body.codenames) /\ q.perm = Pair(q.body.codenames[q.next])
    /\ q.op = "create_admin_role" /\ q.pc = "reply" /\ q.reply = "created" =>
          Given(q, Len(q.body.codenames))

GrantSound(q) ==
    /\ q.pc = "catalogue" => q.op = "create_permission" /\ q.perm \in PairType
    /\ q.pc \in {"role", "policy"} =>
          q.op = "policy" /\ q.perm \in PairType /\ q.effect \in {"allow", "deny"}
    /\ q.pc = "policy" => q.role \in Roles
    /\ q.pc = "revoke" => q.op = "revoke"

\* A login: what it saw when it began, and what its two reads have found.
LoginSound(q) ==
    q.pc \in {"grants", "legacy", "issue"} =>
        /\ q.op = "login"
        /\ q.user \in DOMAIN account /\ q.role = account[q.user] /\ q.begun <= now
        /\ q.pc = "grants" =>
              /\ q.role \in Roles
              /\ \A p \in q.base : <<q.role, p>> \in role_permissions \cup revoked
        /\ q.pc = "legacy" =>
              /\ q.role \in Roles
              /\ \A p \in q.base : <<q.role, p>> \in revoked
              /\ \A c \in Legacy(q.role) : Was(q.role, c, q.begun, now)
        /\ q.pc = "issue" =>
              /\ \A p \in q.base : <<q.role, p>> \in revoked \/ Codename(p[1], p[2]) \in q.claims
              /\ \A c \in q.claims : Was(q.role, c, q.begun, now)

Sound(q) == CreationSound(q) /\ GrantSound(q) /\ LoginSound(q)

TokenSound(tok) ==
    /\ tok.user \in DOMAIN account /\ tok.permissions \subseteq Codenames
    /\ tok.begun \in Nat /\ tok.iat \in Nat /\ tok.exp \in Nat
    /\ tok.begun <= tok.iat /\ tok.iat <= now /\ now < tok.exp
    /\ tok.role = "admin" => account[tok.user] = AdminId
    /\ \A p \in tok.base : \/ <<account[tok.user], p>> \in revoked
                           \/ Codename(p[1], p[2]) \in tok.permissions
    /\ \A c \in tok.permissions : Was(account[tok.user], c, tok.begun, tok.iat)

\* The stored rows: references, and the name that the guards trust.
StoredSound ==
    /\ Roles \subseteq RoleIds /\ \A x \in Roles : roles[x] \in Row
    /\ AdminId \in Roles /\ roles[AdminId].name = "admin"
    /\ \A x \in Roles : roles[x].name = "admin" => x = AdminId
    /\ permissions \subseteq PairType
    /\ role_permissions \subseteq Assignments
    /\ policies \subseteq [role : Roles, perm : PairType, effect : {"allow", "deny"}]
    /\ DOMAIN account \subseteq Users
    /\ \A u \in DOMAIN account : account[u] \in Roles \cup {None}
    /\ sessions \subseteq DOMAIN account

\* held knows what each role gives now.
HeldNow == \A x \in Roles : \A c \in Effective(x) : <<x, c, now>> \in held

IInv ==
    /\ now \in Nat
    /\ StoredSound
    /\ HeldNow
    /\ \A tok \in tokens : TokenSound(tok)
    /\ rq \in [Requests -> Request]
    /\ \A r \in Requests : Sound(rq[r])

-----------------------------------------------------------------------------
(* Codenames                                                                 *)

\* codename = f"{resource}:{action}" joins two codenames to one (create_permission).
LEMMA CodenameType ==
    ASSUME NEW p \in PairType
    PROVE  Codename(p[1], p[2]) \in Codenames
  <1>1. p[1] \in Seq(Segments) /\ p[2] \in Seq(Segments) /\ p[1] # <<>> /\ p[2] # <<>>
    BY DEF PairType, Codenames
  <1>2. p[1] \o p[2] \in Seq(Segments) /\ Len(p[1] \o p[2]) = Len(p[1]) + Len(p[2])
    BY <1>1
  <1>3. Len(p[1]) # 0 /\ Len(p[1]) \in Nat /\ Len(p[2]) \in Nat
    BY <1>1
  <1>4. p[1] \o p[2] # <<>>
    BY <1>2, <1>3
  <1> QED  BY <1>2, <1>4 DEF Codename, Codenames

\* A codename with a colon splits into two (create_admin_role).
LEMMA SplitType ==
    ASSUME NEW c \in Codenames, HasColon(c)
    PROVE  Pair(c) \in PairType
  <1>1. c \in Seq(Segments) /\ Len(c) > 1
    BY DEF Codenames, HasColon
  <1>2. Head(c) \in Segments
    BY <1>1
  <1>3. Resource(c) \in Codenames
    BY <1>2 DEF Resource, Codenames
  <1>4. Tail(c) \in Seq(Segments) /\ Len(Tail(c)) = Len(c) - 1
    BY <1>1
  <1>5. Tail(c) # <<>>
    <2> DEFINE tail == Tail(c)
    <2>1. tail \in Seq(Segments) /\ Len(tail) # 0
      BY <1>1, <1>4
    <2> HIDE DEF tail
    <2>2. tail # <<>>
      BY <2>1
    <2> QED  BY <2>2 DEF tail
  <1> QED  BY <1>3, <1>4, <1>5 DEF Pair, PairType, Action, Codenames

\* The codenames of the assigned permissions.
LEMMA GrantedType ==
    ASSUME permissions \subseteq PairType, NEW x
    PROVE  Granted(x) \subseteq Codenames
  BY CodenameType DEF Granted

\* The codenames of the legacy column, after the split.
LEMMA LegacyType ==
    ASSUME NEW x \in Roles, roles[x] \in Row
    PROVE  Legacy(x) \subseteq Codenames
  <1>1. roles[x].csv \in Seq(Listed)
    BY DEF Row
  <1>2. \A i \in 1..Len(roles[x].csv) : roles[x].csv[i] \in Listed
    BY <1>1
  <1>3. \A i \in 1..Len(roles[x].csv) : Split(roles[x].csv[i]) \subseteq Codenames
    BY <1>2 DEF Listed
  <1> QED  BY <1>3 DEF Legacy

-----------------------------------------------------------------------------
(* Steps that add                                                            *)

\* Whatever a step does, roles and accounts are added and never changed, a pair leaves
\* role_permissions only for revoked, and time and the histories go forward.
Grows ==
    /\ Roles \subseteq Roles' /\ \A x \in Roles : roles'[x] = roles[x]
    /\ DOMAIN account \subseteq DOMAIN account'
    /\ \A u \in DOMAIN account : account'[u] = account[u]
    /\ role_permissions \cup revoked \subseteq role_permissions' \cup revoked'
    /\ revoked \subseteq revoked'
    /\ held \subseteq held'
    /\ now' \in Nat /\ now <= now'

\* What is known of a request stays known while it stands still.
LEMMA OthersSound ==
    ASSUME IInv, Grows, NEW s \in Requests, rq'[s] = rq[s]
    PROVE  Sound(rq[s])'
  <1>1. Sound(rq[s]) /\ rq[s] \in Request /\ now \in Nat
    BY DEF IInv
  <1>2. \A n : Given(rq[s], n) => Given(rq[s], n)'
    BY DEF Grows, Given
  <1>3. CreationSound(rq[s])'
    BY <1>1, <1>2 DEF Sound, CreationSound, Grows
  <1>4. GrantSound(rq[s])'
    BY <1>1 DEF Sound, GrantSound, Grows
  <1>5. LoginSound(rq[s])'
    <2>1. ASSUME NEW c, Was(rq[s].role, c, rq[s].begun, now)
          PROVE  Was(rq[s].role, c, rq[s].begun, now)'
      <3>1. PICK d \in rq[s].begun..now : <<rq[s].role, c, d>> \in held
        BY <2>1 DEF Was
      <3>2. d \in rq[s].begun..now' /\ <<rq[s].role, c, d>> \in held'
        BY <1>1, <3>1 DEF Grows, Request
      <3> QED  BY <3>2 DEF Was
    <2>2. CASE rq[s].pc = "grants"
      BY <1>1, <2>2 DEF Sound, LoginSound, Grows, Request
    <2>3. CASE rq[s].pc = "legacy"
      <3>1. /\ rq[s].op = "login" /\ rq[s].user \in DOMAIN account
            /\ rq[s].role = account[rq[s].user] /\ rq[s].begun <= now /\ rq[s].role \in Roles
            /\ \A p \in rq[s].base : <<rq[s].role, p>> \in revoked
            /\ \A c \in Legacy(rq[s].role) : Was(rq[s].role, c, rq[s].begun, now)
        BY <1>1, <2>3 DEF Sound, LoginSound
      <3>2. Legacy(rq[s].role)' = Legacy(rq[s].role)
        BY <3>1 DEF Legacy, Grows
      <3>3. \A c \in Legacy(rq[s].role)' : Was(rq[s].role, c, rq[s].begun, now)'
        BY <2>1, <3>1, <3>2
      <3>4. rq[s].begun <= now'
        BY <1>1, <3>1 DEF Grows, Request
      <3> QED  BY <2>3, <3>1, <3>3, <3>4 DEF LoginSound, Grows
    <2>4. CASE rq[s].pc = "issue"
      <3>1. /\ rq[s].op = "login" /\ rq[s].user \in DOMAIN account
            /\ rq[s].role = account[rq[s].user] /\ rq[s].begun <= now
            /\ \A p \in rq[s].base : \/ <<rq[s].role, p>> \in revoked
                                     \/ Codename(p[1], p[2]) \in rq[s].claims
            /\ \A c \in rq[s].claims : Was(rq[s].role, c, rq[s].begun, now)
        BY <1>1, <2>4 DEF Sound, LoginSound
      <3>2. \A c \in rq[s].claims : Was(rq[s].role, c, rq[s].begun, now)'
        BY <2>1, <3>1
      <3>3. rq[s].begun <= now'
        BY <1>1, <3>1 DEF Grows, Request
      <3> QED  BY <2>4, <3>1, <3>2, <3>3 DEF LoginSound, Grows
    <2>5. CASE rq[s].pc \notin {"grants", "legacy", "issue"}
      BY <2>5 DEF LoginSound
    <2> QED  BY <2>2, <2>3, <2>4, <2>5
  <1> QED  BY <1>3, <1>4, <1>5 DEF Sound

\* A token in use keeps what it was issued with.
LEMMA TokenStays ==
    ASSUME IInv, Grows, NEW tok, TokenSound(tok), now' < tok.exp
    PROVE  TokenSound(tok)'
  <1>1. now \in Nat /\ account[tok.user]' = account[tok.user] /\ tok.user \in DOMAIN account'
    BY DEF IInv, Grows, TokenSound
  <1>2. \A c \in tok.permissions : Was(account[tok.user], c, tok.begun, tok.iat)'
    BY <1>1 DEF TokenSound, Was, Grows
  <1>3. tok.iat <= now'
    BY <1>1 DEF TokenSound, Grows
  <1> QED  BY <1>1, <1>2, <1>3 DEF TokenSound, Grows

\* A step of request r to a sound record, where the rows stay sound and held is kept up.
LEMMA StepKeeps ==
    ASSUME IInv, NEW r \in Requests, NEW q \in Request, Step(r, q), Grows, Sound(q)',
           StoredSound', HeldNow', \A tok \in tokens' : TokenSound(tok)'
    PROVE  IInv'
  <1>1. rq' \in [Requests -> Request] /\ rq'[r] = q /\ \A s \in Requests \ {r} : rq'[s] = rq[s]
    BY DEF IInv, Step
  <1>2. \A s \in Requests \ {r} : Sound(rq[s])'
    BY <1>1, OthersSound
  <1>3. Sound(rq[r])'
    BY <1>1 DEF Sound, CreationSound, GrantSound, LoginSound, Given, Was
  <1> QED  BY <1>1, <1>2, <1>3 DEF IInv, Grows

Unmoved == UNCHANGED <<stored, sessions, now, history>>

LEMMA UnmovedKeeps ==
    ASSUME IInv, Unmoved
    PROVE  /\ Grows /\ StoredSound' /\ HeldNow'
           /\ \A tok \in tokens : TokenSound(tok)'
  <1>0. /\ UNCHANGED <<roles, permissions, role_permissions, policies, account>>
        /\ UNCHANGED <<sessions, now, revoked, held>>
    BY DEF Unmoved, stored, history
  <1>1. Grows
    BY <1>0 DEF IInv, Grows, Roles
  <1>2. StoredSound'
    BY <1>0 DEF IInv, StoredSound, Roles, Assignments
  <1>3. HeldNow'
    BY <1>0 DEF IInv, HeldNow, Effective, Granted, Legacy, Roles
  <1>4. \A tok \in tokens : TokenSound(tok)'
    BY <1>0, <1>1, TokenStays DEF IInv, TokenSound
  <1> QED  BY <1>1, <1>2, <1>3, <1>4

\* A statement that reads, or an arrival: one record changes and nothing else.
LEMMA LocalStep ==
    ASSUME IInv, NEW r \in Requests, NEW q \in Request, Step(r, q), Unmoved,
           UNCHANGED tokens, Sound(q)
    PROVE  IInv'
  <1>1. /\ Grows /\ StoredSound' /\ HeldNow' /\ \A tok \in tokens : TokenSound(tok)'
    BY UnmovedKeeps
  <1>2. Sound(q)'
    BY DEF Unmoved, stored, history, Sound, CreationSound, GrantSound, LoginSound, Given, Was,
        Legacy, Roles
  <1> QED  BY <1>1, <1>2, StepKeeps

-----------------------------------------------------------------------------
(* Steps that change one request only                                        *)

LEMMA IdleSound == Idle \in Request /\ Sound(Idle)
  BY DEF Idle, Request, Sound, CreationSound, GrantSound, LoginSound

LEMMA ArrivalsKeep ==
    ASSUME IInv, NEW r \in Requests, Arrivals(r)
    PROVE  IInv'
  <1>0. ASSUME NEW q \in Request, Sound(q), Arrive(r, q)
        PROVE  IInv'
    BY <1>0, LocalStep DEF Arrive, Unmoved
  <1>1. ASSUME NEW tok \in tokens, NEW body \in Payloads,
               NEW op \in {"create_admin_role", "create_role"}, CreateRoleRequest(r, tok, op, body)
        PROVE  IInv'
    <2> DEFINE q == [Idle EXCEPT !.op = op, !.pc = "insert", !.body = body]
    <2>1. q \in Request /\ Sound(q)
      BY DEF Idle, Request, Sound, CreationSound, GrantSound, LoginSound
    <2>2. Arrive(r, q)
      BY <1>1 DEF CreateRoleRequest
    <2> HIDE DEF q
    <2> QED  BY <2>1, <2>2, <1>0
  <1>2. ASSUME NEW tok \in tokens, Forbidden(r, tok)
        PROVE  IInv'
    <2> DEFINE q == [Idle EXCEPT !.op = "create_admin_role", !.pc = "reply", !.reply = "forbidden"]
    <2>1. q \in Request /\ Sound(q)
      BY DEF Idle, Request, Sound, CreationSound, GrantSound, LoginSound
    <2>2. Arrive(r, q)
      BY <1>2 DEF Forbidden
    <2> HIDE DEF q
    <2> QED  BY <2>1, <2>2, <1>0
  <1>3. ASSUME NEW tok \in tokens, NEW x \in RoleIds \cup {None}, NEW p \in Pairs,
               NEW op \in {"assign", "revoke", "create_permission"}, GrantRequest(r, tok, op, x, p)
        PROVE  IInv'
    <2> DEFINE q == [Idle EXCEPT !.op = op, !.role = x, !.perm = p,
                                 !.pc = IF op = "create_permission" THEN "catalogue" ELSE op]
    <2>1. p \in PairType
      BY CatalogAssumption DEF PairType
    <2>2. q \in Request
      BY <2>1 DEF Idle, Request
    <2>3. Sound(q)
      BY <2>1 DEF Idle, Sound, CreationSound, GrantSound, LoginSound
    <2>4. Arrive(r, q)
      BY <1>3 DEF GrantRequest
    <2> HIDE DEF q
    <2> QED  BY <2>2, <2>3, <2>4, <1>0
  <1>4. ASSUME NEW tok \in tokens, NEW x \in RoleIds, NEW p \in Pairs,
               NEW effect \in {"allow", "deny"}, PolicyRequest(r, tok, x, p, effect)
        PROVE  IInv'
    <2> DEFINE q == [Idle EXCEPT !.op = "policy", !.pc = "role", !.role = x, !.perm = p,
                                 !.effect = effect]
    <2>1. p \in PairType
      BY CatalogAssumption DEF PairType
    <2>2. q \in Request
      BY <2>1 DEF Idle, Request
    <2>3. Sound(q)
      BY <2>1 DEF Idle, Sound, CreationSound, GrantSound, LoginSound
    <2>4. Arrive(r, q)
      BY <1>4 DEF PolicyRequest
    <2> HIDE DEF q
    <2> QED  BY <2>2, <2>3, <2>4, <1>0
  <1>5. ASSUME NEW u \in Users, Login(r, u)
        PROVE  IInv'
    <2> DEFINE base == {p \in permissions : <<account[u], p>> \in role_permissions}
               pc == IF account[u] = None THEN "issue" ELSE "grants"
               q == [Idle EXCEPT !.op = "login", !.user = u, !.role = account[u],
                                 !.begun = now, !.pc = pc, !.base = base]
    <2>1. /\ u \in DOMAIN account /\ account[u] \in Roles \cup {None} /\ Roles \subseteq RoleIds
          /\ now \in Nat /\ base \in SUBSET PairType
      BY <1>5 DEF Login, IInv, StoredSound
    <2>2. account[u] = None => base = {}
      BY CatalogAssumption DEF IInv, StoredSound, Assignments
    <2>3. /\ q \in Request /\ q.op = "login" /\ q.user = u /\ q.role = account[u]
          /\ q.begun = now /\ q.pc = pc /\ q.base = base /\ q.claims = {}
      BY <2>1 DEF Idle, Request
    <2>4. Arrive(r, q)
      BY <1>5 DEF Login
    <2>5. \A p \in base : <<account[u], p>> \in role_permissions
      OBVIOUS
    <2> HIDE DEF q, base
    <2>6. LoginSound(q)
      BY <2>1, <2>2, <2>3, <2>5 DEF LoginSound
    <2>7. CreationSound(q) /\ GrantSound(q)
      BY <2>3 DEF CreationSound, GrantSound
    <2> QED  BY <2>3, <2>4, <2>6, <2>7, <1>0 DEF Sound
  <1> QED  BY <1>1, <1>2, <1>3, <1>4, <1>5 DEF Arrivals

Replies == {None, "created", "error", "bad_request", "not_found", "forbidden", "assigned",
            "revoked"}

\* One field of a request at a time.
LEMMA SetRole ==
    ASSUME NEW p \in Request, NEW x \in RoleIds
    PROVE  LET q == [p EXCEPT !.role = x]
           IN  /\ q \in Request /\ q.role = x
               /\ q.op = p.op /\ q.body = p.body /\ q.next = p.next
  BY DEF Request

LEMMA SetPc ==
    ASSUME NEW p \in Request, NEW x \in {"codename", "assign"}
    PROVE  LET q == [p EXCEPT !.pc = x]
           IN  /\ q \in Request /\ q.pc = x /\ q.perm = p.perm
               /\ q.op = p.op /\ q.body = p.body /\ q.next = p.next /\ q.role = p.role
  BY DEF Request

LEMMA SetPerm ==
    ASSUME NEW p \in Request, NEW x \in PairType
    PROVE  LET q == [p EXCEPT !.perm = x]
           IN  /\ q \in Request /\ q.perm = x
               /\ q.op = p.op /\ q.body = p.body /\ q.next = p.next /\ q.role = p.role
  BY DEF Request

LEMMA SetNext ==
    ASSUME NEW p \in Request, NEW x \in Nat
    PROVE  LET q == [p EXCEPT !.next = x]
           IN  /\ q \in Request /\ q.next = x
               /\ q.op = p.op /\ q.body = p.body /\ q.role = p.role
  BY DEF Request

\* The record of a request that answers.
LEMMA ReplyType ==
    ASSUME NEW p \in Request, NEW x \in Replies
    PROVE  LET q == [p EXCEPT !.pc = "reply", !.reply = x]
           IN  /\ q \in Request /\ q.pc = "reply" /\ q.reply = x
               /\ q.op = p.op /\ q.body = p.body /\ q.role = p.role
  <1> DEFINE o == [p EXCEPT !.pc = "reply"]
             q == [p EXCEPT !.pc = "reply", !.reply = x]
  <1>1. o \in Request /\ o.pc = "reply" /\ o.op = p.op /\ o.body = p.body /\ o.role = p.role
    BY DEF Request
  <1>2. q = [o EXCEPT !.reply = x]
    OBVIOUS
  <1> HIDE DEF o, q
  <1>3. [o EXCEPT !.reply = x] \in Request
    BY <1>1 DEF Request, Replies
  <1>4. /\ q.pc = "reply" /\ q.reply = x /\ q.op = o.op /\ q.body = o.body /\ q.role = o.role
    BY <1>1, <1>2 DEF Request
  <1> QED  BY <1>1, <1>2, <1>3, <1>4 DEF q

\* A reply that claims nothing.
LEMMA RefusalKeeps ==
    ASSUME IInv, NEW r \in Requests,
           NEW x \in {"error", "bad_request", "not_found", "forbidden"},
           Answer(r, x), Unmoved, UNCHANGED tokens
    PROVE  IInv'
  <1> DEFINE q == [rq[r] EXCEPT !.pc = "reply", !.reply = x]
  <1>1. q \in Request /\ q.pc = "reply" /\ q.reply = x
    <2>1. rq[r] \in Request /\ x \in Replies
      BY DEF IInv, Replies
    <2> QED  BY <2>1, ReplyType
  <1>2. Step(r, q)
    BY DEF Answer
  <1> HIDE DEF q
  <1>3. Sound(q)
    BY <1>1 DEF Sound, CreationSound, GrantSound, LoginSound
  <1> QED  BY <1>1, <1>2, <1>3, LocalStep

\* The end of the loop: all codenames have had their turn.
LEMMA FinishKeeps ==
    ASSUME IInv, NEW r \in Requests, Finish(r)
    PROVE  IInv'
  <1> DEFINE q == [rq[r] EXCEPT !.pc = "reply", !.reply = "created"]
  <1>1. /\ rq[r] \in Request /\ CreationSound(rq[r]) /\ rq[r].pc = "codename"
        /\ rq[r].next > Len(rq[r].body.codenames)
    BY DEF Finish, IInv, Sound, Codenames_of
  <1>2. /\ q \in Request /\ q.pc = "reply" /\ q.reply = "created" /\ q.op = rq[r].op
        /\ q.body = rq[r].body /\ q.role = rq[r].role
    BY <1>1 DEF Request
  <1>3. Step(r, q)
    BY DEF Finish, Answer
  <1>4. /\ rq[r].body \in Payloads /\ rq[r].next \in Nat /\ Given(rq[r], rq[r].next - 1)
    BY <1>1 DEF CreationSound, Request
  <1>5. Len(rq[r].body.codenames) \in Nat
    BY <1>4, CatalogAssumption
  <1> HIDE DEF q
  <1> DEFINE n == Len(rq[r].body.codenames)
             Has(i) == <<rq[r].role, Pair(rq[r].body.codenames[i])>> \in role_permissions \cup revoked
  <1>6. Given(q, Len(q.body.codenames))
    <2>1. ASSUME NEW i \in 1..n
          PROVE  Has(i)
      <3>1. i \in 1..(rq[r].next - 1) /\ i <= n
        BY <1>1, <1>4, <1>5
      <3> QED  BY <1>4, <3>1 DEF Given
    <2> HIDE DEF n
    <2>2. \A i \in 1..n : i <= n => Has(i)
      BY <2>1
    <2> QED  BY <1>2, <2>2 DEF Given, n
  <1>7. Sound(q)
    BY <1>2, <1>6 DEF Sound, CreationSound, GrantSound, LoginSound
  <1> QED  BY <1>2, <1>3, <1>7, LocalStep DEF Finish, Unmoved

LEMMA LookUpRoleKeeps ==
    ASSUME IInv, NEW r \in Requests, LookUpRole(r)
    PROVE  IInv'
  <1>1. CASE rq[r].role \notin Roles
    BY <1>1, RefusalKeeps DEF LookUpRole, Unmoved
  <1>2. CASE rq[r].role \in Roles
    <2> DEFINE q == [rq[r] EXCEPT !.pc = "policy"]
    <2>1. rq[r] \in Request /\ GrantSound(rq[r]) /\ rq[r].pc = "role"
      BY DEF LookUpRole, IInv, Sound
    <2>2. /\ q \in Request /\ q.pc = "policy" /\ q.op = rq[r].op /\ q.role = rq[r].role
          /\ q.perm = rq[r].perm /\ q.effect = rq[r].effect
      BY <2>1 DEF Request
    <2>3. Step(r, q) /\ Unmoved /\ UNCHANGED tokens
      BY <1>2 DEF LookUpRole, Unmoved
    <2> HIDE DEF q
    <2>4. Sound(q)
      BY <1>2, <2>1, <2>2 DEF Sound, CreationSound, GrantSound, LoginSound
    <2> QED  BY <2>2, <2>3, <2>4, LocalStep
  <1> QED  BY <1>1, <1>2

\* What the role gives at this moment was recorded for this moment.
LEMMA EffectiveWas ==
    ASSUME IInv, NEW x \in Roles, NEW c \in Effective(x), NEW b \in Nat, b <= now
    PROVE  Was(x, c, b, now)
  <1>1. <<x, c, now>> \in held /\ now \in b..now
    BY DEF IInv, HeldNow
  <1> QED  BY <1>1 DEF Was

\* The first read of a login.  Where it finds nothing, everything seen at the start was
\* revoked, and the legacy column is what the role gives now.
LEMMA LoadGrantsKeeps ==
    ASSUME IInv, NEW r \in Requests, LoadGrants(r)
    PROVE  IInv'
  <1> DEFINE x == rq[r].role
             codenames == Granted(x)
             pc == IF codenames = {} THEN "legacy" ELSE "issue"
             q == [rq[r] EXCEPT !.claims = codenames, !.pc = pc]
  <1>1. /\ rq[r] \in Request /\ rq[r].pc = "grants" /\ rq[r].op = "login"
        /\ rq[r].user \in DOMAIN account /\ x = account[rq[r].user] /\ x \in Roles
        /\ rq[r].begun \in Nat /\ rq[r].begun <= now
        /\ \A p \in rq[r].base : <<x, p>> \in role_permissions \cup revoked
    BY DEF LoadGrants, IInv, Sound, LoginSound, Request
  <1>2. codenames \in SUBSET Codenames
    BY GrantedType DEF IInv, StoredSound
  <1>3. /\ q \in Request /\ q.pc = pc /\ q.op = "login" /\ q.user = rq[r].user /\ q.role = x
        /\ q.begun = rq[r].begun /\ q.base = rq[r].base /\ q.claims = codenames
    BY <1>1, <1>2 DEF Request
  <1>4. Step(r, q) /\ Unmoved /\ UNCHANGED tokens
    BY DEF LoadGrants, Unmoved
  <1>5. ASSUME NEW p \in rq[r].base, <<x, p>> \notin revoked
        PROVE  Codename(p[1], p[2]) \in codenames
    <2>1. <<x, p>> \in role_permissions
      BY <1>1, <1>5
    <2>2. p \in permissions
      BY <2>1 DEF IInv, StoredSound, Assignments
    <2> QED  BY <2>1, <2>2 DEF Granted
  <1>6. codenames # {} => \A c \in codenames : Was(x, c, rq[r].begun, now)
    BY <1>1, EffectiveWas DEF Effective
  <1>7. codenames = {} => \A c \in Legacy(x) : Was(x, c, rq[r].begun, now)
    BY <1>1, EffectiveWas DEF Effective
  <1> HIDE DEF q, codenames
  <1>8. LoginSound(q)
    BY <1>1, <1>3, <1>5, <1>6, <1>7 DEF LoginSound
  <1>9. Sound(q)
    BY <1>3, <1>8 DEF Sound, CreationSound, GrantSound
  <1> QED  BY <1>3, <1>4, <1>9, LocalStep

\* The second read: the column never changes, whatever was assigned in between.
LEMMA LoadLegacyKeeps ==
    ASSUME IInv, NEW r \in Requests, LoadLegacy(r)
    PROVE  IInv'
  <1> DEFINE x == rq[r].role
             codenames == Legacy(x)
             q == [rq[r] EXCEPT !.claims = codenames, !.pc = "issue"]
  <1>1. /\ rq[r] \in Request /\ LoginSound(rq[r]) /\ rq[r].pc = "legacy" /\ x \in Roles
    BY DEF LoadLegacy, IInv, Sound, LoginSound
  <1>2. codenames \in SUBSET Codenames
    BY <1>1, LegacyType DEF IInv, StoredSound
  <1>3. /\ q \in Request /\ q.pc = "issue" /\ q.op = rq[r].op /\ q.user = rq[r].user
        /\ q.role = x /\ q.begun = rq[r].begun /\ q.base = rq[r].base /\ q.claims = codenames
    BY <1>1, <1>2 DEF Request
  <1>4. Step(r, q) /\ Unmoved /\ UNCHANGED tokens
    BY DEF LoadLegacy, Unmoved
  <1> HIDE DEF q
  <1>5. LoginSound(q)
    BY <1>1, <1>3 DEF LoginSound
  <1>6. Sound(q)
    BY <1>3, <1>5, <1>1 DEF Sound, CreationSound, GrantSound, LoginSound
  <1> QED  BY <1>3, <1>4, <1>6, LocalStep

LEMMA RespondKeeps ==
    ASSUME IInv, NEW r \in Requests, Respond(r)
    PROVE  IInv'
  BY IdleSound, LocalStep DEF Respond, Unmoved

-----------------------------------------------------------------------------
(* Steps that write                                                          *)

LEMMA RecordHeld ==
    ASSUME Record
    PROVE  HeldNow' /\ held \subseteq held'
  BY DEF Record, HeldNow

LEMMA TokensStay ==
    ASSUME IInv, Grows, UNCHANGED <<tokens, now>>
    PROVE  \A tok \in tokens' : TokenSound(tok)'
  <1>1. \A tok \in tokens : TokenSound(tok) /\ now' < tok.exp
    BY DEF IInv, TokenSound
  <1> QED  BY <1>1, TokenStays

LEMMA InsertRoleKeeps ==
    ASSUME IInv, NEW r \in Requests, InsertRole(r)
    PROVE  IInv'
  <1>1. PICK x \in RoleIds \ Roles :
            /\ roles' = [y \in Roles \cup {x} |->
                            IF y = x THEN [name |-> rq[r].body.name, csv |-> rq[r].body.codenames]
                            ELSE roles[y]]
            /\ Step(r, IF rq[r].op = "create_role"
                       THEN [rq[r] EXCEPT !.role = x, !.pc = "reply", !.reply = "created"]
                       ELSE [rq[r] EXCEPT !.role = x, !.pc = "codename"])
    BY DEF InsertRole
  <1>2. /\ rq[r] \in Request /\ rq[r].pc = "insert" /\ rq[r].body \in Payloads
        /\ rq[r].op \in {"create_admin_role", "create_role"} /\ rq[r].next = 1
        /\ UNCHANGED <<permissions, role_permissions, policies, account, sessions, tokens, now, revoked>>
        /\ Record /\ ~Taken(rq[r].body.name)
    BY DEF InsertRole, IInv, Sound, CreationSound, Request
  <1>3. /\ Roles' = Roles \cup {x} /\ \A y \in Roles : roles'[y] = roles[y]
        /\ roles'[x].name = rq[r].body.name /\ roles'[x].csv = rq[r].body.codenames
        /\ roles'[x] \in Row
    BY <1>1, <1>2, CatalogAssumption DEF Roles, Row, Names
  <1>4. Grows
    BY <1>2, <1>3, RecordHeld DEF Grows, IInv
  <1>5. rq[r].body.name # "admin"
    BY <1>2 DEF Taken, IInv, StoredSound
  <1>6. StoredSound'
    <2>1. \A y \in Roles' : roles'[y] \in Row /\ (roles'[y].name = "admin" => y = AdminId)
      BY <1>3, <1>5 DEF IInv, StoredSound
    <2>2. role_permissions' \subseteq Assignments'
      BY <1>2, <1>3 DEF IInv, StoredSound, Assignments
    <2>3. AdminId \in Roles' /\ roles'[AdminId].name = "admin"
      BY <1>3 DEF IInv, StoredSound
    <2>4. policies' \subseteq [role : Roles', perm : PairType, effect : {"allow", "deny"}]
      BY <1>2, <1>3 DEF IInv, StoredSound
    <2> QED  BY <1>1, <1>2, <1>3, <2>1, <2>2, <2>3, <2>4 DEF IInv, StoredSound
  <1>7. \A tok \in tokens' : TokenSound(tok)'
    BY <1>2, <1>4, TokensStay
  <1> DEFINE p == [rq[r] EXCEPT !.role = x]
  <1>8. p \in Request /\ p.role = x /\ p.op = rq[r].op /\ p.body = rq[r].body /\ p.next = 1
    BY <1>2, SetRole
  <1>9. CASE rq[r].op = "create_role"
    <2> DEFINE q == [p EXCEPT !.pc = "reply", !.reply = "created"]
    <2>1. q = [rq[r] EXCEPT !.role = x, !.pc = "reply", !.reply = "created"]
      OBVIOUS
    <2>2. Step(r, q)
      BY <1>1, <1>9, <2>1
    <2> HIDE DEF p
    <2>3. q \in Request /\ q.pc = "reply" /\ q.op = "create_role"
      BY <1>8, <1>9, ReplyType DEF Replies
    <2> HIDE DEF q
    <2>4. PICK o \in Request : Step(r, o) /\ o.pc = "reply" /\ o.op = "create_role"
      BY <2>2, <2>3
    <2>5. Sound(o)'
      BY <2>4 DEF Sound, CreationSound, GrantSound, LoginSound
    <2> QED  BY <1>2, <1>4, <1>6, <1>7, <2>4, <2>5, RecordHeld, StepKeeps
  <1>10. CASE rq[r].op = "create_admin_role"
    <2> DEFINE q == [p EXCEPT !.pc = "codename"]
    <2>1. q = [rq[r] EXCEPT !.role = x, !.pc = "codename"]
      OBVIOUS
    <2>2. Step(r, q)
      BY <1>1, <1>10, <2>1
    <2> HIDE DEF p
    <2>3. q \in Request /\ q.pc = "codename" /\ q.op = rq[r].op /\ q.role = x
          /\ q.body = rq[r].body /\ q.next = 1
      BY <1>8, SetPc
    <2> HIDE DEF q
    <2>4. PICK o \in Request : /\ Step(r, o) /\ o.pc = "codename" /\ o.role = x /\ o.next = 1
                               /\ o.op = "create_admin_role" /\ o.body \in Payloads
      BY <1>2, <1>10, <2>2, <2>3
    <2>5. Sound(o)'
      BY <1>3, <2>4 DEF Sound, CreationSound, GrantSound, LoginSound, Given
    <2> QED  BY <1>2, <1>4, <1>6, <1>7, <2>4, <2>5, RecordHeld, StepKeeps
  <1> QED  BY <1>2, <1>9, <1>10

\* A new row of the catalogue gives no role anything.
LEMMA PermissionAdded ==
    ASSUME IInv, NEW pp \in PairType, permissions' = permissions \cup {pp},
           UNCHANGED <<roles, role_permissions, policies, account, sessions, tokens, now, history>>
    PROVE  Grows /\ StoredSound' /\ HeldNow' /\ \A tok \in tokens' : TokenSound(tok)'
  <1>1. Grows
    BY DEF IInv, Grows, Roles, history
  <1>2. StoredSound'
    BY DEF IInv, StoredSound, Roles, Assignments
  <1>3. \A x \in Roles : Granted(x)' = Granted(x) /\ Legacy(x)' = Legacy(x)
    BY DEF IInv, StoredSound, Granted, Legacy, Assignments
  <1>4. HeldNow'
    BY <1>3 DEF IInv, HeldNow, Effective, Roles, history
  <1> QED  BY <1>1, <1>2, <1>4, TokensStay

LEMMA CreatePermissionKeeps ==
    ASSUME IInv, NEW r \in Requests, CreatePermission(r)
    PROVE  IInv'
  <1>0. /\ rq[r] \in Request /\ CreationSound(rq[r]) /\ GrantSound(rq[r])
        /\ UNCHANGED <<roles, role_permissions, policies, account, sessions, tokens, now, history>>
    BY DEF CreatePermission, IInv, Sound
  <1>1. CASE rq[r].pc = "catalogue"
    <2> DEFINE q == [rq[r] EXCEPT !.pc = "reply", !.reply = "created"]
    <2>1. /\ permissions' = permissions \cup {rq[r].perm} /\ rq[r].perm \in PairType
          /\ rq[r].op = "create_permission" /\ Step(r, q)
      BY <1>0, <1>1 DEF CreatePermission, GrantSound, Answer
    <2>2. q \in Request /\ q.pc = "reply" /\ q.op = rq[r].op
      BY <1>0, ReplyType DEF Replies
    <2> HIDE DEF q
    <2>3. PICK o \in Request : Step(r, o) /\ o.pc = "reply" /\ o.op = "create_permission"
      BY <2>1, <2>2
    <2>4. Sound(o)'
      BY <2>3 DEF Sound, CreationSound, GrantSound, LoginSound
    <2> QED  BY <1>0, <2>1, <2>3, <2>4, PermissionAdded, StepKeeps
  <1>2. CASE rq[r].pc = "codename"
    <2> DEFINE body == rq[r].body
               c == body.codenames[rq[r].next]
               p == [rq[r] EXCEPT !.pc = "assign"]
               q == [p EXCEPT !.perm = Pair(c)]
    <2>1. /\ rq[r].op = "create_admin_role" /\ body \in Payloads /\ rq[r].role \in Roles
          /\ rq[r].next \in Nat /\ rq[r].next >= 1 /\ Given(rq[r], rq[r].next - 1)
      BY <1>0, <1>2 DEF CreationSound, Request
    <2>2. /\ rq[r].next <= Len(body.codenames) /\ HasColon(c)
          /\ permissions' = permissions \cup {Pair(c)}
          /\ Step(r, [rq[r] EXCEPT !.pc = "assign", !.perm = Pair(c)])
      BY <1>2 DEF CreatePermission, Codenames_of
    <2>3. Pair(c) \in PairType
      <3>1. body.codenames \in Seq(Listed)
        BY <2>1, CatalogAssumption
      <3>2. c \in Listed
        BY <2>1, <2>2, <3>1
      <3>3. c \in Codenames
        BY <3>2 DEF Listed
      <3> QED  BY <2>2, <3>3, SplitType
    <2>4. q = [rq[r] EXCEPT !.pc = "assign", !.perm = Pair(c)]
      OBVIOUS
    <2>5. Step(r, q)
      BY <2>2, <2>4
    <2>6. p \in Request /\ p.op = rq[r].op /\ p.body = body /\ p.next = rq[r].next
          /\ p.role = rq[r].role /\ p.pc = "assign"
      BY <1>0, SetPc
    <2> HIDE DEF p
    <2>7. q \in Request /\ q.op = p.op /\ q.body = p.body /\ q.next = p.next
          /\ q.role = p.role /\ q.pc = p.pc /\ q.perm = Pair(c)
      BY <2>3, <2>6, SetPerm
    <2> HIDE DEF q
    <2>8. Given(q, q.next - 1)
      BY <2>1, <2>6, <2>7 DEF Given
    <2>9. PICK o \in Request :
              /\ Step(r, o) /\ o.pc = "assign" /\ o.op = "create_admin_role" /\ o.body \in Payloads
              /\ o.role \in Roles /\ o.next >= 1 /\ o.next <= Len(o.body.codenames)
              /\ o.perm = Pair(o.body.codenames[o.next]) /\ Given(o, o.next - 1)
      BY <2>1, <2>2, <2>5, <2>6, <2>7, <2>8
    <2>10. Sound(o)'
      BY <1>0, <2>9 DEF Sound, CreationSound, GrantSound, LoginSound, Given, Roles, history
    <2> QED  BY <1>0, <2>2, <2>3, <2>9, <2>10, PermissionAdded, StepKeeps
  <1> QED  BY <1>1, <1>2 DEF CreatePermission

\* Pairs assigned or revoked: the rows stay sound where every pair names a role and a
\* permission, and what a revocation takes away it notes.
LEMMA GrantsChanged ==
    ASSUME IInv, role_permissions' \subseteq Assignments,
           role_permissions \cup revoked \subseteq role_permissions' \cup revoked',
           revoked \subseteq revoked', Record,
           UNCHANGED <<roles, permissions, policies, account, sessions, tokens, now>>
    PROVE  Grows /\ StoredSound' /\ HeldNow' /\ \A tok \in tokens' : TokenSound(tok)'
  <1>1. Grows
    BY RecordHeld DEF IInv, Grows, Roles
  <1>2. StoredSound'
    BY DEF IInv, StoredSound, Roles, Assignments
  <1> QED  BY <1>1, <1>2, RecordHeld, TokensStay

LEMMA AssignPermissionKeeps ==
    ASSUME IInv, NEW r \in Requests, AssignPermission(r)
    PROVE  IInv'
  <1>0. /\ rq[r] \in Request /\ CreationSound(rq[r]) /\ rq[r].pc = "assign"
        /\ rq[r].role \in Roles /\ rq[r].perm \in permissions
        /\ role_permissions' = role_permissions \cup {<<rq[r].role, rq[r].perm>>}
        /\ UNCHANGED <<roles, permissions, policies, account, sessions, tokens, now, revoked>>
        /\ Record
    BY DEF AssignPermission, IInv, Sound
  <1>1. Grows /\ StoredSound' /\ HeldNow' /\ \A tok \in tokens' : TokenSound(tok)'
    <2>1. role_permissions' \subseteq Assignments
      BY <1>0 DEF IInv, StoredSound, Assignments
    <2> QED  BY <1>0, <2>1, GrantsChanged
  <1>2. CASE rq[r].op = "assign"
    <2> DEFINE q == [rq[r] EXCEPT !.pc = "reply", !.reply = "assigned"]
    <2>1. Step(r, q)
      BY <1>2 DEF AssignPermission, Answer
    <2>2. q \in Request /\ q.pc = "reply" /\ q.op = rq[r].op
      BY <1>0, ReplyType DEF Replies
    <2> HIDE DEF q
    <2>3. PICK o \in Request : Step(r, o) /\ o.pc = "reply" /\ o.op = "assign"
      BY <1>2, <2>1, <2>2
    <2>4. Sound(o)'
      BY <2>3 DEF Sound, CreationSound, GrantSound, LoginSound
    <2> QED  BY <1>1, <2>3, <2>4, StepKeeps
  <1>3. CASE rq[r].op # "assign"
    <2> DEFINE p == [rq[r] EXCEPT !.pc = "codename"]
               n == rq[r].next
               q == [p EXCEPT !.next = n + 1]
    <2>1. /\ rq[r].op = "create_admin_role" /\ rq[r].body \in Payloads
          /\ n \in Nat /\ n >= 1 /\ Given(rq[r], n - 1)
          /\ n <= Len(rq[r].body.codenames) /\ rq[r].perm = Pair(rq[r].body.codenames[n])
      BY <1>0, <1>3 DEF CreationSound, Request
    <2>2. q = [rq[r] EXCEPT !.pc = "codename", !.next = @ + 1]
      BY <1>0 DEF Request
    <2>3. Step(r, q)
      BY <1>3, <2>2 DEF AssignPermission
    <2>4. p \in Request /\ p.op = rq[r].op /\ p.body = rq[r].body /\ p.role = rq[r].role
          /\ p.pc = "codename"
      BY <1>0, SetPc
    <2> HIDE DEF p
    <2>5. q \in Request /\ q.op = p.op /\ q.body = p.body /\ q.role = p.role /\ q.next = n + 1
      <3> DEFINE m == n + 1
      <3>1. m \in Nat
        BY <2>1
      <3> HIDE DEF m
      <3>2. [p EXCEPT !.next = m] \in Request /\ [p EXCEPT !.next = m].next = m
            /\ [p EXCEPT !.next = m].op = p.op /\ [p EXCEPT !.next = m].body = p.body
            /\ [p EXCEPT !.next = m].role = p.role
        BY <2>4, <3>1, SetNext
      <3> QED  BY <3>2 DEF m
    <2>6. q.pc = p.pc
      BY <2>4 DEF Request
    <2> HIDE DEF q
    <2>7. PICK o \in Request :
              /\ Step(r, o) /\ o.pc = "codename" /\ o.op = "create_admin_role"
              /\ o.body = rq[r].body /\ o.role = rq[r].role /\ o.next = n + 1
      BY <2>1, <2>3, <2>4, <2>5, <2>6
    <2>8. \A i \in 1..n :
              <<o.role, Pair(o.body.codenames[i])>> \in role_permissions' \cup revoked'
      <3>1. ASSUME NEW i \in 1..n
            PROVE  <<rq[r].role, Pair(rq[r].body.codenames[i])>> \in role_permissions' \cup revoked'
        <4>1. CASE i = n
          BY <1>0, <2>1, <4>1
        <4>2. CASE i # n
          <5>1. Len(rq[r].body.codenames) \in Nat
            BY <2>1, CatalogAssumption
          <5>2. i \in 1..(n - 1) /\ i <= Len(rq[r].body.codenames)
            BY <2>1, <4>2, <5>1
          <5> QED  BY <1>0, <2>1, <5>2 DEF Given
        <4> QED  BY <4>1, <4>2
      <3> QED  BY <2>7, <3>1
    <2>9. Given(o, o.next - 1)'
      BY <2>1, <2>7, <2>8 DEF Given
    <2>10. o.body \in Payloads /\ o.role \in Roles' /\ o.next >= 1
      BY <1>0, <2>1, <2>7 DEF Roles
    <2>11. Sound(o)'
      BY <2>7, <2>9, <2>10 DEF Sound, CreationSound, GrantSound, LoginSound
    <2> QED  BY <1>1, <2>7, <2>11, StepKeeps
  <1> QED  BY <1>2, <1>3

LEMMA RevokePermissionKeeps ==
    ASSUME IInv, NEW r \in Requests, RevokePermission(r)
    PROVE  IInv'
  <1> DEFINE pair == <<rq[r].role, rq[r].perm>>
  <1>0. /\ rq[r] \in Request /\ rq[r].op = "revoke"
        /\ role_permissions' = role_permissions \ {pair} /\ Record
        /\ UNCHANGED <<roles, permissions, policies, account, sessions, tokens, now>>
    BY DEF RevokePermission, IInv, Sound, GrantSound
  <1>1. revoked' = IF pair \in role_permissions THEN revoked \cup {pair} ELSE revoked
    BY DEF RevokePermission
  <1>2. Grows /\ StoredSound' /\ HeldNow' /\ \A tok \in tokens' : TokenSound(tok)'
    <2>1. role_permissions' \subseteq Assignments
      BY <1>0 DEF IInv, StoredSound
    <2>2. role_permissions \cup revoked \subseteq role_permissions' \cup revoked'
          /\ revoked \subseteq revoked'
      BY <1>0, <1>1
    <2> QED  BY <1>0, <2>1, <2>2, GrantsChanged
  <1>3. PICK x \in {"revoked", "not_found"} : Answer(r, x)
    BY DEF RevokePermission
  <1> DEFINE q == [rq[r] EXCEPT !.pc = "reply", !.reply = x]
  <1>4. Step(r, q) /\ x \in Replies
    BY <1>3 DEF Answer, Replies
  <1>5. q \in Request /\ q.pc = "reply" /\ q.op = rq[r].op
    BY <1>0, <1>4, ReplyType
  <1> HIDE DEF q
  <1>6. PICK o \in Request : Step(r, o) /\ o.pc = "reply" /\ o.op = "revoke"
    BY <1>0, <1>4, <1>5
  <1>7. Sound(o)'
    BY <1>6 DEF Sound, CreationSound, GrantSound, LoginSound
  <1> QED  BY <1>2, <1>6, <1>7, StepKeeps

\* A second policy for the same role, resource and action is refused.
LEMMA InsertPolicyKeeps ==
    ASSUME IInv, NEW r \in Requests, InsertPolicy(r)
    PROVE  IInv'
  <1>0. /\ rq[r] \in Request /\ GrantSound(rq[r]) /\ rq[r].pc = "policy"
        /\ UNCHANGED <<roles, permissions, role_permissions, account, sessions, tokens, now, history>>
    BY DEF InsertPolicy, IInv, Sound
  <1>1. CASE \E q \in policies : SameKey(q, Policy(rq[r]))
    BY <1>0, <1>1, RefusalKeeps DEF InsertPolicy, Unmoved, stored
  <1>2. CASE ~\E q \in policies : SameKey(q, Policy(rq[r]))
    <2> DEFINE q == [rq[r] EXCEPT !.pc = "reply", !.reply = "created"]
               row == Policy(rq[r])
    <2>1. policies' = policies \cup {row} /\ Step(r, q)
      BY <1>2 DEF InsertPolicy, Answer
    <2>2. /\ row \in [role : Roles, perm : PairType, effect : {"allow", "deny"}]
          /\ rq[r].op = "policy"
      BY <1>0 DEF GrantSound, Policy
    <2>3. Grows
      BY <1>0 DEF IInv, Grows, Roles, history
    <2> HIDE DEF row
    <2>4. StoredSound'
      BY <1>0, <2>1, <2>2 DEF IInv, StoredSound, Roles, Assignments
    <2>5. HeldNow'
      BY <1>0 DEF IInv, HeldNow, Effective, Granted, Legacy, Roles, history
    <2>6. q \in Request /\ q.pc = "reply" /\ q.op = rq[r].op
      BY <1>0, ReplyType DEF Replies
    <2> HIDE DEF q
    <2>7. PICK o \in Request : Step(r, o) /\ o.pc = "reply" /\ o.op = "policy"
      BY <2>1, <2>2, <2>6
    <2>8. Sound(o)'
      BY <2>7 DEF Sound, CreationSound, GrantSound, LoginSound
    <2> QED  BY <1>0, <2>3, <2>4, <2>5, <2>7, <2>8, TokensStay, StepKeeps
  <1> QED  BY <1>1, <1>2

\* A step that leaves the requests alone.
LEMMA AsideKeeps ==
    ASSUME IInv, UNCHANGED rq, Grows, StoredSound', HeldNow', \A tok \in tokens' : TokenSound(tok)'
    PROVE  IInv'
  <1>1. \A s \in Requests : Sound(rq[s])'
    BY OthersSound
  <1> QED  BY <1>1 DEF IInv, Grows

LEMMA RegisterKeeps ==
    ASSUME IInv, NEW u \in Users, NEW x \in RoleIds \cup {None}, Register(u, x)
    PROVE  IInv'
  <1>1. /\ u \notin DOMAIN account /\ x \in Roles \cup {None}
        /\ DOMAIN account' = DOMAIN account \cup {u} /\ account'[u] = x
        /\ \A v \in DOMAIN account : account'[v] = account[v]
        /\ UNCHANGED <<roles, permissions, role_permissions, policies, sessions, tokens, rq, now, history>>
    BY DEF Register
  <1>2. Grows
    BY <1>1 DEF IInv, Grows, Roles, history
  <1>3. StoredSound'
    BY <1>1 DEF IInv, StoredSound, Roles, Assignments
  <1>4. HeldNow'
    <2>1. \A y \in Roles : Granted(y)' = Granted(y) /\ Legacy(y)' = Legacy(y)
      BY <1>1 DEF Granted, Legacy
    <2> QED  BY <1>1, <2>1 DEF IInv, HeldNow, Effective, Roles, history
  <1> QED  BY <1>1, <1>2, <1>3, <1>4, TokensStay, AsideKeeps

\* A token for user u, issued in this step.
LEMMA TokenIssued ==
    ASSUME IInv, NEW tok, TokenSound(tok), NEW u \in DOMAIN account,
           tokens' = tokens \cup {tok}, sessions' \subseteq sessions \cup {u},
           UNCHANGED <<stored, now, history>>
    PROVE  Grows /\ StoredSound' /\ HeldNow' /\ \A t \in tokens' : TokenSound(t)'
  <1>0. /\ UNCHANGED <<roles, permissions, role_permissions, policies, account>>
        /\ UNCHANGED <<now, revoked, held>>
    BY DEF stored, history
  <1>1. Grows
    BY <1>0 DEF IInv, Grows, Roles
  <1>2. StoredSound'
    BY <1>0 DEF IInv, StoredSound, Roles, Assignments
  <1>3. HeldNow'
    BY <1>0 DEF IInv, HeldNow, Effective, Granted, Legacy, Roles
  <1>4. \A t \in tokens' : TokenSound(t) /\ now' < t.exp
    BY <1>0 DEF IInv, TokenSound
  <1>5. \A t \in tokens' : TokenSound(t)'
    BY <1>1, <1>4, TokenStays
  <1> QED  BY <1>1, <1>2, <1>3, <1>5

\* The name in the token is that of the account's role, and the claims are those that
\* the login found.
LEMMA IssueAccessKeeps ==
    ASSUME IInv, NEW r \in Requests, IssueAccess(r)
    PROVE  IInv'
  <1> DEFINE x == rq[r].role
             u == rq[r].user
             name == IF x = None THEN None ELSE roles[x].name
             t == AccessToken(u, "login", x, rq[r].claims, rq[r].base, rq[r].begun)
  <1>1. /\ rq[r] \in Request /\ rq[r].pc = "issue" /\ LoginSound(rq[r]) /\ now \in Nat
        /\ tokens' = tokens \cup {t} /\ sessions' = sessions \cup {u} /\ Step(r, Idle)
        /\ UNCHANGED <<stored, now, history>>
    BY DEF IssueAccess, IInv, Sound
  <1>2. /\ u \in DOMAIN account /\ x = account[u] /\ rq[r].begun <= now /\ rq[r].begun \in Nat
        /\ rq[r].claims \subseteq Codenames
        /\ \A p \in rq[r].base : <<x, p>> \in revoked \/ Codename(p[1], p[2]) \in rq[r].claims
        /\ \A c \in rq[r].claims : Was(x, c, rq[r].begun, now)
    BY <1>1 DEF LoginSound, Request
  <1>3. name = "admin" => x = AdminId
    BY <1>2, CatalogAssumption DEF IInv, StoredSound
  <1>4. /\ t.user = u /\ t.role = name /\ t.permissions = rq[r].claims /\ t.base = rq[r].base
        /\ t.begun = rq[r].begun /\ t.iat = now /\ t.exp = now + AccessTTL
    BY DEF AccessToken
  <1>5. now + AccessTTL \in Nat /\ now < now + AccessTTL
    BY <1>1, CatalogAssumption
  <1> HIDE DEF t, name
  <1>6. TokenSound(t)
    BY <1>1, <1>2, <1>3, <1>4, <1>5 DEF TokenSound
  <1>7. Grows /\ StoredSound' /\ HeldNow' /\ \A tok \in tokens' : TokenSound(tok)'
    <2>1. PICK o : o = t /\ TokenSound(o)
      BY <1>6
    <2> QED  BY <1>1, <1>2, <2>1, TokenIssued
  <1>8. Idle \in Request /\ Sound(Idle)'
    BY IdleSound DEF Idle, Sound, CreationSound, GrantSound, LoginSound
  <1> QED  BY <1>1, <1>7, <1>8, StepKeeps

LEMMA IssueRefreshedKeeps ==
    ASSUME IInv, NEW u \in Users, IssueRefreshed(u)
    PROVE  IInv'
  <1> DEFINE t == AccessToken(u, "refresh", None, {}, {}, now)
  <1>1. /\ u \in DOMAIN account /\ now \in Nat /\ tokens' = tokens \cup {t}
        /\ UNCHANGED <<stored, sessions, rq, now, history>>
    BY DEF IssueRefreshed, IInv, StoredSound
  <1>2. /\ t.user = u /\ t.role = None /\ t.permissions = {} /\ t.base = {}
        /\ t.begun = now /\ t.iat = now /\ t.exp = now + AccessTTL
    BY DEF AccessToken
  <1>3. now + AccessTTL \in Nat /\ now < now + AccessTTL
    BY <1>1, CatalogAssumption
  <1> HIDE DEF t
  <1>4. TokenSound(t)
    BY <1>1, <1>2, <1>3, CatalogAssumption DEF TokenSound
  <1>5. Grows /\ StoredSound' /\ HeldNow' /\ \A tok \in tokens' : TokenSound(tok)'
    <2>1. PICK o : o = t /\ TokenSound(o)
      BY <1>4
    <2> QED  BY <1>1, <2>1, TokenIssued
  <1> QED  BY <1>1, <1>5, AsideKeeps

LEMMA CrashKeeps ==
    ASSUME IInv, Crash
    PROVE  IInv'
  <1>1. UNCHANGED tokens /\ Unmoved /\ rq' = [r \in Requests |-> Idle]
    BY DEF Crash, Unmoved
  <1>2. Idle \in Request /\ Sound(Idle)'
    BY IdleSound DEF Idle, Sound, CreationSound, GrantSound, LoginSound
  <1>3. rq' \in [Requests -> Request] /\ \A r \in Requests : rq'[r] = Idle
    BY <1>1, <1>2
  <1>4. \A r \in Requests : Sound(rq[r])'
    BY <1>2, <1>3 DEF Sound, CreationSound, GrantSound, LoginSound, Given, Was
  <1> QED  BY <1>1, <1>3, <1>4, UnmovedKeeps DEF IInv, Grows

LEMMA TickKeeps ==
    ASSUME IInv, Tick
    PROVE  IInv'
  <1>1. /\ now' = now + 1 /\ now \in Nat /\ Record
        /\ tokens' = {tok \in tokens : now' < tok.exp}
        /\ UNCHANGED <<roles, permissions, role_permissions, policies, account>>
        /\ UNCHANGED <<sessions, rq, revoked>>
    BY DEF Tick, IInv, stored
  <1>2. Grows
    BY <1>1, RecordHeld DEF IInv, Grows, Roles
  <1>3. StoredSound'
    BY <1>1 DEF IInv, StoredSound, Roles, Assignments
  <1>4. \A tok \in tokens' : TokenSound(tok)'
    BY <1>1, <1>2, TokenStays DEF IInv
  <1> QED  BY <1>1, <1>2, <1>3, <1>4, RecordHeld, AsideKeeps

LEMMA ProgressKeeps ==
    ASSUME IInv, NEW r \in Requests, Progress(r)
    PROVE  IInv'
  <1>1. CASE NameTaken(r)
    BY <1>1, RefusalKeeps DEF NameTaken, Unmoved
  <1>2. CASE BadCodename(r)
    BY <1>2, RefusalKeeps DEF BadCodename, Unmoved
  <1>3. CASE AssignMissing(r)
    BY <1>3, RefusalKeeps DEF AssignMissing, Unmoved
  <1>4. CASE Fail(r)
    BY <1>4, RefusalKeeps DEF Fail, Unmoved
  <1> QED  BY <1>1, <1>2, <1>3, <1>4, InsertRoleKeeps, CreatePermissionKeeps,
              AssignPermissionKeeps, FinishKeeps, RevokePermissionKeeps, LookUpRoleKeeps,
              InsertPolicyKeeps, LoadGrantsKeeps, LoadLegacyKeeps, IssueAccessKeeps,
              RespondKeeps DEF Progress

-----------------------------------------------------------------------------
(* The theorems                                                              *)

LEMMA InitIInv == Init => IInv
  <1> SUFFICES ASSUME Init PROVE IInv
    OBVIOUS
  <1>1. Star \in Listed /\ <<"read", "*">> \in Listed
    <2>1. "*" \in Segments /\ "read" \in Segments
      BY SegmentsAssumption, CatalogAssumption
    <2>2. <<"*">> \in Seq(Segments) /\ <<"*">> # <<>>
      BY <2>1
    <2>3. <<"read", "*">> \in Seq(Segments) /\ <<"read", "*">> # <<>>
      BY <2>1
    <2>4. Star \in Codenames /\ <<"read", "*">> \in Codenames
      BY <2>2, <2>3 DEF Star, Codenames
    <2> QED  BY <2>4, CatalogAssumption DEF Listed
  <1>2. /\ Roles = {AdminId, ViewerId} /\ roles[AdminId] = [name |-> "admin", csv |-> <<Star>>]
        /\ roles[ViewerId] = [name |-> "viewer", csv |-> <<<<"read", "*">>>>]
    BY CatalogAssumption DEF Init, Roles
  <1>3. \A x \in Roles : roles[x] \in Row
    <2>1. ASSUME NEW c \in Listed, NEW n \in Names
          PROVE  [name |-> n, csv |-> <<c>>] \in Row
      BY DEF Row
    <2>2. PICK c, d \in Listed : c = Star /\ d = <<"read", "*">>
      BY <1>1
    <2> QED  BY <1>2, <2>1, <2>2 DEF Names
  <1>4. StoredSound
    BY <1>2, <1>3, CatalogAssumption DEF Init, StoredSound, Assignments
  <1>5. HeldNow
    <2>1. \A x \in Roles : Granted(x) = {}
      BY DEF Init, Granted
    <2>2. Legacy(AdminId) = {Star} /\ Legacy(ViewerId) = {<<"read", "*">>}
      <3>1. /\ Legacy(AdminId) = UNION {Split(<<Star>>[i]) : i \in 1..1}
            /\ Legacy(ViewerId) = UNION {Split(<<<<"read", "*">>>>[i]) : i \in 1..1}
        BY <1>2 DEF Legacy
      <3>2. Legacy(AdminId) = Split(Star) /\ Legacy(ViewerId) = Split(<<"read", "*">>)
        BY <3>1
      <3> QED  BY <3>2, CatalogAssumption
    <2> QED  BY <1>2, <2>1, <2>2 DEF Init, HeldNow, Effective
  <1> QED  BY <1>4, <1>5, IdleSound DEF Init, IInv

\* The inductive invariant holds in every reachable state.
THEOREM Invariance == Spec => []IInv
  <1>1. ASSUME IInv, [Next]_vars
        PROVE  IInv'
    <2>1. CASE Next
      BY <1>1, <2>1, ArrivalsKeep, ProgressKeeps, RegisterKeeps, IssueRefreshedKeeps, CrashKeeps,
         TickKeeps DEF Next
    <2>2. CASE UNCHANGED vars
      <3>1. Unmoved /\ UNCHANGED <<tokens, rq>>
        BY <2>2 DEF vars, Unmoved
      <3> QED  BY <1>1, <3>1, UnmovedKeeps, AsideKeeps
    <2> QED  BY <1>1, <2>1, <2>2
  <1> QED  BY <1>1, InitIInv, PTL DEF Spec

\* Assignments, accounts and policies name rows that exist, and no token outlives its exp.
THEOREM TypeCorrect == Spec => []TypeOK
  <1>1. IInv => TypeOK
    BY DEF IInv, StoredSound, TokenSound, TypeOK, PairType
  <1> QED  BY <1>1, Invariance, PTL

\* POST /admin/roles answers 201 only for a role that has all it was asked for, but what
\* was revoked meanwhile.
THEOREM CompletedRoles == Spec => []CompletedRoleIsComplete
  <1>1. IInv => CompletedRoleIsComplete
    <2> SUFFICES ASSUME IInv, NEW r \in Requests,
                        rq[r].op = "create_admin_role", rq[r].pc = "reply", rq[r].reply = "created",
                        NEW i \in 1..Len(Codenames_of(r))
                 PROVE  <<rq[r].role, Pair(Codenames_of(r)[i])>> \in role_permissions \cup revoked
      BY DEF CompletedRoleIsComplete
    <2>1. Given(rq[r], Len(rq[r].body.codenames))
      BY DEF IInv, Sound, CreationSound
    <2>2. i \in 1..Len(rq[r].body.codenames) /\ i <= Len(rq[r].body.codenames)
      BY DEF Codenames_of
    <2> QED  BY <2>1, <2>2 DEF Given, Codenames_of
  <1> QED  BY <1>1, Invariance, PTL

\* What was assigned before a login began is in its token, unless it was revoked.
THEOREM GrantsReachTokens == Spec => []GrantsAppear
  <1>1. IInv => GrantsAppear
    BY DEF IInv, TokenSound, GrantsAppear, Login_tokens
  <1> QED  BY <1>1, Invariance, PTL

\* A claim was given by the user's role at some time during the login.
THEOREM ClaimsAreGrounded == Spec => []ClaimsWereHeld
  <1>1. IInv => ClaimsWereHeld
    BY DEF IInv, TokenSound, ClaimsWereHeld, Was
  <1> QED  BY <1>1, Invariance, PTL

\* Only an account with the role create_tenant made passes the guard for "admin".
THEOREM AdminsAreGenuine == Spec => []AdminIsTheSystemRole
  <1>1. IInv => AdminIsTheSystemRole
    BY DEF IInv, StoredSound, TokenSound, AdminIsTheSystemRole
  <1> QED  BY <1>1, Invariance, PTL

\* Whatever codenames the endpoints require, a token passes the guard of exactly those
\* its claims stand for.
THEOREM GuardsAgree == Spec => [](\A U \in SUBSET Codenames : GuardsFollowTable(U))
  <1>1. ASSUME IInv, NEW U \in SUBSET Codenames, NEW tok \in tokens
        PROVE  {c \in U : require_permission(tok.permissions, c)} =
                   U \cap UNION {StandsFor(p, U) : p \in tok.permissions}
    <2>1. tok.permissions \subseteq Codenames
      BY <1>1 DEF IInv, TokenSound
    <2>2. \A c \in U : require_permission(tok.permissions, c) <=>
                           \E p \in tok.permissions : c \in StandsFor(p, U)
      BY <2>1, AllowsWhatItStandsFor DEF require_permission
    <2> QED  BY <2>2
  <1>2. IInv => \A U \in SUBSET Codenames : GuardsFollowTable(U)
    BY <1>1 DEF GuardsFollowTable
  <1> QED  BY <1>2, Invariance, PTL

\* In particular of the codenames that guards are asked for.
THEOREM GuardsMatchTheTable == Spec => []AgreesWithTable
  <1>1. (\A U \in SUBSET Codenames : GuardsFollowTable(U)) => AgreesWithTable
    BY CatalogAssumption DEF AgreesWithTable
  <1> QED  BY <1>1, GuardsAgree, PTL
=============================================================================
