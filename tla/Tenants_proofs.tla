---------------------------- MODULE Tenants_proofs ----------------------------
(* Proofs about Tenants for every value of its constants.                    *)
EXTENDS Tenants, SequenceTheorems, TLAPS

-----------------------------------------------------------------------------
(* The inductive invariant                                                   *)

\* A row whose limits are those of its plan.
Limited(row) ==
    /\ row.max_users = PLAN_LIMITS[row.plan].max_users
    /\ row.max_storage_gb = PLAN_LIMITS[row.plan].max_storage_gb

SameNames(a, b) ==
    a.slug = b.slug /\ a.subdomain = b.subdomain /\ a.db_schema = b.db_schema

\* A row this code can store.
Storable(row) == row \in Row /\ Limited(row)

Making   == {"schema", "create_schema", "tables", "commit_create"}
Changing == {"plan", "active", "commit_patch"}

\* The plan, the limits and the activation of the row are the stored ones or those the
\* patch asks for.
Asked(row, stored, patch) ==
    LET want == Patched(stored, patch)
    IN  \/ row.is_active = stored.is_active /\ row.plan = stored.plan
        \/ row.is_active = stored.is_active /\ row.plan = want.plan
        \/ row.is_active = want.is_active /\ row.plan = stored.plan
        \/ row.is_active = want.is_active /\ row.plan = want.plan

\* What holds of a request, by how far it is.  A request that has updated its row holds
\* the lock, so the stored row is still the one the UPDATE saw; a request that has not
\* may hold a row that others have changed since.
Sound(q) ==
    /\ q.wrote => q.pc \in {"active", "commit_patch"} /\ Asked(q.row, tenants[q.id], q.patch)
    /\ q.pc = "insert" => Storable(q.row)
    /\ q.pc \in Making =>
          /\ Storable(q.row)
          /\ q.id \in TenantIds \ DOMAIN tenants
          /\ \A t \in DOMAIN tenants : ~Clash(tenants[t], q.row)
    /\ q.pc = "commit_create" => q.seeded
    /\ q.pc = "load" => q.id \in TenantIds /\ q.patch \in Patches
    /\ q.pc = "plan" => q.patch.plan # None
    /\ q.pc = "active" => q.patch.is_active # None
    /\ q.pc \in Changing =>
          /\ q.patch \in Patches
          /\ q.id \in DOMAIN tenants
          /\ Storable(q.row)
          /\ SameNames(q.row, tenants[q.id])

\* Two requests never hold the same lock: of a row, or of an index entry.
Apart(p, q) ==
    /\ p.wrote /\ q.wrote => p.id # q.id
    /\ p.pc \in Making /\ q.pc \in Making => p.id # q.id /\ ~Clash(p.row, q.row)

IInv ==
    /\ TypeOK
    /\ LimitsFollowPlan
    /\ NamesAreUnique
    /\ HomeReady
    /\ \A r \in Requests : Sound(rq[r])
    /\ \A r, s \in Requests : r # s => Apart(rq[r], rq[s])

-----------------------------------------------------------------------------
(* Rows                                                                      *)

\* The name of a schema is a string of its characters (tenant_service.py, schema_name).
LEMMA SchemaNameType ==
    ASSUME NEW slug \in Seq(Characters)
    PROVE  SchemaName(slug) \in Seq(NameCharacters)
  <1> DEFINE rest == [i \in 1..Len(slug) |-> IF slug[i] = "-" THEN "_" ELSE slug[i]]
  <1>1. Len(slug) \in Nat /\ \A i \in 1..Len(slug) : slug[i] \in Characters
    OBVIOUS
  <1>2. rest \in [1..Len(slug) -> NameCharacters]
    BY <1>1 DEF NameCharacters
  <1>3. rest \in Seq(NameCharacters)
    <2> HIDE DEF rest
    <2> QED  BY <1>1, <1>2, SeqDef
  <1>4. Prefix \in Seq(NameCharacters)
    BY DEF Prefix, NameCharacters
  <1> HIDE DEF rest
  <1>5. Prefix \o rest \in Seq(NameCharacters)
    BY <1>3, <1>4
  <1> QED  BY <1>5 DEF SchemaName, rest

\* PostgreSQL's truncation keeps a name a name.
LEMMA PhysicalType ==
    ASSUME NEW name \in Seq(NameCharacters)
    PROVE  Physical(name) \in Seq(NameCharacters)
  <1>1. NameLimit \in Nat
    BY TenantsAssumption
  <1>2. CASE Len(name) > NameLimit
    <2>1. \A i \in 1..NameLimit : name[i] \in NameCharacters
      BY <1>1, <1>2
    <2>2. SubSeq(name, 1, NameLimit) \in Seq(NameCharacters)
      BY <1>1, <1>2, <2>1
    <2> QED  BY <1>2, <2>2 DEF Physical
  <1> QED  BY <1>2 DEF Physical

\* A new tenant's row, with the limits of its plan (create_tenant).
LEMMA NewRowStorable ==
    ASSUME NEW b \in Bodies
    PROVE  Storable(NewRow(b))
  <1>1. b.slug \in Seq(Characters) /\ b.subdomain \in Seq(Characters) /\ b.plan \in Plans
    BY TenantsAssumption DEF Accepted
  <1>2. SchemaName(b.slug) \in Seq(NameCharacters)
    BY <1>1, SchemaNameType
  <1>3. PLAN_LIMITS[b.plan].max_users \in Nat /\ PLAN_LIMITS[b.plan].max_storage_gb \in Nat
    BY <1>1 DEF PLAN_LIMITS, Plans
  <1> QED  BY <1>1, <1>2, <1>3 DEF Storable, Limited, NewRow, Row

\* Limits of different plans differ in both columns: an UPDATE of the columns that differ
\* writes the plan and both limits, or none of them (PLAN_LIMITS, models/tenant.py).
LEMMA LimitsDiffer ==
    ASSUME NEW p \in Plans, NEW q \in Plans, p # q
    PROVE  /\ PLAN_LIMITS[p].max_users # PLAN_LIMITS[q].max_users
           /\ PLAN_LIMITS[p].max_storage_gb # PLAN_LIMITS[q].max_storage_gb
  BY DEF Plans, PLAN_LIMITS

\* apply_plan_limits leaves a row that can be stored, and its names.
LEMMA ApplyPlanStorable ==
    ASSUME NEW row \in Row, NEW plan \in Plans
    PROVE  Storable(ApplyPlan(row, plan)) /\ SameNames(ApplyPlan(row, plan), row)
  <1>1. PLAN_LIMITS[plan].max_users \in Nat /\ PLAN_LIMITS[plan].max_storage_gb \in Nat
    BY DEF PLAN_LIMITS, Plans
  <1> QED  BY <1>1 DEF Storable, Limited, ApplyPlan, Row, SameNames

Columns == {"slug", "subdomain", "db_schema", "plan", "max_users", "max_storage_gb", "is_active"}

Dirty(target, loaded) == {f \in DOMAIN target : target[f] # loaded[f]}

\* What an UPDATE of the dirty columns makes of the newest row.
Merged(target, loaded, newest) ==
    [f \in DOMAIN target |-> IF f \in Dirty(target, loaded) THEN target[f] ELSE newest[f]]

LEMMA RowColumns ==
    ASSUME NEW row \in Row
    PROVE  /\ DOMAIN row = Columns
           /\ row = [slug |-> row.slug, subdomain |-> row.subdomain, db_schema |-> row.db_schema,
                     plan |-> row.plan, max_users |-> row.max_users,
                     max_storage_gb |-> row.max_storage_gb, is_active |-> row.is_active]
  BY DEF Row, Columns

\* Two rows that agree in every column are one row.
LEMMA RowEquality ==
    ASSUME NEW a \in Row, NEW b, DOMAIN b = Columns, b = [f \in Columns |-> b[f]],
           \A f \in Columns : a[f] = b[f]
    PROVE  a = b
  <1>1. DOMAIN a = Columns /\ a = [f \in Columns |-> a[f]]
    BY DEF Row, Columns
  <1> QED  BY <1>1

\* update_tenant_plan with a row loaded before others changed it: what is written is the
\* newest row with the new plan, or nothing where the plan loaded is the new one.
LEMMA MergePlan ==
    ASSUME NEW loaded \in Row, Limited(loaded), NEW newest \in Row, NEW plan \in Plans
    PROVE  /\ Dirty(ApplyPlan(loaded, plan), loaded) # {} =>
                 Merged(ApplyPlan(loaded, plan), loaded, newest) = ApplyPlan(newest, plan)
  <1> DEFINE target == ApplyPlan(loaded, plan)
  <1>1. target \in Row /\ Limited(target) /\ target.plan = plan
    BY ApplyPlanStorable DEF Storable, ApplyPlan, Row
  <1>2. /\ target.slug = loaded.slug /\ target.subdomain = loaded.subdomain
        /\ target.db_schema = loaded.db_schema /\ target.is_active = loaded.is_active
    BY DEF ApplyPlan, Row
  <1>3. ApplyPlan(newest, plan) \in Row /\ Limited(ApplyPlan(newest, plan))
        /\ ApplyPlan(newest, plan).plan = plan
    BY ApplyPlanStorable DEF Storable, ApplyPlan, Row
  <1>4. LET new == ApplyPlan(newest, plan)
        IN  /\ new.slug = newest.slug /\ new.subdomain = newest.subdomain
            /\ new.db_schema = newest.db_schema /\ new.is_active = newest.is_active
    BY DEF ApplyPlan, Row
  <1> DEFINE new == ApplyPlan(newest, plan)
  <1>5. target.max_users = new.max_users /\ target.max_storage_gb = new.max_storage_gb
    BY <1>1, <1>3 DEF Limited
  <1> HIDE DEF target, new
  <1>6. DOMAIN target = Columns
    BY <1>1, RowColumns
  <1>7. ASSUME Dirty(target, loaded) # {}
        PROVE  loaded.plan # plan
    <2> SUFFICES ASSUME loaded.plan = plan
                 PROVE  FALSE
      OBVIOUS
    <2>1. target.max_users = loaded.max_users /\ target.max_storage_gb = loaded.max_storage_gb
      BY <1>1 DEF Limited
    <2> QED  BY <1>1, <1>2, <1>6, <1>7, <2>1 DEF Dirty, Columns
  <1>8. ASSUME Dirty(target, loaded) # {}
        PROVE  Merged(target, loaded, newest) = new
    <2>1. loaded.plan # plan /\ loaded.plan \in Plans
      BY <1>7, <1>8 DEF Row
    <2>2. target.max_users # loaded.max_users /\ target.max_storage_gb # loaded.max_storage_gb
      BY <1>1, <2>1, LimitsDiffer DEF Limited
    <2>3. Dirty(target, loaded) = {"plan", "max_users", "max_storage_gb"}
      BY <1>1, <1>2, <1>6, <2>1, <2>2 DEF Dirty, Columns
    <2> DEFINE m == Merged(target, loaded, newest)
    <2>4. m = [f \in Columns |-> IF f \in {"plan", "max_users", "max_storage_gb"}
                                 THEN target[f] ELSE newest[f]]
      BY <1>6, <2>3 DEF Merged
    <2> HIDE DEF m
    <2>5. \A f \in Columns : new[f] = m[f]
      BY <1>1, <1>3, <1>4, <1>5, <2>4 DEF Columns, new
    <2>6. DOMAIN m = Columns /\ m = [f \in Columns |-> m[f]]
      BY <2>4
    <2>7. new \in Row
      BY <1>3 DEF new
    <2>8. new = m
      BY <2>5, <2>6, <2>7, RowEquality
    <2> QED  BY <2>8 DEF m
  <1> QED  BY <1>8 DEF target, new

\* The activation alone: the newest row with it (change_plan, tenants.py).
LEMMA MergeActive ==
    ASSUME NEW loaded \in Row, NEW newest \in Row, NEW active \in BOOLEAN,
           Dirty([loaded EXCEPT !.is_active = active], loaded) # {}
    PROVE  Merged([loaded EXCEPT !.is_active = active], loaded, newest)
               = [newest EXCEPT !.is_active = active]
  <1> DEFINE target == [loaded EXCEPT !.is_active = active]
             new == [newest EXCEPT !.is_active = active]
  <1>1. target \in Row /\ new \in Row
    BY DEF Row
  <1>2. DOMAIN target = Columns
    BY <1>1, RowColumns
  <1>3. /\ target.is_active = active /\ new.is_active = active
        /\ \A f \in Columns \ {"is_active"} : target[f] = loaded[f] /\ new[f] = newest[f]
    BY DEF Row, Columns
  <1> HIDE DEF target, new
  <1>4. Dirty(target, loaded) = {"is_active"}
    <2>1. Dirty(target, loaded) \subseteq {"is_active"}
      BY <1>2, <1>3 DEF Dirty
    <2>2. Dirty(target, loaded) # {}
      BY DEF target
    <2> QED  BY <2>1, <2>2
  <1> DEFINE m == Merged(target, loaded, newest)
  <1>5. m = [f \in Columns |-> IF f \in {"is_active"} THEN target[f] ELSE newest[f]]
    BY <1>2, <1>4 DEF Merged
  <1> HIDE DEF m
  <1>6. \A f \in Columns : new[f] = m[f]
    BY <1>3, <1>5
  <1>7. DOMAIN m = Columns /\ m = [f \in Columns |-> m[f]]
    BY <1>5
  <1>8. new = m
    BY <1>1, <1>6, <1>7, RowEquality
  <1> QED  BY <1>8 DEF target, new, m

-----------------------------------------------------------------------------
(* Steps that change one request only                                        *)

\* The invariant is kept by a step that leaves the stored rows alone and puts one request
\* into a record that is sound and apart from the other requests.
LEMMA LocalStep ==
    ASSUME IInv, NEW r \in Requests, NEW q \in Call, Statement(r, q), Sound(q),
           \A s \in Requests \ {r} : Apart(q, rq[s])
    PROVE  IInv'
  <1>1. /\ rq' \in [Requests -> Call] /\ rq'[r] = q
        /\ \A s \in Requests \ {r} : rq'[s] = rq[s]
        /\ UNCHANGED <<tenants, schemas, roles>>
    BY DEF IInv, TypeOK, Statement, Step
  <1>2. TypeOK' /\ LimitsFollowPlan' /\ NamesAreUnique' /\ HomeReady'
    BY <1>1 DEF IInv, TypeOK, LimitsFollowPlan, NamesAreUnique, HomeReady
  <1>3. ASSUME NEW s \in Requests
        PROVE  Sound(rq[s])'
    <2>1. Sound(rq'[s])
      BY <1>1 DEF IInv
    <2> QED  BY <1>1, <2>1 DEF Sound
  <1>4. ASSUME NEW s \in Requests, NEW u \in Requests, s # u
        PROVE  Apart(rq[s], rq[u])'
    <2>1. CASE s = r
      BY <1>1, <1>4, <2>1 DEF Apart
    <2>2. CASE u = r
      <3>1. Apart(q, rq[s])
        BY <1>4, <2>2
      <3> QED  BY <1>1, <1>4, <2>2, <3>1 DEF Apart, Clash
    <2>3. CASE s # r /\ u # r
      BY <1>1, <1>4, <2>3 DEF IInv, Apart
    <2> QED  BY <2>1, <2>2, <2>3
  <1> QED  BY <1>2, <1>3, <1>4 DEF IInv

LEMMA IdleSound ==
    ASSUME NEW x \in {None, "created", "patched", "not_found", "error"}
    PROVE  LET q == [Idle EXCEPT !.pc = "reply", !.reply = x]
           IN  /\ q \in Call /\ Sound(q) /\ \A p : Apart(q, p)
               /\ Idle \in Call /\ Sound(Idle) /\ \A p : Apart(Idle, p)
  BY DEF Idle, Call, Sound, Apart, Making, Changing

LEMMA InitIInv == Init => IInv
  <1> SUFFICES ASSUME Init PROVE IInv
    OBVIOUS
  <1>1. Idle \in Call /\ Sound(Idle) /\ Apart(Idle, Idle)
    BY IdleSound
  <1>2. TypeOK
    BY <1>1 DEF Init, TypeOK
  <1>3. LimitsFollowPlan /\ NamesAreUnique /\ HomeReady
    BY DEF Init, LimitsFollowPlan, NamesAreUnique, HomeReady
  <1> QED  BY <1>1, <1>2, <1>3 DEF Init, IInv

\* A refusal rolls the request's transaction back.
LEMMA RefusedKeeps ==
    ASSUME IInv, NEW r \in Requests, NEW x \in {"not_found", "error"}, Refused(r, x)
    PROVE  IInv'
  <1> DEFINE q == [Idle EXCEPT !.pc = "reply", !.reply = x]
  <1>1. q \in Call /\ Sound(q) /\ \A p : Apart(q, p)
    BY IdleSound
  <1>2. Statement(r, q)
    BY DEF Refused, Answer, Statement
  <1> HIDE DEF q
  <1> QED  BY <1>1, <1>2, LocalStep

LEMMA ArrivalsKeep ==
    ASSUME IInv, NEW r \in Requests, Arrivals(r)
    PROVE  IInv'
  <1>1. ASSUME NEW b \in Bodies, CreateRequest(r, b)
        PROVE  IInv'
    <2> DEFINE q == [Idle EXCEPT !.op = "create", !.pc = "insert", !.row = NewRow(b)]
    <2>1. Storable(NewRow(b)) /\ NewRow(b) \in Row
      BY NewRowStorable DEF Storable
    <2>2. q \in Call
      BY <2>1 DEF Call, Idle
    <2>3. Sound(q) /\ \A p : Apart(q, p)
      BY <2>1 DEF Sound, Apart, Idle, Making, Changing
    <2>4. Statement(r, q)
      BY <1>1 DEF CreateRequest, Arrive, Statement
    <2> HIDE DEF q
    <2> QED  BY <2>2, <2>3, <2>4, LocalStep
  <1>2. ASSUME NEW id \in TenantIds, NEW patch \in Patches, PatchRequest(r, id, patch)
        PROVE  IInv'
    <2> DEFINE q == [Idle EXCEPT !.op = "patch", !.pc = "load", !.id = id, !.patch = patch]
    <2>1. q \in Call
      BY DEF Call, Idle
    <2>2. Sound(q) /\ \A p : Apart(q, p)
      BY DEF Sound, Apart, Idle, Making, Changing
    <2>3. Statement(r, q)
      BY <1>2 DEF PatchRequest, Arrive, Statement
    <2> HIDE DEF q
    <2> QED  BY <2>1, <2>2, <2>3, LocalStep
  <1> QED  BY <1>1, <1>2 DEF Arrivals

-----------------------------------------------------------------------------
(* POST /tenants/                                                            *)

\* INSERT: a fresh id, and no unique column that a stored or an uncommitted row has.
LEMMA InsertTenantKeeps ==
    ASSUME IInv, NEW r \in Requests, InsertTenant(r)
    PROVE  IInv'
  <1>1. PICK id \in TenantIds \ (DOMAIN tenants \cup {rq[s].id : s \in Requests}) :
            Statement(r, [rq[r] EXCEPT !.id = id, !.pc = "schema"])
    BY DEF InsertTenant
  <1> DEFINE q == [rq[r] EXCEPT !.id = id, !.pc = "schema"]
  <1>2. /\ rq[r] \in Call /\ rq[r].pc = "insert" /\ Sound(rq[r]) /\ ~rq[r].wrote
    BY DEF InsertTenant, IInv, TypeOK, Sound
  <1>3. /\ q \in Call /\ q.id = id /\ q.pc = "schema" /\ q.row = rq[r].row /\ ~q.wrote
    BY <1>1, <1>2 DEF Call
  <1>4. Sound(q)
    BY <1>1, <1>2, <1>3 DEF InsertTenant, Duplicate, Sound, Making, Changing
  <1>5. ASSUME NEW s \in Requests \ {r}
        PROVE  Apart(q, rq[s])
    <2>1. rq[s].id # id
      BY <1>1
    <2>2. rq[s].pc \in Making => ~Clash(rq[s].row, rq[r].row)
      BY DEF InsertTenant, Inserted, Making
    <2> QED  BY <1>3, <2>1, <2>2 DEF Apart, Clash
  <1> HIDE DEF q
  <1> QED  BY <1>1, <1>3, <1>4, <1>5, LocalStep DEF q

\* The statements between the INSERT and the commit change only what the request holds.
LEMMA BuildKeeps ==
    ASSUME IInv, NEW r \in Requests,
           SchemaExists(r) \/ SchemaMissing(r) \/ CreateSchema(r) \/ CreateTables(r)
    PROVE  IInv'
  <1>1. /\ rq[r] \in Call /\ rq[r].pc \in Making /\ Sound(rq[r]) /\ ~rq[r].wrote
    BY DEF SchemaExists, SchemaMissing, CreateSchema, CreateTables, IInv, TypeOK, Sound, Making
  <1>2. PICK q \in Call :
            /\ Statement(r, q) /\ q.pc \in Making /\ q.id = rq[r].id /\ q.row = rq[r].row
            /\ ~q.wrote /\ (q.pc = "commit_create" => q.seeded)
    <2>1. CASE SchemaExists(r)
      BY <1>1, <2>1 DEF SchemaExists, Call, Making
    <2>2. CASE SchemaMissing(r)
      BY <1>1, <2>2 DEF SchemaMissing, Call, Making
    <2>3. CASE CreateSchema(r)
      <3> DEFINE q == [rq[r] EXCEPT !.made = TRUE, !.pc = "tables"]
      <3>1. q \in Call /\ q.pc = "tables" /\ q.id = rq[r].id /\ q.row = rq[r].row
            /\ q.wrote = rq[r].wrote
        BY <1>1 DEF Call
      <3>2. Statement(r, q)
        BY <2>3 DEF CreateSchema
      <3> HIDE DEF q
      <3> QED  BY <1>1, <3>1, <3>2 DEF Making
    <2>4. CASE CreateTables(r)
      <3> DEFINE q == [rq[r] EXCEPT !.seeded = TRUE, !.pc = "commit_create"]
      <3>1. q \in Call /\ q.pc = "commit_create" /\ q.id = rq[r].id /\ q.row = rq[r].row
            /\ q.wrote = rq[r].wrote /\ q.seeded
        BY <1>1 DEF Call
      <3>2. Statement(r, q)
        BY <2>4 DEF CreateTables
      <3> HIDE DEF q
      <3> QED  BY <1>1, <3>1, <3>2 DEF Making
    <2> QED  BY <2>1, <2>2, <2>3, <2>4
  <1>3. Sound(q)
    BY <1>1, <1>2 DEF Sound, Making, Changing
  <1>4. \A s \in Requests \ {r} : Apart(q, rq[s])
    BY <1>1, <1>2 DEF IInv, Apart
  <1> QED  BY <1>2, <1>3, <1>4, LocalStep

\* A row that is stored, with the names of the one before or as a new tenant's: what the
\* other requests know of the table stays true.
LEMMA OthersKeep ==
    ASSUME IInv, NEW r \in Requests, NEW row \in Row, NEW id \in TenantIds,
           tenants' = [t \in DOMAIN tenants \cup {id} |-> IF t = id THEN row ELSE tenants[t]],
           \/ /\ id \in DOMAIN tenants /\ SameNames(row, tenants[id])
              /\ \A s \in Requests \ {r} : rq[s].wrote => rq[s].id # id
           \/ /\ id \notin DOMAIN tenants
              /\ \A s \in Requests \ {r} : rq[s].pc \in Making =>
                    rq[s].id # id /\ ~Clash(row, rq[s].row),
           NEW s \in Requests \ {r}, rq'[s] = rq[s]
    PROVE  Sound(rq[s])'
  <1>1. Sound(rq[s]) /\ rq[s] \in Call
    BY DEF IInv, TypeOK
  <1>2. DOMAIN tenants' = DOMAIN tenants \cup {id} /\ tenants'[id] = row
        /\ \A t \in DOMAIN tenants \ {id} : tenants'[t] = tenants[t]
    OBVIOUS
  <1>3. rq[s].wrote => rq[s].id \in DOMAIN tenants /\ rq[s].id # id
    BY <1>1 DEF Sound, Changing
  <1>4. rq[s].wrote => Asked(rq[s].row, tenants[rq[s].id], rq[s].patch)'
    BY <1>1, <1>2, <1>3 DEF Sound
  <1>5. ASSUME rq[s].pc \in Making
        PROVE  /\ rq[s].id \in TenantIds \ DOMAIN tenants'
               /\ \A t \in DOMAIN tenants' : ~Clash(tenants'[t], rq[s].row)
    <2>1. CASE id \in DOMAIN tenants
      <3>1. ~Clash(tenants[id], rq[s].row) /\ SameNames(row, tenants[id])
        BY <1>1, <1>5, <2>1 DEF Sound
      <3>2. ~Clash(row, rq[s].row)
        BY <3>1 DEF Clash, SameNames
      <3> QED  BY <1>1, <1>2, <1>5, <2>1, <3>2 DEF Sound
    <2>2. CASE id \notin DOMAIN tenants
      BY <1>1, <1>2, <1>5, <2>2 DEF Sound
    <2> QED  BY <2>1, <2>2
  <1>6. ASSUME rq[s].pc \in Changing
        PROVE  rq[s].id \in DOMAIN tenants' /\ SameNames(rq[s].row, tenants'[rq[s].id])
    <2>1. rq[s].id \in DOMAIN tenants /\ SameNames(rq[s].row, tenants[rq[s].id])
      BY <1>1, <1>6 DEF Sound
    <2>2. CASE rq[s].id = id
      BY <1>2, <2>1, <2>2 DEF SameNames
    <2> QED  BY <1>2, <2>1, <2>2
  <1> QED  BY <1>1, <1>4, <1>5, <1>6 DEF Sound

\* The answer of r's commit leaves the slot idle but for the reply, and the others apart.
LEMMA AnswerApart ==
    ASSUME IInv, NEW r \in Requests, NEW x \in {"created", "patched"}, Answer(r, x),
           \A s \in Requests \ {r} : Sound(rq[s])'
    PROVE  /\ rq' \in [Requests -> Call]
           /\ \A s \in Requests : Sound(rq[s])'
           /\ \A s, u \in Requests : s # u => Apart(rq[s], rq[u])'
  <1> DEFINE q == [Idle EXCEPT !.pc = "reply", !.reply = x]
  <1>1. q \in Call /\ q.pc = "reply" /\ ~q.wrote
    BY DEF Idle, Call
  <1>2. rq' = [rq EXCEPT ![r] = q]
    BY DEF Answer, Step
  <1> HIDE DEF q
  <1>3. rq' \in [Requests -> Call] /\ rq'[r] = q /\ \A s \in Requests \ {r} : rq'[s] = rq[s]
    BY <1>1, <1>2 DEF IInv, TypeOK
  <1>4. Sound(rq[r])'
    BY <1>1, <1>3 DEF Sound, Making, Changing
  <1>5. ASSUME NEW s \in Requests, NEW u \in Requests, s # u
        PROVE  Apart(rq[s], rq[u])'
    <2>1. CASE s = r
      BY <1>1, <1>3, <2>1 DEF Apart, Making
    <2>2. CASE u = r
      BY <1>1, <1>3, <2>2 DEF Apart, Making
    <2>3. CASE s # r /\ u # r
      BY <1>3, <1>5, <2>3 DEF IInv, Apart
    <2> QED  BY <2>1, <2>2, <2>3
  <1> QED  BY <1>3, <1>4, <1>5

LEMMA CommitCreateKeeps ==
    ASSUME IInv, NEW r \in Requests, CommitCreate(r)
    PROVE  IInv'
  <1> DEFINE q == rq[r]
             home == Physical(q.row.db_schema)
  <1>1. /\ q \in Call /\ q.seeded /\ Storable(q.row) /\ q.row \in Row /\ Limited(q.row)
        /\ q.id \in TenantIds \ DOMAIN tenants
        /\ \A t \in DOMAIN tenants : ~Clash(tenants[t], q.row)
    BY DEF CommitCreate, IInv, TypeOK, Sound, Making, Storable
  <1>2. /\ tenants' = [t \in DOMAIN tenants \cup {q.id} |-> IF t = q.id THEN q.row ELSE tenants[t]]
        /\ schemas' = schemas \cup {home}
        /\ roles' = roles \cup SystemRoles(home, q.id)
        /\ Answer(r, "created")
    BY <1>1 DEF CommitCreate, Home
  <1>3. \A s \in Requests \ {r} : rq'[s] = rq[s]
    BY <1>2 DEF Answer, Step, IInv, TypeOK
  <1>4. q.pc \in Making
    BY DEF CommitCreate, Making
  <1>5. home \in Seq(NameCharacters)
    BY <1>1, PhysicalType DEF Row
  <1>6. \A s \in Requests \ {r} : rq[s].pc \in Making =>
            rq[s].id # q.id /\ ~Clash(q.row, rq[s].row)
    BY <1>4 DEF IInv, Apart
  <1> HIDE DEF q, home
  <1>7. \A s \in Requests \ {r} : Sound(rq[s])'
    BY <1>1, <1>2, <1>3, <1>6, OthersKeep
  <1>8. /\ rq' \in [Requests -> Call]
        /\ \A s \in Requests : Sound(rq[s])'
        /\ \A s, u \in Requests : s # u => Apart(rq[s], rq[u])'
    BY <1>2, <1>7, AnswerApart
  <1>9. /\ DOMAIN tenants' = DOMAIN tenants \cup {q.id} /\ tenants'[q.id] = q.row
        /\ \A t \in DOMAIN tenants : tenants'[t] = tenants[t]
    BY <1>1, <1>2
  <1>10. TypeOK'
    <2>1. tenants' \in [DOMAIN tenants' -> Row] /\ DOMAIN tenants' \subseteq TenantIds
      BY <1>1, <1>2, <1>9 DEF IInv, TypeOK
    <2>2. \A s \in schemas' : s \in Seq(NameCharacters)
      BY <1>2, <1>5 DEF IInv, TypeOK
    <2>3. roles' \subseteq [schema : schemas', tenant_id : DOMAIN tenants', name : {"admin", "viewer"}]
      BY <1>2, <1>9 DEF IInv, TypeOK, SystemRoles
    <2> QED  BY <1>8, <2>1, <2>2, <2>3 DEF TypeOK
  <1>11. LimitsFollowPlan'
    BY <1>1, <1>9 DEF IInv, LimitsFollowPlan, Limited
  <1>12. NamesAreUnique'
    BY <1>1, <1>9 DEF IInv, NamesAreUnique, Clash
  <1>13. HomeReady'
    <2> SUFFICES ASSUME NEW t \in DOMAIN tenants'
                 PROVE  /\ Physical(tenants'[t].db_schema) \in schemas'
                        /\ SystemRoles(Physical(tenants'[t].db_schema), t) \subseteq roles'
      BY DEF HomeReady, SystemRoles
    <2>1. CASE t = q.id
      BY <1>2, <1>9, <2>1 DEF home
    <2>2. CASE t # q.id
      BY <1>2, <1>9, <2>2 DEF IInv, HomeReady
    <2> QED  BY <2>1, <2>2
  <1> QED  BY <1>8, <1>10, <1>11, <1>12, <1>13 DEF IInv

-----------------------------------------------------------------------------
(* PATCH /tenants/{tenant_id}/plan                                           *)

\* A stored row can be stored again.
LEMMA StoredStorable ==
    ASSUME IInv, NEW t \in DOMAIN tenants
    PROVE  tenants[t] \in Row /\ Storable(tenants[t])
  BY DEF IInv, TypeOK, LimitsFollowPlan, Storable, Limited

LEMMA PatchType ==
    ASSUME NEW patch \in Patches
    PROVE  /\ patch.plan # None => patch.plan \in Plans
           /\ patch.is_active # None => patch.is_active \in BOOLEAN
  BY TenantsAssumption

LEMMA LoadTenantKeeps ==
    ASSUME IInv, NEW r \in Requests, LoadTenant(r)
    PROVE  IInv'
  <1> DEFINE stored == tenants[rq[r].id]
             q == [rq[r] EXCEPT !.row = stored, !.pc = AfterLoad(rq[r].patch)]
  <1>1. /\ rq[r] \in Call /\ Sound(rq[r]) /\ rq[r].id \in DOMAIN tenants
        /\ rq[r].patch \in Patches /\ ~rq[r].wrote /\ Statement(r, q)
    BY DEF LoadTenant, IInv, TypeOK, Sound
  <1>2. stored \in Row /\ Storable(stored)
    BY <1>1, StoredStorable
  <1>3. /\ AfterLoad(rq[r].patch) \in Changing
        /\ AfterLoad(rq[r].patch) = "plan" => rq[r].patch.plan # None
        /\ AfterLoad(rq[r].patch) = "active" => rq[r].patch.is_active # None
    BY DEF AfterLoad, AfterPlan, Changing
  <1>4. /\ q \in Call /\ q.id = rq[r].id /\ q.patch = rq[r].patch /\ q.row = stored
        /\ q.pc = AfterLoad(rq[r].patch) /\ ~q.wrote
    BY <1>1, <1>2, <1>3 DEF Call, Changing
  <1>5. SameNames(q.row, stored)
    BY <1>4 DEF SameNames
  <1> HIDE DEF q
  <1>6. Sound(q)
    BY <1>1, <1>2, <1>3, <1>4, <1>5 DEF Sound, Changing, Making
  <1>7. \A s \in Requests \ {r} : Apart(q, rq[s])
    BY <1>3, <1>4 DEF Apart, Changing, Making
  <1> QED  BY <1>1, <1>4, <1>6, <1>7, LocalStep

\* What a flush leaves, when its newest row and what it makes of it can be stored and are
\* what the patch asks for.
LEMMA FlushKeeps ==
    ASSUME IInv, NEW r \in Requests, NEW target \in Row, NEW pc \in {"active", "commit_patch"},
           Flush(r, target, pc), rq[r].pc \in {"plan", "active"},
           pc = "active" => rq[r].patch.is_active # None,
           NEW new, Storable(new), SameNames(new, tenants[rq[r].id]),
           Asked(new, tenants[rq[r].id], rq[r].patch),
           Dirty(target, rq[r].row) # {} => Merged(target, rq[r].row, Newest(r)) = new
    PROVE  IInv'
  <1>1. /\ rq[r] \in Call /\ rq[r].id \in DOMAIN tenants /\ rq[r].patch \in Patches
        /\ Storable(rq[r].row) /\ SameNames(rq[r].row, tenants[rq[r].id])
        /\ rq[r].wrote => Asked(rq[r].row, tenants[rq[r].id], rq[r].patch)
    BY DEF IInv, TypeOK, Sound, Changing
  <1> DEFINE newest == Newest(r)
  <1>2. /\ newest \in Row /\ Storable(newest) /\ SameNames(newest, tenants[rq[r].id])
        /\ rq[r].wrote => Asked(newest, tenants[rq[r].id], rq[r].patch)
    BY <1>1, StoredStorable DEF Newest, Storable, SameNames
  <1> HIDE DEF newest
  <1>3. CASE Dirty(target, rq[r].row) = {}
    <2> DEFINE q == [rq[r] EXCEPT !.row = newest, !.pc = pc]
    <2>1. Statement(r, q)
      BY <1>3 DEF Flush, Dirty, newest
    <2>2. /\ q \in Call /\ q.id = rq[r].id /\ q.patch = rq[r].patch /\ q.row = newest
          /\ q.pc = pc /\ q.wrote = rq[r].wrote
      BY <1>1, <1>2 DEF Call
    <2> HIDE DEF q
    <2>3. Sound(q)
      BY <1>1, <1>2, <2>2 DEF Sound, Changing, Making
    <2>4. \A s \in Requests \ {r} : Apart(q, rq[s])
      BY <2>2 DEF IInv, Apart, Making
    <2> QED  BY <2>1, <2>2, <2>3, <2>4, LocalStep
  <1>4. CASE Dirty(target, rq[r].row) # {}
    <2> DEFINE q == [rq[r] EXCEPT !.row = new, !.wrote = TRUE, !.pc = pc]
    <2>1. /\ \A s \in Requests \ {r} : rq[s].wrote => rq[s].id # rq[r].id
          /\ Statement(r, [rq[r] EXCEPT !.row = Merged(target, rq[r].row, Newest(r)),
                                        !.wrote = TRUE, !.pc = pc])
      BY <1>4 DEF Flush, Dirty, Merged
    <2>2. Statement(r, q)
      BY <1>4, <2>1
    <2>3. new \in Row
      BY DEF Storable
    <2>4. /\ q \in Call /\ q.id = rq[r].id /\ q.patch = rq[r].patch /\ q.row = new
          /\ q.pc = pc /\ q.wrote
      BY <1>1, <2>3 DEF Call
    <2> HIDE DEF q
    <2>5. Sound(q)
      BY <1>1, <2>4 DEF Sound, Changing, Making
    <2>6. \A s \in Requests \ {r} : Apart(q, rq[s])
      BY <2>1, <2>4 DEF Apart, Making
    <2> QED  BY <2>2, <2>4, <2>5, <2>6, LocalStep
  <1> QED  BY <1>3, <1>4

LEMMA UpdatePlanKeeps ==
    ASSUME IInv, NEW r \in Requests, UpdatePlan(r)
    PROVE  IInv'
  <1> DEFINE stored == tenants[rq[r].id]
             loaded == rq[r].row
             plan == rq[r].patch.plan
             new == ApplyPlan(stored, plan)
  <1>1. /\ rq[r] \in Call /\ rq[r].pc = "plan" /\ ~rq[r].wrote /\ rq[r].id \in DOMAIN tenants
        /\ rq[r].patch \in Patches /\ plan # None
        /\ loaded \in Row /\ Limited(loaded)
    BY DEF UpdatePlan, IInv, TypeOK, Sound, Changing, Storable
  <1>2. plan \in Plans
    BY <1>1, PatchType
  <1>3. stored \in Row
    BY <1>1, StoredStorable
  <1>4. Newest(r) = stored
    BY <1>1 DEF Newest
  <1>5. Storable(new) /\ SameNames(new, stored) /\ ApplyPlan(loaded, plan) \in Row
    BY <1>1, <1>2, <1>3, ApplyPlanStorable DEF Storable
  <1>6. Asked(new, stored, rq[r].patch)
    <2>1. new.is_active = stored.is_active /\ new.plan = plan
      BY <1>3 DEF ApplyPlan, Row
    <2>2. Patched(stored, rq[r].patch).plan = plan
      BY <1>1, <1>2, <1>3 DEF Patched, ApplyPlan, Row
    <2> HIDE DEF new, stored, plan
    <2> QED  BY <2>1, <2>2 DEF Asked
  <1>7. AfterPlan(rq[r].patch) \in {"active", "commit_patch"}
        /\ (AfterPlan(rq[r].patch) = "active" => rq[r].patch.is_active # None)
    BY DEF AfterPlan
  <1>8. Flush(r, ApplyPlan(loaded, plan), AfterPlan(rq[r].patch))
    BY DEF UpdatePlan
  <1>9. Dirty(ApplyPlan(loaded, plan), loaded) # {} =>
            Merged(ApplyPlan(loaded, plan), loaded, Newest(r)) = new
    BY <1>1, <1>2, <1>3, <1>4, MergePlan
  <1> HIDE DEF new, plan
  <1> QED  BY <1>1, <1>5, <1>6, <1>7, <1>8, <1>9, FlushKeeps

LEMMA SetActiveKeeps ==
    ASSUME IInv, NEW r \in Requests, SetActive(r)
    PROVE  IInv'
  <1> DEFINE stored == tenants[rq[r].id]
             loaded == rq[r].row
             active == rq[r].patch.is_active
             newest == Newest(r)
             new == [newest EXCEPT !.is_active = active]
             target == [loaded EXCEPT !.is_active = active]
  <1>1. /\ rq[r] \in Call /\ rq[r].pc = "active" /\ rq[r].id \in DOMAIN tenants
        /\ rq[r].patch \in Patches /\ active # None
        /\ loaded \in Row /\ Storable(loaded) /\ SameNames(loaded, stored)
        /\ rq[r].wrote => Asked(loaded, stored, rq[r].patch)
    BY DEF SetActive, IInv, TypeOK, Sound, Changing, Storable
  <1>2. active \in BOOLEAN
    BY <1>1, PatchType
  <1>3. stored \in Row /\ Storable(stored)
    BY <1>1, StoredStorable
  <1>4. /\ newest \in Row /\ Storable(newest) /\ SameNames(newest, stored)
        /\ newest.plan = stored.plan \/ newest.plan = Patched(stored, rq[r].patch).plan
    BY <1>1, <1>3 DEF Newest, SameNames, Asked
  <1>5. Patched(stored, rq[r].patch).is_active = active
    <2>1. rq[r].patch.plan # None => ApplyPlan(stored, rq[r].patch.plan) \in Row
      BY <1>1, <1>3, PatchType, ApplyPlanStorable DEF Storable
    <2> QED  BY <1>1, <1>2, <1>3, <2>1 DEF Patched, Row
  <1> HIDE DEF newest
  <1>6. /\ new \in Row /\ target \in Row /\ new.is_active = active /\ new.plan = newest.plan
        /\ new.slug = newest.slug /\ new.subdomain = newest.subdomain
        /\ new.db_schema = newest.db_schema
        /\ new.max_users = newest.max_users /\ new.max_storage_gb = newest.max_storage_gb
    BY <1>1, <1>2, <1>4 DEF Row
  <1>7. Flush(r, target, "commit_patch")
    BY DEF SetActive
  <1>8. Dirty(target, loaded) # {} => Merged(target, loaded, Newest(r)) = new
    BY <1>1, <1>2, <1>4, MergeActive DEF newest
  <1> HIDE DEF new, target, active, stored
  <1>9. Storable(new) /\ SameNames(new, stored)
    BY <1>4, <1>6 DEF Storable, Limited, SameNames
  <1>10. Asked(new, stored, rq[r].patch)
    BY <1>4, <1>5, <1>6 DEF Asked
  <1> QED  BY <1>1, <1>6, <1>7, <1>8, <1>9, <1>10, FlushKeeps DEF stored

LEMMA CommitPatchKeeps ==
    ASSUME IInv, NEW r \in Requests, CommitPatch(r)
    PROVE  IInv'
  <1> DEFINE q == rq[r]
  <1>1. /\ q \in Call /\ q.pc = "commit_patch" /\ q.id \in DOMAIN tenants
        /\ Storable(q.row) /\ q.row \in Row /\ Limited(q.row) /\ SameNames(q.row, tenants[q.id])
        /\ Answer(r, "patched") /\ UNCHANGED <<schemas, roles>>
        /\ DOMAIN tenants \subseteq TenantIds
    BY DEF CommitPatch, IInv, TypeOK, Sound, Changing, Storable
  <1>2. CASE ~q.wrote
    <2> DEFINE p == [Idle EXCEPT !.pc = "reply", !.reply = "patched"]
    <2>1. p \in Call /\ Sound(p) /\ \A s : Apart(p, s)
      BY IdleSound
    <2>2. Statement(r, p)
      BY <1>1, <1>2 DEF CommitPatch, Answer, Statement
    <2> HIDE DEF p
    <2> QED  BY <2>1, <2>2, LocalStep
  <1>3. CASE q.wrote
    <2>1. tenants' = [t \in DOMAIN tenants \cup {q.id} |-> IF t = q.id THEN q.row ELSE tenants[t]]
      BY <1>1, <1>3 DEF CommitPatch, IInv, TypeOK
    <2>2. \A s \in Requests \ {r} : rq'[s] = rq[s]
      BY <1>1 DEF Answer, Step, IInv, TypeOK
    <2>3. \A s \in Requests \ {r} : rq[s].wrote => rq[s].id # q.id
      BY <1>3 DEF IInv, Apart
    <2> HIDE DEF q
    <2>4. \A s \in Requests \ {r} : Sound(rq[s])'
      BY <1>1, <2>1, <2>2, <2>3, OthersKeep
    <2>5. /\ rq' \in [Requests -> Call]
          /\ \A s \in Requests : Sound(rq[s])'
          /\ \A s, u \in Requests : s # u => Apart(rq[s], rq[u])'
      BY <1>1, <2>4, AnswerApart
    <2>6. /\ DOMAIN tenants' = DOMAIN tenants /\ tenants'[q.id] = q.row
          /\ \A t \in DOMAIN tenants \ {q.id} : tenants'[t] = tenants[t]
      BY <1>1, <2>1
    <2>7. TypeOK'
      <3>1. tenants' \in [DOMAIN tenants' -> Row]
        BY <1>1, <2>1, <2>6 DEF IInv, TypeOK
      <3> QED  BY <1>1, <2>5, <2>6, <3>1 DEF IInv, TypeOK
    <2>8. LimitsFollowPlan'
      BY <1>1, <2>6 DEF IInv, LimitsFollowPlan, Limited
    <2>9. NamesAreUnique'
      BY <1>1, <2>6 DEF IInv, NamesAreUnique, Clash, SameNames
    <2>10. HomeReady'
      BY <1>1, <2>6 DEF IInv, HomeReady, SameNames
    <2> QED  BY <2>5, <2>7, <2>8, <2>9, <2>10 DEF IInv
  <1> QED  BY <1>2, <1>3

-----------------------------------------------------------------------------
(* The theorems                                                              *)

LEMMA CrashKeeps == IInv /\ Crash => IInv'
  <1> SUFFICES ASSUME IInv, Crash PROVE IInv'
    OBVIOUS
  <1>1. Idle \in Call /\ Idle.pc = "idle" /\ ~Idle.wrote
    BY DEF Idle, Call
  <1>2. \A r \in Requests : rq'[r] = Idle
    BY DEF Crash
  <1>3. TypeOK' /\ LimitsFollowPlan' /\ NamesAreUnique' /\ HomeReady'
    BY <1>1 DEF Crash, IInv, TypeOK, LimitsFollowPlan, NamesAreUnique, HomeReady
  <1>4. \A r \in Requests : Sound(rq[r])'
    BY <1>1, <1>2 DEF Sound, Making, Changing
  <1>5. \A r, s \in Requests : r # s => Apart(rq[r], rq[s])'
    BY <1>1, <1>2 DEF Apart, Making
  <1> QED  BY <1>3, <1>4, <1>5 DEF IInv

LEMMA StepKeeps == IInv /\ [Next]_vars => IInv'
  <1> SUFFICES ASSUME IInv, [Next]_vars PROVE IInv'
    OBVIOUS
  <1>1. ASSUME NEW r \in Requests, Arrivals(r) PROVE IInv'
    BY <1>1, ArrivalsKeep
  <1>2. ASSUME NEW r \in Requests, Creating(r) PROVE IInv'
    <2>1. CASE InsertTenant(r)
      BY <2>1, InsertTenantKeeps
    <2>2. CASE InsertRefused(r) \/ SchemaRace(r)
      BY <2>2, RefusedKeeps DEF InsertRefused, SchemaRace
    <2>3. CASE SchemaExists(r) \/ SchemaMissing(r) \/ CreateSchema(r) \/ CreateTables(r)
      BY <2>3, BuildKeeps
    <2>4. CASE CommitCreate(r)
      BY <2>4, CommitCreateKeeps
    <2> QED  BY <1>2, <2>1, <2>2, <2>3, <2>4 DEF Creating
  <1>3. ASSUME NEW r \in Requests, Patching(r) PROVE IInv'
    <2>1. CASE LoadTenant(r)
      BY <2>1, LoadTenantKeeps
    <2>2. CASE TenantMissing(r)
      BY <2>2, RefusedKeeps DEF TenantMissing
    <2>3. CASE UpdatePlan(r)
      BY <2>3, UpdatePlanKeeps
    <2>4. CASE SetActive(r)
      BY <2>4, SetActiveKeeps
    <2>5. CASE CommitPatch(r)
      BY <2>5, CommitPatchKeeps
    <2> QED  BY <1>3, <2>1, <2>2, <2>3, <2>4, <2>5 DEF Patching
  <1>4. ASSUME NEW r \in Requests, Respond(r) PROVE IInv'
    <2>1. Statement(r, Idle) /\ Idle \in Call /\ Sound(Idle) /\ \A p : Apart(Idle, p)
      BY <1>4, IdleSound DEF Respond
    <2> QED  BY <2>1, LocalStep
  <1>5. ASSUME NEW r \in Requests, Fail(r) PROVE IInv'
    BY <1>5, RefusedKeeps DEF Fail
  <1>6. CASE Crash
    BY <1>6, CrashKeeps
  <1>7. CASE UNCHANGED vars
    BY <1>7 DEF vars, IInv, TypeOK, LimitsFollowPlan, NamesAreUnique, HomeReady, Sound, Apart
  <1> QED  BY <1>1, <1>2, <1>3, <1>4, <1>5, <1>6, <1>7 DEF Next, Serve

\* The inductive invariant holds for any tenants, requests, bodies, patches and limits.
THEOREM Invariance == Spec => []IInv
  <1> QED  BY InitIInv, StepKeeps, PTL DEF Spec

\* The types of all variables, the row of a request half way through its UPDATEs included.
THEOREM TypeCorrect == Spec => []TypeOK
  <1>1. IInv => TypeOK
    BY DEF IInv
  <1> QED  BY Invariance, <1>1, PTL

\* The limits follow the plan, whichever stale reads and partial UPDATEs interleave
\* (models/tenant.py keeps them denormalised).
THEOREM LimitsFollow == Spec => []LimitsFollowPlan
  <1>1. IInv => LimitsFollowPlan
    BY DEF IInv
  <1> QED  BY Invariance, <1>1, PTL

\* The three unique columns, for any number of concurrent creations.
THEOREM NamesUnique == Spec => []NamesAreUnique
  <1>1. IInv => NamesAreUnique
    BY DEF IInv
  <1> QED  BY Invariance, <1>1, PTL

\* No tenant without its schema and its system roles (create_tenant).
THEOREM HomesReady == Spec => []HomeReady
  <1>1. IInv => HomeReady
    BY DEF IInv
  <1> QED  BY Invariance, <1>1, PTL

\* A column of a row with the names of the stored one, changed as a patch asks.
LEMMA AskedColumn ==
    ASSUME NEW row, NEW stored, NEW patch \in Patches, row \in Row, stored \in Row,
           Limited(row), Limited(stored), SameNames(row, stored), Asked(row, stored, patch),
           NEW f \in DOMAIN stored, row[f] # stored[f]
    PROVE  row[f] = Patched(stored, patch)[f]
  <1> DEFINE want == Patched(stored, patch)
  <1>1. want \in Row /\ Limited(want)
    <2>1. CASE patch.plan = None
      <3>1. want = IF patch.is_active = None THEN stored
                   ELSE [stored EXCEPT !.is_active = patch.is_active]
        BY <2>1 DEF Patched
      <3>2. patch.is_active # None => patch.is_active \in BOOLEAN
        BY PatchType
      <3> HIDE DEF want
      <3> QED  BY <3>1, <3>2 DEF Row, Limited
    <2>2. CASE patch.plan # None
      <3> DEFINE planned == ApplyPlan(stored, patch.plan)
      <3>1. want = IF patch.is_active = None THEN planned
                   ELSE [planned EXCEPT !.is_active = patch.is_active]
        BY <2>2 DEF Patched
      <3>2. planned \in Row /\ Limited(planned)
        BY <2>2, PatchType, ApplyPlanStorable DEF Storable
      <3>3. patch.is_active # None => patch.is_active \in BOOLEAN
        BY PatchType
      <3> HIDE DEF want, planned
      <3> QED  BY <3>1, <3>2, <3>3 DEF Row, Limited
    <2> QED  BY <2>1, <2>2
  <1> HIDE DEF want
  <1>2. f \in {"plan", "max_users", "max_storage_gb", "is_active"}
    BY RowColumns DEF Columns, SameNames
  <1>3. CASE f = "is_active"
    BY <1>3 DEF Asked, want
  <1>4. CASE f # "is_active"
    <2>1. row.plan # stored.plan
      BY <1>2, <1>4 DEF Limited
    <2>2. row.plan = want.plan
      BY <2>1 DEF Asked, want
    <2>3. row[f] = want[f]
      BY <1>1, <1>2, <1>4, <2>2 DEF Limited
    <2> QED  BY <2>3 DEF want
  <1> QED  BY <1>3, <1>4

\* No PATCH undoes what another one has committed since it read the row: what changes in a
\* row is what the committing PATCH asks for (change_plan reads without a lock).
THEOREM NoUpdateIsLost == Spec => NoLostUpdate
  <1> DEFINE Kept == \A t \in DOMAIN tenants : \A f \in DOMAIN tenants[t] :
                 tenants'[t][f] # tenants[t][f] =>
                     \E r \in Requests :
                         /\ rq[r].pc = "commit_patch" /\ rq[r].id = t
                         /\ tenants'[t][f] = Patched(tenants[t], rq[r].patch)[f]
  <1>1. IInv /\ [Next]_vars => [Kept]_vars
    <2> SUFFICES ASSUME IInv, Next, NEW t \in DOMAIN tenants, NEW f \in DOMAIN tenants[t],
                        tenants'[t][f] # tenants[t][f]
                 PROVE  \E r \in Requests :
                            /\ rq[r].pc = "commit_patch" /\ rq[r].id = t
                            /\ tenants'[t][f] = Patched(tenants[t], rq[r].patch)[f]
      BY DEF vars
    <2>1. ASSUME NEW r \in Requests, CommitCreate(r)
          PROVE  FALSE
      <3>1. rq[r].id \notin DOMAIN tenants
        BY <2>1 DEF CommitCreate, IInv, Sound, Making
      <3> QED  BY <2>1, <3>1 DEF CommitCreate
    <2>2. ASSUME NEW r \in Requests, CommitPatch(r)
          PROVE  /\ rq[r].pc = "commit_patch" /\ rq[r].id = t
                 /\ tenants'[t][f] = Patched(tenants[t], rq[r].patch)[f]
      <3>1. /\ rq[r].pc = "commit_patch" /\ rq[r].id \in DOMAIN tenants
            /\ rq[r].patch \in Patches /\ Sound(rq[r])
            /\ rq[r].row \in Row /\ Limited(rq[r].row)
            /\ SameNames(rq[r].row, tenants[rq[r].id])
        BY <2>2 DEF CommitPatch, IInv, Sound, Changing, Storable
      <3>2. rq[r].wrote /\ rq[r].id = t /\ tenants'[t] = rq[r].row
        BY <2>2, <3>1 DEF CommitPatch, IInv, TypeOK
      <3>3. tenants[t] \in Row /\ Limited(tenants[t])
        BY StoredStorable DEF Storable
      <3>4. Asked(rq[r].row, tenants[t], rq[r].patch)
        BY <3>1, <3>2 DEF Sound
      <3>5. tenants'[t][f] = Patched(tenants[t], rq[r].patch)[f]
        BY <3>1, <3>2, <3>3, <3>4, AskedColumn
      <3> QED  BY <3>1, <3>2, <3>5
    <2>3. ASSUME NEW r \in Requests, Serve(r), ~CommitCreate(r), ~CommitPatch(r)
          PROVE  UNCHANGED tenants
      <3>1. CASE Arrivals(r)
        BY <3>1 DEF Arrivals, CreateRequest, PatchRequest, Arrive
      <3>2. CASE Creating(r)
        BY <2>3, <3>2 DEF Creating, InsertTenant, InsertRefused, SchemaExists, SchemaMissing,
            CreateSchema, SchemaRace, CreateTables, Statement, Refused
      <3>3. CASE Patching(r)
        BY <2>3, <3>3 DEF Patching, LoadTenant, TenantMissing, UpdatePlan, SetActive, Flush,
            Statement, Refused
      <3>4. CASE Respond(r) \/ Fail(r)
        BY <3>4 DEF Respond, Fail, Statement, Refused
      <3> QED  BY <2>3, <3>1, <3>2, <3>3, <3>4 DEF Serve
    <2>4. Crash => UNCHANGED tenants
      BY DEF Crash
    <2> QED  BY <2>1, <2>2, <2>3, <2>4 DEF Next
  <1> QED  BY <1>1, Invariance, PTL DEF Spec, NoLostUpdate
=============================================================================
