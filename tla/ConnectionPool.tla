---------------------------- MODULE ConnectionPool ----------------------------
(***************************************************************************)
(* The connections that requests take from the engine's pool:              *)
(* config/database.py (get_db, get_tenant_session, one engine for all),    *)
(* the session of TenantMiddleware, and the endpoints by the order in      *)
(* which they open and close sessions.                                     *)
(*                                                                         *)
(* A session takes a connection at its first statement and gives it back   *)
(* when it is closed.  Login and registration open the tenant's session    *)
(* while the request's own holds a connection; create_policy awaits the    *)
(* language model while it holds one.  A request that finds the pool       *)
(* empty waits until its timeout.                                          *)
(***************************************************************************)
EXTENDS Naturals, FiniteSets

CONSTANTS
    Requests, None,
    Conns,              \* pool_size + max_overflow connections, 15 by default
    MaxSessions         \* bound on the sessions POST /admin/roles opens in a row

ASSUME PoolAssumption ==
    /\ None \notin Conns
    /\ IsFiniteSet(Conns) /\ Conns # {}
    /\ IsFiniteSet(Requests)
    /\ MaxSessions \in Nat \ {0}

\* By what a request does with connections:
\*   nested     POST /auth/register, /auth/login: a tenant session inside get_db's
\*   public     /auth/refresh, /auth/logout, /tenants: get_db's alone
\*   tenant     /roles, /admin: tenant sessions, one after the other
\*   described  POST /roles/{id}/policies: a tenant session around the language model
Kinds == {"nested", "public", "tenant", "described"}

VARIABLES
    free,               \* connections in the pool
    rq                  \* for each slot, the request running in it

vars == <<free, rq>>

Idle == [kind |-> None, pc |-> "idle", left |-> 0,
         outer |-> None,        \* the connection of the middleware, then of get_db
         inner |-> None]        \* the connection of a tenant session

Init == free = Conns /\ rq = [r \in Requests |-> Idle]

Step(r, q) == rq' = [rq EXCEPT ![r] = q]

Held(q) == {q.outer, q.inner} \ {None}

\* The request is over and its sessions are closed, whatever ended it.
End(r) == Step(r, Idle) /\ free' = free \cup Held(rq[r])

-----------------------------------------------------------------------------
(* The middleware                                                          *)

\* The first session the endpoint itself opens.
Entry(kind) == IF kind \in {"nested", "public"} THEN "public" ELSE "tenant"

\* On a path of BYPASS_PREFIXES, without a tenant header, or with an X-Tenant-ID that is
\* no UUID, the middleware makes no statement and takes no connection.
Arrive(r, kind, n) ==
    /\ rq[r].pc = "idle"
    /\ n > 1 => kind = "tenant"
    /\ \E pc \in {"resolve", Entry(kind)} :
          Step(r, [Idle EXCEPT !.kind = kind, !.left = n, !.pc = pc])
    /\ UNCHANGED free

Resolve(r) ==
    /\ rq[r].pc = "resolve"
    /\ \E c \in free : /\ Step(r, [rq[r] EXCEPT !.outer = c, !.pc = "resolving"])
                       /\ free' = free \ {c}

\* _resolve_tenant returns, a tenant or None, out of its "async with".
Resolved(r) ==
    /\ rq[r].pc = "resolving"
    /\ Step(r, [rq[r] EXCEPT !.outer = None, !.pc = Entry(rq[r].kind)])
    /\ free' = free \cup {rq[r].outer}

\* The pool's TimeoutError is caught there as any exception is: the tenant is None.
ResolveTimeout(r) ==
    /\ rq[r].pc = "resolve" /\ free = {}
    /\ Step(r, [rq[r] EXCEPT !.pc = Entry(rq[r].kind)])
    /\ UNCHANGED free

-----------------------------------------------------------------------------
(* Sessions                                                                *)

\* The first statement on get_db's session.
OpenPublic(r) ==
    /\ rq[r].pc = "public"
    /\ \E c \in free : /\ Step(r, [rq[r] EXCEPT !.outer = c, !.pc = "handling"])
                       /\ free' = free \ {c}

\* get_tenant_by_slug has found the tenant; otherwise the handler raises (ClosePublic).
EnterTenant(r) ==
    /\ rq[r].pc = "handling" /\ rq[r].kind = "nested"
    /\ Step(r, [rq[r] EXCEPT !.pc = "tenant"])
    /\ UNCHANGED free

\* SET search_path, the first statement of get_tenant_session.
OpenTenant(r) ==
    /\ rq[r].pc = "tenant"
    /\ \E c \in free :
          /\ Step(r, [rq[r] EXCEPT !.inner = c,
                          !.pc = IF rq[r].kind = "described" THEN "describing" ELSE "working"])
          /\ free' = free \ {c}

\* generate_policy_description answers, with a text of its own if the model fails.
Described(r) ==
    /\ rq[r].pc = "describing"
    /\ Step(r, [rq[r] EXCEPT !.pc = "working"])
    /\ UNCHANGED free

\* Mutant: the next service is called inside the "async with" of the one before.
CloseTenant_later(r) ==
    /\ rq[r].pc = "working"
    /\ IF rq[r].kind = "nested"
       THEN /\ Step(r, [rq[r] EXCEPT !.inner = None, !.pc = "handled"])
            /\ free' = free \cup {rq[r].inner}
       ELSE IF rq[r].left > 1
       THEN /\ Step(r, [rq[r] EXCEPT !.outer = rq[r].inner, !.inner = None,
                            !.left = @ - 1, !.pc = "tenant"])
            /\ UNCHANGED free
       ELSE End(r)

\* Mutant: the chain of services goes on once too often.
CloseTenant_offByOne(r) ==
    /\ rq[r].pc = "working"
    /\ Step(r, [rq[r] EXCEPT !.inner = None, !.left = @ - 1,
                    !.pc = IF rq[r].kind = "nested" THEN "handled" ELSE "tenant"])
    /\ free' = free \cup {rq[r].inner}

\* The tenant session commits and closes; get_db's, or the next one, goes on.
CloseTenant(r) ==
    /\ rq[r].pc = "working"
    /\ IF rq[r].kind = "nested" \/ rq[r].left > 1
       THEN /\ Step(r, [rq[r] EXCEPT !.inner = None, !.left = @ - 1,
                            !.pc = IF rq[r].kind = "nested" THEN "handled" ELSE "tenant"])
            /\ free' = free \cup {rq[r].inner}
       ELSE End(r)

\* get_db commits or rolls back, and closes.
ClosePublic(r) == rq[r].pc \in {"handling", "handled"} /\ End(r)

\* Mutant: get_db does not close its session when the handler raises.
PoolTimeout_leaks(r) ==
    /\ rq[r].pc \in {"public", "tenant"} /\ free = {}
    /\ Step(r, Idle)
    /\ UNCHANGED free

\* Mutant: a tenant session waits for its connection without a limit.
PoolTimeout_publicOnly(r) ==
    /\ rq[r].pc = "public" /\ free = {}
    /\ End(r)

\* QueuePool limit reached: the TimeoutError ends the request with a 500, and the sessions
\* around it roll back and close.
PoolTimeout(r) ==
    /\ rq[r].pc \in {"public", "tenant"} /\ free = {}
    /\ End(r)

\* A statement or a commit fails.
Fail(r) == rq[r].pc \in {"handling", "describing", "working", "handled"} /\ End(r)

Crash ==
    /\ rq' = [r \in Requests |-> Idle]
    /\ free' = Conns

-----------------------------------------------------------------------------
Acquire(r) == Resolve(r) \/ OpenPublic(r) \/ OpenTenant(r)

GoOn(r) ==
    \/ Resolved(r)
    \/ EnterTenant(r)
    \/ Described(r)
    \/ CloseTenant(r)
    \/ ClosePublic(r)

TimeOut(r) == ResolveTimeout(r) \/ PoolTimeout(r)

Next ==
    \/ \E r \in Requests :
          \/ \E kind \in Kinds, n \in 1..MaxSessions : Arrive(r, kind, n)
          \/ Acquire(r)
          \/ GoOn(r)
          \/ TimeOut(r)
          \/ Fail(r)
    \/ Crash

Spec == Init /\ [][Next]_vars

\* The event loop runs what can run, the database and the language model's client answer
\* or time out, the pool serves its waiters in turn, and its timeout fires.
FairSpec ==
    /\ Spec
    /\ \A r \in Requests : /\ WF_vars(GoOn(r))
                           /\ SF_vars(Acquire(r))
                           /\ WF_vars(TimeOut(r))
-----------------------------------------------------------------------------
(* Properties                                                              *)

Waits(q) == q.pc \in {"resolve", "public", "tenant"}

Request == [kind : Kinds \cup {None}, left : 0..MaxSessions,
            pc : {"idle", "resolve", "resolving", "public", "handling", "tenant",
                  "describing", "working", "handled"},
            outer : Conns \cup {None}, inner : Conns \cup {None}]

TypeOK == free \subseteq Conns /\ rq \in [Requests -> Request]

\* Every connection is in the pool or held by exactly one session: none is lost when a
\* request times out half way, fails or ends, and none is handed out twice.
NoLeak ==
    /\ \A r \in Requests : rq[r].outer # None => rq[r].outer # rq[r].inner
    /\ \A r, s \in Requests : r # s => Held(rq[r]) \cap Held(rq[s]) = {}
    /\ free = Conns \ UNION {Held(rq[r]) : r \in Requests}

\* Nothing moves but by a timeout: the pool is empty and all who hold a connection wait.
Stalled == free = {} /\ \A r \in Requests : Held(rq[r]) # {} => Waits(rq[r])

\* Only as many logins and registrations as there are connections, each between its two
\* sessions, can stall the pool: any other load, listings, policies that wait for the
\* language model and chains of services included, leaves somebody who gives one back.
StallTakesNested ==
    Stalled => Cardinality({r \in Requests : rq[r].kind = "nested" /\ rq[r].pc = "tenant"})
                  >= Cardinality(Conns)

\* Every request ends, stalls included.
EveryCallEnds == \A r \in Requests : []<>(rq[r].pc = "idle")
=============================================================================
