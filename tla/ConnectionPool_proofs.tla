------------------------ MODULE ConnectionPool_proofs ------------------------
(* Proofs about ConnectionPool for every number of requests and connections. *)
EXTENDS ConnectionPool, FiniteSetTheorems, TLAPS

\* What a request holds at each point of it: nothing while it waits for the connection of
\* its first session, and two connections only as a login or a registration.
Shape(q) ==
    /\ q.pc \in {"idle", "resolve", "public"} => q.outer = None /\ q.inner = None
    /\ q.pc \in {"resolving", "handling", "handled"} => q.outer # None /\ q.inner = None
    /\ q.pc = "tenant" => q.inner = None
    /\ q.pc \in {"describing", "working"} => q.inner # None
    /\ q.pc \in {"tenant", "describing", "working"} => (q.outer # None <=> q.kind = "nested")
    /\ q.pc \in {"public", "handling", "handled"} => q.kind \in {"nested", "public"}
    /\ q.pc \in {"tenant", "describing", "working"} => q.kind # "public"
    /\ q.pc \notin {"idle", "handled"} => q.kind \in Kinds /\ q.left >= 1

\* NoLeak for each connection.
OneHolder ==
    /\ \A r \in Requests : rq[r].outer # None => rq[r].outer # rq[r].inner
    /\ \A r, s \in Requests : r # s => Held(rq[r]) \cap Held(rq[s]) = {}
    /\ \A c \in Conns : c \in free <=> \A r \in Requests : c \notin Held(rq[r])

IInv ==
    /\ TypeOK
    /\ OneHolder
    /\ \A r \in Requests : Shape(rq[r])

LEMMA OneHolderMeansNoLeak ==
    ASSUME TypeOK, OneHolder
    PROVE  NoLeak
  <1>1. free = Conns \ UNION {Held(rq[r]) : r \in Requests}
    BY DEF TypeOK, OneHolder
  <1> QED  BY <1>1 DEF OneHolder, NoLeak

\* A step of r that takes connections from the pool and gives others back.
LEMMA StepKeeps ==
    ASSUME IInv, NEW r \in Requests, NEW q \in Request, Step(r, q), Shape(q),
           q.outer # None => q.outer # q.inner,
           Held(q) \subseteq Held(rq[r]) \cup free,
           free' = (free \cup Held(rq[r])) \ Held(q)
    PROVE  IInv'
  <1>1. rq' \in [Requests -> Request] /\ rq'[r] = q /\ \A s \in Requests \ {r} : rq'[s] = rq[s]
    BY DEF IInv, TypeOK, Step
  <1>2. \A s \in Requests : Held(rq[s]) \subseteq Conns
    BY DEF IInv, TypeOK, Request, Held
  <1>3. free' \subseteq Conns
    BY <1>2 DEF IInv, TypeOK
  <1>4. ASSUME NEW s \in Requests
        PROVE  Shape(rq[s])' /\ (rq'[s].outer # None => rq'[s].outer # rq'[s].inner)
    <2>1. Shape(rq'[s]) /\ (rq'[s].outer # None => rq'[s].outer # rq'[s].inner)
      BY <1>1 DEF IInv, OneHolder
    <2> QED  BY <2>1 DEF Shape
  <1>5. \A s \in Requests : Held(rq[s])' = IF s = r THEN Held(q) ELSE Held(rq[s])
    BY <1>1 DEF Held
  <1>6. \A s \in Requests \ {r} : Held(q) \cap Held(rq[s]) = {}
    <2>1. ASSUME NEW s \in Requests \ {r}, NEW c \in Held(q), c \in Held(rq[s])
          PROVE  FALSE
      <3>1. c \in Conns /\ c \notin free
        BY <1>2, <2>1 DEF IInv, OneHolder
      <3> QED  BY <2>1, <3>1 DEF IInv, OneHolder
    <2> QED  BY <2>1
  <1>7. \A s, u \in Requests : s # u => Held(rq[s])' \cap Held(rq[u])' = {}
    BY <1>5, <1>6 DEF IInv, OneHolder
  <1>8. ASSUME NEW c \in Conns
        PROVE  c \in free' <=> \A s \in Requests : c \notin Held(rq[s])'
    <2>1. CASE c \in Held(q)
      BY <1>5, <2>1
    <2>2. CASE c \notin Held(q) /\ c \in Held(rq[r])
      <3>1. \A s \in Requests \ {r} : c \notin Held(rq[s])
        BY <2>2 DEF IInv, OneHolder
      <3> QED  BY <1>5, <2>2, <3>1
    <2>3. CASE c \notin Held(q) /\ c \notin Held(rq[r])
      BY <1>5, <2>3 DEF IInv, OneHolder
    <2> QED  BY <2>1, <2>2, <2>3
  <1> QED  BY <1>1, <1>3, <1>4, <1>7, <1>8 DEF IInv, TypeOK, OneHolder

LEMMA IdleKeeps ==
    /\ Idle \in Request /\ Shape(Idle) /\ Held(Idle) = {}
    /\ Idle.outer = None
  BY PoolAssumption DEF Idle, Request, Shape, Held, Kinds

LEMMA InitIInv == Init => IInv
  <1> SUFFICES ASSUME Init PROVE IInv
    OBVIOUS
  <1>1. \A r \in Requests : rq[r] = Idle
    BY DEF Init
  <1>2. TypeOK
    BY <1>1, IdleKeeps DEF Init, TypeOK
  <1>3. OneHolder
    BY <1>1, IdleKeeps DEF Init, OneHolder
  <1> QED  BY <1>1, <1>2, <1>3, IdleKeeps DEF IInv

\* A request that ends gives back what it holds.
LEMMA EndKeeps ==
    ASSUME IInv, NEW r \in Requests, End(r)
    PROVE  IInv'
  BY IdleKeeps, StepKeeps DEF End

\* What r's record is before a step.
LEMMA Before ==
    ASSUME IInv, NEW r \in Requests
    PROVE  /\ rq[r] \in Request /\ Shape(rq[r])
           /\ rq[r].outer # None => rq[r].outer # rq[r].inner
           /\ \A c \in free : c \in Conns /\ c # None /\ c \notin Held(rq[r])
           /\ free \cap Held(rq[r]) = {}
  <1>1. \A c \in free : c \in Conns
    BY DEF IInv, TypeOK
  <1>2. \A c \in free : c # None /\ c \notin Held(rq[r])
    BY <1>1, PoolAssumption DEF IInv, OneHolder
  <1> QED  BY <1>1, <1>2 DEF IInv, TypeOK, OneHolder

-----------------------------------------------------------------------------
(* The steps                                                                 *)

LEMMA ArriveKeeps ==
    ASSUME IInv, NEW r \in Requests, NEW kind \in Kinds, NEW n \in 1..MaxSessions,
           Arrive(r, kind, n)
    PROVE  IInv'
  <1>1. PICK pc \in {"resolve", Entry(kind)} :
            Step(r, [Idle EXCEPT !.kind = kind, !.left = n, !.pc = pc])
    BY DEF Arrive
  <1> DEFINE q == [Idle EXCEPT !.kind = kind, !.left = n, !.pc = pc]
  <1>2. /\ pc \in {"resolve", "public", "tenant"}
        /\ pc = "public" => kind \in {"nested", "public"}
        /\ pc = "tenant" => kind \in {"tenant", "described"}
    BY DEF Entry, Kinds
  <1>3. n \in 0..MaxSessions /\ n >= 1
    BY PoolAssumption
  <1>4. /\ q.kind = kind /\ q.left = n /\ q.pc = pc /\ q.outer = None /\ q.inner = None
        /\ q \in Request
    BY <1>2, <1>3 DEF Idle, Request
  <1>5. Step(r, q)
    BY <1>1
  <1> HIDE DEF q
  <1>6. Shape(q) /\ Held(q) = {}
    BY <1>2, <1>3, <1>4 DEF Shape, Held, Kinds
  <1>7. Held(rq[r]) = {} /\ free' = free
    BY Before DEF Arrive, Shape, Held
  <1> QED  BY <1>4, <1>5, <1>6, <1>7, StepKeeps

\* Taking a connection, for the middleware, for get_db, or for a tenant session.
LEMMA AcquireKeeps ==
    ASSUME IInv, NEW r \in Requests, Acquire(r)
    PROVE  IInv'
  <1>1. rq[r] \in Request /\ Shape(rq[r])
    BY Before
  <1>2. CASE Resolve(r) \/ OpenPublic(r)
    <2>1. PICK c \in free, pc \in {"resolving", "handling"} :
              /\ Step(r, [rq[r] EXCEPT !.outer = c, !.pc = pc]) /\ free' = free \ {c}
              /\ pc = "handling" => rq[r].pc = "public"
      BY <1>2 DEF Resolve, OpenPublic
    <2> DEFINE q == [rq[r] EXCEPT !.outer = c, !.pc = pc]
    <2>2. c \in Conns /\ c # None /\ c \notin Held(rq[r])
      BY Before
    <2>3. rq[r].outer = None /\ rq[r].inner = None /\ rq[r].pc \in {"resolve", "public"}
      BY <1>1, <1>2 DEF Resolve, OpenPublic, Shape
    <2>4. /\ q.kind = rq[r].kind /\ q.left = rq[r].left /\ q.pc = pc
          /\ q.outer = c /\ q.inner = None /\ q \in Request
      BY <1>1, <2>2, <2>3 DEF Request
    <2>5. Step(r, q)
      BY <2>1
    <2> HIDE DEF q
    <2>6. Shape(q) /\ Held(q) = {c} /\ Held(rq[r]) = {}
      BY <1>1, <2>1, <2>2, <2>3, <2>4 DEF Shape, Held
    <2> QED  BY <2>1, <2>2, <2>4, <2>5, <2>6, StepKeeps
  <1>3. CASE OpenTenant(r)
    <2> DEFINE pc == IF rq[r].kind = "described" THEN "describing" ELSE "working"
    <2>1. PICK c \in free :
              Step(r, [rq[r] EXCEPT !.inner = c, !.pc = pc]) /\ free' = free \ {c}
      BY <1>3 DEF OpenTenant
    <2> DEFINE q == [rq[r] EXCEPT !.inner = c, !.pc = pc]
    <2>2. c \in Conns /\ c # None /\ c \notin Held(rq[r])
      BY Before
    <2>3. rq[r].inner = None /\ rq[r].pc = "tenant"
      BY <1>1, <1>3 DEF OpenTenant, Shape
    <2>4. /\ q.kind = rq[r].kind /\ q.left = rq[r].left /\ q.pc \in {"describing", "working"}
          /\ q.outer = rq[r].outer /\ q.inner = c /\ q \in Request
      BY <1>1, <2>2 DEF Request
    <2>5. Step(r, q)
      BY <2>1
    <2> HIDE DEF q
    <2>6. Shape(q)
      BY <1>1, <2>2, <2>3, <2>4 DEF Shape
    <2>7. Held(q) = Held(rq[r]) \cup {c} /\ q.outer # c
      BY <2>2, <2>3, <2>4 DEF Held
    <2>8. free' = (free \cup Held(rq[r])) \ Held(q)
      BY <2>1, <2>7, Before
    <2> QED  BY <2>4, <2>5, <2>6, <2>7, <2>8, StepKeeps
  <1> QED  BY <1>2, <1>3 DEF Acquire

LEMMA GoOnKeeps ==
    ASSUME IInv, NEW r \in Requests, GoOn(r)
    PROVE  IInv'
  <1>0. rq[r] \in Request /\ Shape(rq[r]) /\ free \cap Held(rq[r]) = {}
        /\ (rq[r].outer # None => rq[r].outer # rq[r].inner)
    BY Before
  <1>1. CASE Resolved(r)
    <2> DEFINE q == [rq[r] EXCEPT !.outer = None, !.pc = Entry(rq[r].kind)]
    <2>1. rq[r].pc = "resolving" /\ rq[r].inner = None /\ rq[r].outer # None
          /\ rq[r].kind \in Kinds /\ rq[r].left >= 1
      BY <1>0, <1>1 DEF Resolved, Shape
    <2>2. /\ q.kind = rq[r].kind /\ q.left = rq[r].left /\ q.pc = Entry(rq[r].kind)
          /\ q.outer = None /\ q.inner = None /\ q \in Request
      BY <1>0, <2>1 DEF Request, Entry
    <2>3. Step(r, q) /\ free' = free \cup {rq[r].outer}
      BY <1>1 DEF Resolved
    <2> HIDE DEF q
    <2>4. Shape(q) /\ Held(q) = {} /\ Held(rq[r]) = {rq[r].outer}
      BY <2>1, <2>2 DEF Shape, Held, Entry, Kinds
    <2> QED  BY <2>2, <2>3, <2>4, StepKeeps
  <1>2. CASE EnterTenant(r)
    <2> DEFINE q == [rq[r] EXCEPT !.pc = "tenant"]
    <2>1. /\ q.kind = rq[r].kind /\ q.left = rq[r].left /\ q.pc = "tenant"
          /\ q.outer = rq[r].outer /\ q.inner = rq[r].inner /\ q \in Request
      BY <1>0 DEF Request
    <2>2. Step(r, q) /\ free' = free
      BY <1>2 DEF EnterTenant
    <2> HIDE DEF q
    <2>3. Shape(q) /\ Held(q) = Held(rq[r])
      BY <1>0, <1>2, <2>1 DEF EnterTenant, Shape, Held
    <2> QED  BY <1>0, <2>1, <2>2, <2>3, StepKeeps
  <1>3. CASE Described(r)
    <2> DEFINE q == [rq[r] EXCEPT !.pc = "working"]
    <2>1. /\ q.kind = rq[r].kind /\ q.left = rq[r].left /\ q.pc = "working"
          /\ q.outer = rq[r].outer /\ q.inner = rq[r].inner /\ q \in Request
      BY <1>0 DEF Request
    <2>2. Step(r, q) /\ free' = free
      BY <1>3 DEF Described
    <2> HIDE DEF q
    <2>3. Shape(q) /\ Held(q) = Held(rq[r])
      BY <1>0, <1>3, <2>1 DEF Described, Shape, Held
    <2> QED  BY <1>0, <2>1, <2>2, <2>3, StepKeeps
  <1>4. CASE CloseTenant(r)
    <2>1. CASE ~(rq[r].kind = "nested" \/ rq[r].left > 1)
      BY <1>4, <2>1, EndKeeps DEF CloseTenant
    <2>2. CASE rq[r].kind = "nested" \/ rq[r].left > 1
      <3> DEFINE pc == IF rq[r].kind = "nested" THEN "handled" ELSE "tenant"
                 q == [rq[r] EXCEPT !.inner = None, !.left = @ - 1, !.pc = pc]
      <3>1. /\ rq[r].pc = "working" /\ rq[r].inner # None /\ rq[r].kind \in Kinds
            /\ rq[r].outer # None <=> rq[r].kind = "nested"
            /\ rq[r].left >= 1 /\ rq[r].left \in 0..MaxSessions
        BY <1>0, <1>4 DEF CloseTenant, Shape, Request
      <3>2. rq[r].left - 1 \in 0..MaxSessions
        BY <3>1, PoolAssumption
      <3>3. /\ q.kind = rq[r].kind /\ q.left = rq[r].left - 1 /\ q.pc = pc
            /\ q.outer = rq[r].outer /\ q.inner = None /\ q \in Request
        BY <1>0, <3>2 DEF Request
      <3>4. Step(r, q) /\ free' = free \cup {rq[r].inner}
        BY <1>4, <2>2 DEF CloseTenant
      <3>5. rq[r].kind # "nested" => rq[r].left - 1 >= 1
        BY <2>2, <3>1
      <3> HIDE DEF q
      <3>6. Shape(q)
        <4>1. CASE rq[r].kind = "nested"
          BY <3>1, <3>3, <4>1 DEF Shape
        <4>2. CASE rq[r].kind # "nested"
          <5>1. rq[r].kind \in {"tenant", "described"}
            BY <1>0, <3>1, <4>2 DEF Shape, Kinds
          <5>2. q.pc = "tenant" /\ q.outer = None /\ q.left >= 1 /\ q.kind \in Kinds
            BY <3>1, <3>3, <3>5, <4>2
          <5> QED  BY <3>3, <5>1, <5>2 DEF Shape
        <4> QED  BY <4>1, <4>2
      <3>7. /\ Held(rq[r]) = Held(q) \cup {rq[r].inner} /\ rq[r].inner \notin Held(q)
        BY <1>0, <3>1, <3>3 DEF Held
      <3>8. free' = (free \cup Held(rq[r])) \ Held(q)
        BY <1>0, <3>4, <3>7
      <3> QED  BY <3>3, <3>4, <3>6, <3>7, <3>8, StepKeeps
    <2> QED  BY <2>1, <2>2
  <1>5. CASE ClosePublic(r)
    BY <1>5, EndKeeps DEF ClosePublic
  <1> QED  BY <1>1, <1>2, <1>3, <1>4, <1>5 DEF GoOn

LEMMA TimeOutKeeps ==
    ASSUME IInv, NEW r \in Requests, TimeOut(r)
    PROVE  IInv'
  <1>0. rq[r] \in Request /\ Shape(rq[r])
    BY Before
  <1>1. CASE ResolveTimeout(r)
    <2> DEFINE q == [rq[r] EXCEPT !.pc = Entry(rq[r].kind)]
    <2>1. /\ rq[r].outer = None /\ rq[r].inner = None /\ rq[r].kind \in Kinds
          /\ rq[r].left >= 1
      BY <1>0, <1>1 DEF ResolveTimeout, Shape
    <2>2. /\ q.kind = rq[r].kind /\ q.left = rq[r].left /\ q.pc = Entry(rq[r].kind)
          /\ q.outer = None /\ q.inner = None /\ q \in Request
      BY <1>0, <2>1 DEF Request, Entry
    <2>3. Step(r, q) /\ free' = free
      BY <1>1 DEF ResolveTimeout
    <2> HIDE DEF q
    <2>4. Shape(q) /\ Held(q) = {} /\ Held(rq[r]) = {}
      BY <2>1, <2>2 DEF Shape, Held, Entry, Kinds
    <2> QED  BY <2>2, <2>3, <2>4, StepKeeps
  <1>2. CASE PoolTimeout(r)
    BY <1>2, EndKeeps DEF PoolTimeout
  <1> QED  BY <1>1, <1>2 DEF TimeOut

\* After a crash the pool is full and no request runs.
LEMMA CrashKeeps ==
    ASSUME Crash
    PROVE  IInv'
  <1>1. Idle \in Request /\ Shape(Idle) /\ Held(Idle) = {} /\ Idle.outer = None
    BY IdleKeeps
  <1>2. rq' = [r \in Requests |-> Idle] /\ \A r \in Requests : rq'[r] = Idle
    BY DEF Crash
  <1>3. TypeOK'
    BY <1>1, <1>2 DEF Crash, TypeOK
  <1>4. \A r \in Requests : Held(rq[r])' = {}
    BY <1>1, <1>2 DEF Held
  <1>5. OneHolder'
    BY <1>1, <1>2, <1>4 DEF Crash, OneHolder
  <1>6. \A r \in Requests : Shape(rq[r])'
    BY <1>1, <1>2 DEF Shape
  <1> QED  BY <1>3, <1>5, <1>6 DEF IInv

LEMMA NextKeeps == IInv /\ [Next]_vars => IInv'
  <1> SUFFICES ASSUME IInv, [Next]_vars PROVE IInv'
    OBVIOUS
  <1>1. ASSUME NEW r \in Requests, NEW kind \in Kinds, NEW n \in 1..MaxSessions,
               Arrive(r, kind, n)
        PROVE  IInv'
    BY <1>1, ArriveKeeps
  <1>2. ASSUME NEW r \in Requests, Acquire(r) PROVE IInv'
    BY <1>2, AcquireKeeps
  <1>3. ASSUME NEW r \in Requests, GoOn(r) PROVE IInv'
    BY <1>3, GoOnKeeps
  <1>4. ASSUME NEW r \in Requests, TimeOut(r) PROVE IInv'
    BY <1>4, TimeOutKeeps
  <1>5. ASSUME NEW r \in Requests, Fail(r) PROVE IInv'
    BY <1>5, EndKeeps DEF Fail
  <1>6. CASE Crash
    BY <1>6, CrashKeeps
  <1>7. CASE UNCHANGED vars
    BY <1>7 DEF vars, IInv, TypeOK, OneHolder, Shape, Held
  <1> QED  BY <1>1, <1>2, <1>3, <1>4, <1>5, <1>6, <1>7 DEF Next

-----------------------------------------------------------------------------
(* The theorems                                                              *)

\* The inductive invariant holds for any number of requests and connections.
THEOREM Invariance == Spec => []IInv
  <1> QED  BY InitIInv, NextKeeps, PTL DEF Spec

\* The types of the variables.
THEOREM TypeCorrect == Spec => []TypeOK
  <1>1. IInv => TypeOK
    BY DEF IInv
  <1> QED  BY Invariance, <1>1, PTL

\* No connection is lost or held twice, whatever times out, fails or dies (database.py).
THEOREM NothingLeaks == Spec => []NoLeak
  <1>1. IInv => NoLeak
    BY OneHolderMeansNoLeak DEF IInv
  <1> QED  BY Invariance, <1>1, PTL

\* In a stall the connections are the outer ones of logins and registrations.
LEMMA StallNeeds ==
    ASSUME IInv, Stalled
    PROVE  Cardinality({r \in Requests : rq[r].kind = "nested" /\ rq[r].pc = "tenant"})
               >= Cardinality(Conns)
  <1> DEFINE N == {r \in Requests : rq[r].kind = "nested" /\ rq[r].pc = "tenant"}
             outer == [r \in N |-> rq[r].outer]
  <1>1. IsFiniteSet(N) /\ N \subseteq Requests
    <2>1. IsFiniteSet(Requests)
      BY PoolAssumption
    <2> QED  BY <2>1, FS_Subset
  <1>2. ASSUME NEW r \in Requests, Held(rq[r]) # {}
        PROVE  r \in N /\ Held(rq[r]) = {rq[r].outer}
    <2>1. Waits(rq[r]) /\ Shape(rq[r])
      BY <1>2 DEF IInv, Stalled
    <2>2. rq[r].pc = "tenant" /\ rq[r].inner = None
      BY <1>2, <2>1 DEF Waits, Shape, Held
    <2>3. rq[r].outer # None
      BY <1>2, <2>2 DEF Held
    <2> QED  BY <2>1, <2>2, <2>3 DEF Shape, Held
  <1>3. ASSUME NEW r \in N
        PROVE  rq[r].outer \in Conns
    BY <1>3 DEF IInv, TypeOK, Request, Shape
  <1>4. ASSUME NEW c \in Conns
        PROVE  \E r \in N : outer[r] = c
    <2>1. PICK r \in Requests : c \in Held(rq[r])
      BY DEF IInv, OneHolder, Stalled
    <2> QED  BY <1>2, <2>1
  <1>5. outer \in Surjection(N, Conns)
    BY <1>3, <1>4 DEF Surjection
  <1> HIDE DEF N, outer
  <1>6. Cardinality(Conns) <= Cardinality(N)
    BY <1>1, <1>5, FS_Surjection
  <1>7. Cardinality(Conns) \in Nat /\ Cardinality(N) \in Nat
    BY <1>1, PoolAssumption, FS_CardinalityType
  <1>8. Cardinality(N) >= Cardinality(Conns)
    BY <1>6, <1>7
  <1> QED  BY <1>8 DEF N

\* A stall takes as many logins and registrations as there are connections, each between
\* its two sessions: fewer of them than pool_size + max_overflow never stall the pool.
THEOREM StallsAreNested == Spec => []StallTakesNested
  <1>1. IInv => StallTakesNested
    BY StallNeeds DEF StallTakesNested
  <1> QED  BY Invariance, <1>1, PTL
=============================================================================
