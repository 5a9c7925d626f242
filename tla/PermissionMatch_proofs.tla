------------------------ MODULE PermissionMatch_proofs ------------------------
(* Facts about _has_permission for every list of permissions.                *)
EXTENDS PermissionMatch, SequenceTheorems, TLAPS

\* What one permission allows, it allows through any permission it allows: "*" over
\* "tasks:*" over "tasks:read" (rbac.py, _has_permission used on a permission of a role).
LEMMA AllowsTransitive ==
    ASSUME NEW p \in Codenames, NEW q \in Codenames, NEW c \in Codenames,
           Allows(p, q), Allows(q, c)
    PROVE  Allows(p, c)
  <1>1. ~HasColon(Star)
    BY DEF Star, HasColon
  <1>2. CASE p = Star
    BY <1>2 DEF Allows
  <1>3. CASE p # Star /\ HasColon(p)
    <2>1. HasColon(q) /\ q # Star
      BY <1>1, <1>3 DEF Allows
    <2>2. HasColon(c)
      BY <2>1, <1>1 DEF Allows
    <2> QED  BY <1>3, <2>1, <2>2 DEF Allows
  <1>4. CASE p # Star /\ ~HasColon(p)
    <2>1. p = q
      BY <1>4 DEF Allows
    <2> QED  BY <2>1
  <1> QED  BY <1>2, <1>3, <1>4

\* A list of permissions allows whatever a list it covers allows: giving a role the
\* wildcards of another role's permissions never loses one of them.
THEOREM CoverTransitive ==
    ASSUME NEW P \in Seq(Codenames), NEW Q \in Seq(Codenames), NEW c \in Codenames,
           \A i \in 1..Len(Q) : has_permission(P, Q[i]),
           has_permission(Q, c)
    PROVE  has_permission(P, c)
  <1>1. PICK i \in 1..Len(Q) : Allows(Q[i], c)
    BY DEF has_permission
  <1>2. PICK j \in 1..Len(P) : Allows(P[j], Q[i])
    BY <1>1 DEF has_permission
  <1>3. P[j] \in Codenames /\ Q[i] \in Codenames
    BY <1>1, <1>2
  <1>4. Allows(P[j], c)
    BY <1>1, <1>2, <1>3, AllowsTransitive
  <1> QED  BY <1>2, <1>4 DEF has_permission

\* More permissions never allow less, in whatever order the claims list them.
THEOREM Monotone ==
    ASSUME NEW P \in Seq(Codenames), NEW Q \in Seq(Codenames), NEW c \in Codenames,
           \A i \in 1..Len(P) : \E j \in 1..Len(Q) : Q[j] = P[i],
           has_permission(P, c)
    PROVE  has_permission(Q, c)
  BY DEF has_permission

-----------------------------------------------------------------------------
(* The guard and the table of its docstring                                  *)

\* A sequence is its head before its tail.
LEMMA HeadBeforeTail ==
    ASSUME NEW c \in Seq(Segments), c # <<>>
    PROVE  /\ <<Head(c)>> \in Seq(Segments) /\ Len(<<Head(c)>>) = 1 /\ Tail(c) \in Seq(Segments)
           /\ Len(Tail(c)) = Len(c) - 1 /\ <<Head(c)>> \o Tail(c) = c
  <1>1. Len(c) \in Nat /\ Head(c) = c[1] /\ c[1] \in Segments /\ 1 \in 1..Len(c)
    OBVIOUS
  <1>2. Len(c) \in 1..Len(c)
    BY <1>1
  <1>3. SubSeq(c, 1, Len(c)) = <<c[1]>> \o SubSeq(c, 1 + 1, Len(c))
    BY <1>1, <1>2, SubSeqRecursiveFirst
  <1>4. SubSeq(c, 1, Len(c)) = c
    BY SubSeqFull
  <1>5. Tail(c) = SubSeq(c, 2, Len(c)) /\ Tail(c) \in Seq(Segments) /\ Len(Tail(c)) = Len(c) - 1
    BY TailIsSubSeq, HeadTailProperties
  <1>6. <<Head(c)>> \o Tail(c) = c
    <2>1. 1 + 1 = 2
      OBVIOUS
    <2> QED  BY <1>1, <1>3, <1>4, <1>5, <2>1, Zenon
  <1>7. <<Head(c)>> \in Seq(Segments) /\ Len(<<Head(c)>>) = 1
    BY <1>1
  <1> QED  BY <1>5, <1>6, <1>7

\* A codename with a colon is its resource, a colon and its action.
LEMMA SplitJoins ==
    ASSUME NEW c \in Codenames, HasColon(c)
    PROVE  /\ Codename(Resource(c), Action(c)) = c
           /\ Resource(c) \in Seq(Segments) /\ Len(Resource(c)) = 1
           /\ Action(c) \in Seq(Segments) /\ Len(Action(c)) > 0
  <1>1. c \in Seq(Segments) /\ c # <<>> /\ Len(c) \in Nat /\ Len(c) > 1
    BY DEF Codenames, HasColon
  <1> QED  BY <1>1, HeadBeforeTail DEF Codename, Resource, Action

\* A resource and an action joined split into the same two.
LEMMA JoinSplits ==
    ASSUME NEW r \in Seq(Segments), Len(r) = 1, NEW a \in Seq(Segments), Len(a) > 0
    PROVE  HasColon(Codename(r, a)) /\ Resource(Codename(r, a)) = r /\ Action(Codename(r, a)) = a
  <1>1. /\ r \o a \in Seq(Segments) /\ Len(r \o a) = Len(r) + Len(a)
        /\ \A i \in 1..Len(r) + Len(a) :
              (r \o a)[i] = IF i <= Len(r) THEN r[i] ELSE a[i - Len(r)]
    BY ConcatProperties
  <1>2. Len(r) \in Nat /\ Len(a) \in Nat /\ 1 \in 1..Len(r) + Len(a)
    <2>1. Len(r) \in Nat /\ Len(a) \in Nat
      OBVIOUS
    <2> QED  BY <2>1
  <1>3. (r \o a)[1] = IF 1 <= Len(r) THEN r[1] ELSE a[1 - Len(r)]
    BY <1>1, <1>2, Zenon
  <1>4. PICK c \in Seq(Segments) : c = r \o a /\ Len(c) = 1 + Len(a) /\ c[1] = r[1]
    <2>1. (r \o a)[1] = r[1]
      BY <1>3
    <2>2. Len(r \o a) = 1 + Len(a)
      BY <1>1, <1>2
    <2> QED  BY <1>1, <2>1, <2>2, Zenon
  <1>5. Len(c) > 1 /\ c # <<>>
    BY <1>2, <1>4
  <1>6. Head(c) = r[1]
    BY <1>4, <1>5
  <1>7. <<r[1]>> = r
    OBVIOUS
  <1>8. r \o Tail(c) = r \o a /\ Tail(c) \in Seq(Segments)
    BY <1>4, <1>5, <1>6, <1>7, HeadBeforeTail, Zenon
  <1>9. Tail(c) = a
    BY <1>8, ConcatSimplifications, Zenon
  <1> QED  BY <1>4, <1>5, <1>6, <1>7, <1>9, Zenon DEF Codename, HasColon, Resource, Action

\* Among any codenames, a permission allows exactly those that one gets by filling in its
\* stars, as the table in the docstring of _has_permission promises.
THEOREM AllowsWhatItStandsFor ==
    ASSUME NEW U \in SUBSET Codenames, NEW p \in Codenames, NEW c \in U
    PROVE  Allows(p, c) <=> c \in StandsFor(p, U)
  <1>0. c \in Codenames /\ ~HasColon(Star) /\ Len(Star) = 1 /\ Star \in Seq(Segments)
    BY SegmentsAssumption DEF Star, HasColon
  <1>1. CASE p = Star \/ ~HasColon(p)
    BY <1>0, <1>1 DEF Allows, StandsFor
  <1>2. CASE p # Star /\ HasColon(p)
    <2> DEFINE pairs == {d \in U : HasColon(d)}
               R == Fill(Resource(p), {Resource(d) : d \in pairs})
               A == Fill(Action(p), {Action(d) : d \in pairs})
    <2>1. StandsFor(p, U) = {Codename(r, a) : r \in R, a \in A}
      BY <1>2 DEF StandsFor
    <2>2. /\ \A r \in R : r \in Seq(Segments) /\ Len(r) = 1
          /\ \A a \in A : a \in Seq(Segments) /\ Len(a) > 0
      BY <1>2, SplitJoins DEF Fill
    <2>3. ASSUME Allows(p, c) PROVE c \in StandsFor(p, U)
      <3>1. HasColon(c) /\ Resource(p) \in {Resource(c), Star} /\ Action(p) \in {Action(c), Star}
        BY <1>0, <1>2, <2>3 DEF Allows
      <3>2. Resource(c) \in R /\ Action(c) \in A
        BY <3>1 DEF Fill
      <3>3. c = Codename(Resource(c), Action(c))
        BY <1>0, <3>1, SplitJoins
      <3> HIDE DEF R, A
      <3> QED  BY <2>1, <3>2, <3>3
    <2>4. ASSUME c \in StandsFor(p, U) PROVE Allows(p, c)
      <3> HIDE DEF R, A
      <3>1. PICK r \in R, a \in A : c = Codename(r, a)
        BY <2>1, <2>4
      <3>2. HasColon(c) /\ Resource(c) = r /\ Action(c) = a
        BY <2>2, <3>1, JoinSplits
      <3>3. Resource(p) \in {r, Star} /\ Action(p) \in {a, Star}
        BY <3>1 DEF R, A, Fill
      <3> QED  BY <1>2, <3>2, <3>3 DEF Allows
    <2> QED  BY <2>3, <2>4
  <1> QED  BY <1>1, <1>2
=============================================================================
