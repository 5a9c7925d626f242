-------------------- MODULE RefreshTokensContract_proofs --------------------
(* The documentation's contract of a session, proved for every value of    *)
(* the constants from the absence of one kind of overlap each: the code    *)
(* keeps it except when two rotations of one token, a replay and a         *)
(* rotation, or a global logout and a rotation run into each other.  For   *)
(* the global logout its answer must also follow its commit.               *)
EXTENDS RefreshTokensLedger_proofs

-----------------------------------------------------------------------------
(***************************************************************************)
(* Sessions have one owner, and a session whose first row is not committed *)
(* yet is nobody else's: nothing in the table or in progress bears the     *)
(* name of a token that is about to be entered.                            *)
(***************************************************************************)

OneOwner ==
    \A c, d \in Stored : table[c].family = table[d].family => table[c].user = table[d].user

Kin(q) ==
    /\ Rotating(q) \/ Invalidating(q) => q.fam \in minted
    /\ Rotating(q) => \A t \in Stored : table[t].family = q.fam => table[t].user = q.user
    /\ q.pc = "commit" => /\ q.op = "login" => q.fam = q.new
                          /\ \A t \in Stored : table[t].family # q.new

Unborn(p, q) == q.pc = "commit" /\ (Rotating(p) \/ Invalidating(p)) => p.fam # q.new

\* q is p, or p after it was answered before its commit.
Alike(p, q) ==
    /\ q.op = p.op /\ q.pc = p.pc /\ q.user = p.user /\ q.tok = p.tok /\ q.fam = p.fam
    /\ q.at = p.at /\ q.cands = p.cands /\ q.todo = p.todo /\ q.hit = p.hit /\ q.new = p.new
    /\ p.pc = "reply" => q = p

NInv ==
    /\ LInv
    /\ \A t \in Stored : table[t].family \in minted
    /\ OneOwner
    /\ \A r \in Requests : Kin(rq[r])
    /\ \A r, s \in Requests : Unborn(rq[r], rq[s])

\* A step that changes one record and no row keeps NInv if the record keeps its part.
LEMMA RecordKin ==
    ASSUME NInv, LInv', NEW r \in Requests, NEW q,
           rq' = [rq EXCEPT ![r] = q], UNCHANGED table, minted \subseteq minted',
           Kin(q), Unborn(q, q),
           \A s \in Requests \ {r} : Unborn(q, rq[s]) /\ Unborn(rq[s], q)
    PROVE  NInv'
  <1>1. rq'[r] = q /\ \A s \in Requests \ {r} : rq'[s] = rq[s]
    BY DEF NInv, LInv, IInv, TypeOK
  <1>2. ASSUME NEW s \in Requests \ {r}
        PROVE  Kin(rq[s])'
    <2>1. Kin(rq[s]) /\ rq'[s] = rq[s]
      BY <1>1 DEF NInv
    <2> QED  BY <2>1 DEF Kin, Rotating, Invalidating, Stored
  <1>3. Kin(rq[r])'
    BY <1>1 DEF Kin, Rotating, Invalidating, Stored
  <1>4. \A s, u \in Requests : Unborn(rq'[s], rq'[u])
    BY <1>1 DEF NInv
  <1>5. \A s, u \in Requests : Unborn(rq[s], rq[u])'
    BY <1>4 DEF Unborn, Rotating, Invalidating
  <1>6. OneOwner' /\ \A t \in Stored' : table'[t].family \in minted'
    BY DEF NInv, OneOwner, Stored
  <1> QED  BY <1>2, <1>3, <1>5, <1>6 DEF NInv

LEMMA AnewKin ==
    ASSUME NInv, LInv', NEW r \in Requests, NEW q, Step(r, q), Anew(rq[r], q)
    PROVE  NInv'
  <1>1. ~Rotating(q) /\ ~Invalidating(q) /\ q.pc # "commit"
    BY DEF Anew, Rotating, Invalidating
  <1>2. Kin(q)
    BY <1>1 DEF Kin
  <1>3. \A p : Unborn(q, p) /\ Unborn(p, q)
    BY <1>1 DEF Unborn
  <1> QED  BY <1>2, <1>3, RecordKin DEF Step

LEMMA OnwardKin ==
    ASSUME NInv, LInv', NEW r \in Requests, NEW q, Step(r, q), Onward(rq[r], q)
    PROVE  NInv'
  <1>0. /\ Kin(rq[r]) /\ OneOwner /\ WellFormed(rq[r])
        /\ \A t \in Stored : table[t].family \in minted
        /\ \A s \in Requests : Unborn(rq[r], rq[s]) /\ Kin(rq[s])
        /\ UNCHANGED <<table, minted>>
    BY DEF NInv, LInv, IInv, TypeOK, Step
  <1>1. q.pc # "commit"
    BY DEF Onward
  <1>2. ASSUME Rotating(q) \/ Invalidating(q)
        PROVE  \/ q.tok \in Stored /\ q.fam = table[q.tok].family
                    /\ (Rotating(q) => q.user = table[q.tok].user)
               \/ /\ q.fam = rq[r].fam /\ (Rotating(rq[r]) \/ Invalidating(rq[r]))
                  /\ Rotating(q) => Rotating(rq[r]) /\ q.user = rq[r].user
    BY <1>2 DEF Onward, Rotating, Invalidating
  <1>3. Kin(q)
    BY <1>0, <1>1, <1>2 DEF Kin, OneOwner
  <1>5. ASSUME NEW s \in Requests
        PROVE  Unborn(q, rq[s]) /\ Unborn(rq[s], q)
    BY <1>0, <1>1, <1>2 DEF Unborn, Kin
  <1>6. Unborn(q, q)
    BY <1>1 DEF Unborn
  <1> QED  BY <1>3, <1>5, <1>6, RecordKin DEF Step

\* Drawing a token: no row and no request in progress knows its name.
LEMMA CreateKin ==
    ASSUME NInv, LInv', NEW r \in Requests, CreateRefreshToken(r)
    PROVE  NInv'
  <1>0. /\ rq[r] \in Request /\ WellFormed(rq[r]) /\ TypeOK /\ UNCHANGED table
        /\ rq[r].pc = "insert" /\ rq[r].op \in {"login", "refresh"}
        /\ \A t \in Stored : table[t].family \in minted
        /\ \A s \in Requests : Kin(rq[s])
    BY DEF NInv, LInv, IInv, TypeOK, CreateRefreshToken, WellFormed
  <1> PICK t \in Tokens \ minted :
          /\ minted' = minted \cup {t}
          /\ rq' = [rq EXCEPT ![r] =
                       [@ EXCEPT !.pc = "commit", !.new = t, !.at = now,
                                 !.fam = IF rq[r].op = "login" THEN t ELSE rq[r].fam]]
    BY DEF CreateRefreshToken
  <1> DEFINE fam == IF rq[r].op = "login" THEN t ELSE rq[r].fam
             q   == [rq[r] EXCEPT !.pc = "commit", !.new = t, !.at = now, !.fam = fam]
  <1>1. rq' = [rq EXCEPT ![r] = q]
    BY <1>0 DEF TypeOK
  <1>f. IF rq[r].op = "login" THEN fam = t ELSE fam = rq[r].fam
    OBVIOUS
  <1> HIDE DEF fam
  <1>2. /\ q.pc = "commit" /\ q.new = t /\ q.fam = fam
        /\ q.op = rq[r].op /\ q.user = rq[r].user
    BY <1>0 DEF Request
  <1> HIDE DEF q
  <1>3. Rotating(q) => Rotating(rq[r]) /\ fam = rq[r].fam /\ fam \in minted
    BY <1>0, <1>2, <1>f DEF Rotating, Kin
  <1>4. ~Invalidating(q)
    BY <1>2 DEF Invalidating
  <1>5. \A c \in Stored : table[c].family # t
    BY <1>0
  <1>6. Rotating(q) => \A c \in Stored : table[c].family = q.fam => table[c].user = q.user
    BY <1>0, <1>2, <1>3 DEF Kin
  <1>7. Kin(q)
    BY <1>2, <1>3, <1>4, <1>5, <1>6, <1>f DEF Kin
  <1>8. Unborn(q, q)
    BY <1>2, <1>3, <1>4 DEF Unborn
  <1>9. ASSUME NEW s \in Requests \ {r}
        PROVE  Unborn(q, rq[s]) /\ Unborn(rq[s], q)
    <2>1. Unborn(rq[r], rq[s]) /\ Kin(rq[s])
      BY DEF NInv
    <2> QED  BY <1>2, <1>3, <1>4, <2>1 DEF Unborn, Kin
  <1> QED  BY <1>0, <1>1, <1>7, <1>8, <1>9, RecordKin

\* The rows a commit leaves have the sessions and owners they had; a new one comes from
\* the claim of the login or rotation that made it.
LEMMA CommitMintKin ==
    ASSUME NInv, LInv', NEW r \in Requests, CommitMint(r)
    PROVE  NInv'
  <1> DEFINE n == rq[r].new
  <1>0. /\ IInv /\ TypeOK /\ rq[r].pc = "commit" /\ WellFormed(rq[r]) /\ rq[r] \in Request
        /\ Kin(rq[r]) /\ OneOwner /\ Sound(rq[r])
        /\ \A t \in Stored : table[t].family \in minted
        /\ \A s \in Requests : Unborn(rq[r], rq[s]) /\ Unborn(rq[s], rq[r]) /\ Kin(rq[s])
    BY DEF NInv, LInv, IInv, TypeOK, CommitMint
  <1>1. /\ n \notin Stored /\ n \in Tokens /\ n \in minted /\ Stored' = Stored \cup {n}
        /\ table'[n].family = rq[r].fam /\ table'[n].user = rq[r].user
        /\ \A t \in Stored : /\ table'[t].family = table[t].family
                             /\ table'[t].user = table[t].user
        /\ \/ rq[r].op = "login" /\ rq[r].fam = n
           \/ Rotating(rq[r]) /\ rq[r].tok \in Stored
        /\ rq'[r].pc = "reply" /\ \A s \in Requests \ {r} : rq'[s] = rq[s]
        /\ minted' = minted
    <2>1. \A t \in Stored : /\ table'[t].family = table[t].family
                            /\ table'[t].user = table[t].user
      BY <1>0, MintRows, WrittenRow
    <2>2. n \in Tokens /\ n \in minted
      BY <1>0, NewRowType, ConstantsAssumption DEF WellFormed
    <2>3. table'[n].family = rq[r].fam /\ table'[n].user = rq[r].user
      BY <1>0, MintRows, NewRowType
    <2>4. \/ rq[r].op = "login" /\ rq[r].fam = n
          \/ Rotating(rq[r]) /\ rq[r].tok \in Stored
      BY <1>0, MintRows DEF Kin
    <2> QED  BY <1>0, <2>1, <2>2, <2>3, <2>4, MintRows
  <1>2. \A t \in Stored' : table'[t].family \in minted'
    BY <1>0, <1>1 DEF Kin
  <1>3. \A t \in Stored : table[t].family = rq[r].fam => table[t].user = rq[r].user
    BY <1>0, <1>1 DEF Kin
  <1>4. OneOwner'
    BY <1>0, <1>1, <1>3 DEF OneOwner
  <1>5. ASSUME NEW s \in Requests \ {r}
        PROVE  Kin(rq[s])'
    <2>1. /\ rq'[s] = rq[s] /\ Kin(rq[s]) /\ Sound(rq[s]) /\ Apart(rq[s], rq[r])
          /\ Apart(rq[r], rq[s]) /\ Unborn(rq[s], rq[r]) /\ Unborn(rq[r], rq[s])
      BY <1>0, <1>1 DEF NInv, LInv, IInv
    <2>2. ASSUME Rotating(rq[s]), rq[s].fam = rq[r].fam
          PROVE  rq[s].user = rq[r].user
      <3>1. Rotating(rq[r]) /\ rq[r].tok \in Stored
        BY <1>0, <1>1, <2>1, <2>2 DEF Unborn
      <3>2. table[rq[r].tok].family = rq[r].fam /\ table[rq[r].tok].user = rq[r].user
        BY <1>0, <3>1 DEF Sound
      <3> QED  BY <2>1, <2>2, <3>1, <3>2 DEF Kin
    <2>3. rq[s].pc = "commit" => rq[r].fam # rq[s].new
      BY <1>0, <1>1, <2>1 DEF Unborn, Apart
    <2> QED  BY <1>1, <2>1, <2>2, <2>3 DEF Kin, Rotating, Invalidating
  <1>6. Kin(rq[r])'
    BY <1>1 DEF Kin, Rotating, Invalidating
  <1>7. ASSUME NEW s \in Requests, NEW u \in Requests
        PROVE  Unborn(rq[s], rq[u])'
    <2>1. Unborn(rq[s], rq[u])
      BY DEF NInv
    <2> QED  BY <1>1, <2>1 DEF Unborn, Rotating, Invalidating
  <1> QED  BY <1>2, <1>4, <1>5, <1>6, <1>7 DEF NInv

\* What a bulk statement leaves of the rows.
LEMMA BulkKeepsRows ==
    ASSUME IInv, NEW r \in Requests, CommitBulk(r)
    PROVE  /\ Stored' \subseteq Stored
           /\ \A t \in Stored' :
                 /\ table'[t].family = table[t].family /\ table'[t].user = table[t].user
                 /\ table'[t].parent = table[t].parent
                 /\ table[t].revoked => table'[t].revoked
                 /\ t \in rq[r].hit => table'[t].revoked
  <1>0. TypeOK
    BY DEF IInv
  <1>1. CASE rq[r].op = "cleanup"
    BY <1>1, BulkRows
  <1>2. CASE rq[r].op # "cleanup"
    <2>1. Stored' = Stored /\ table' = [t \in Stored |-> Written(r, t)]
      BY <1>2, BulkRows
    <2>2. \A t \in Stored : table'[t] = Written(r, t)
      BY <2>1
    <2> QED  BY <1>0, <2>1, <2>2, WrittenRow
  <1> QED  BY <1>1, <1>2

LEMMA CommitBulkKin ==
    ASSUME NInv, LInv', NEW r \in Requests, CommitBulk(r)
    PROVE  NInv'
  <1>0. IInv
    BY DEF NInv, LInv
  <1>1. /\ Stored' \subseteq Stored /\ minted' = minted
        /\ \A t \in Stored' : table'[t].family = table[t].family /\ table'[t].user = table[t].user
        /\ rq'[r].pc = "reply" /\ \A s \in Requests \ {r} : rq'[s] = rq[s]
    BY <1>0, BulkKeepsRows, BulkRows
  <1>2. OneOwner' /\ \A t \in Stored' : table'[t].family \in minted'
    BY <1>1 DEF NInv, OneOwner
  <1>3. ASSUME NEW s \in Requests
        PROVE  Kin(rq[s])'
    <2>1. Kin(rq[s])
      BY DEF NInv
    <2> QED  BY <1>1, <2>1 DEF Kin, Rotating, Invalidating
  <1>4. ASSUME NEW s \in Requests, NEW u \in Requests
        PROVE  Unborn(rq[s], rq[u])'
    <2>1. Unborn(rq[s], rq[u])
      BY DEF NInv
    <2> QED  BY <1>1, <2>1 DEF Unborn, Rotating, Invalidating
  <1> QED  BY <1>2, <1>3, <1>4 DEF NInv

\* A slot that is freed, a crash, the clock, an answer.
LEMMA OtherKin ==
    ASSUME NInv, LInv', UNCHANGED <<table, minted>>,
           \A s \in Requests : rq'[s] = Idle \/ Alike(rq[s], rq'[s])
    PROVE  NInv'
  <1>1. Idle.op = "none" /\ Idle.pc = "idle"
    BY DEF Idle
  <1>2. ASSUME NEW s \in Requests
        PROVE  Kin(rq[s])'
    <2>1. Kin(rq[s])
      BY DEF NInv
    <2> QED  BY <1>1, <2>1 DEF Kin, Rotating, Invalidating, Stored, Alike
  <1>3. ASSUME NEW s \in Requests, NEW u \in Requests
        PROVE  Unborn(rq[s], rq[u])'
    <2>1. Unborn(rq[s], rq[u])
      BY DEF NInv
    <2> QED  BY <1>1, <2>1 DEF Unborn, Rotating, Invalidating, Alike
  <1>4. OneOwner' /\ \A t \in Stored' : table'[t].family \in minted'
    BY DEF NInv, OneOwner, Stored
  <1> QED  BY <1>2, <1>3, <1>4 DEF NInv

LEMMA InitNInv == Init => NInv
  <1> SUFFICES ASSUME Init PROVE NInv
    OBVIOUS
  <1>1. Stored = {} /\ \A r \in Requests : rq[r].op = "none" /\ rq[r].pc = "idle"
    BY DEF Init, Stored, Idle
  <1>2. \A r \in Requests : Kin(rq[r])
    BY <1>1 DEF Kin, Rotating, Invalidating
  <1>3. \A r, s \in Requests : Unborn(rq[r], rq[s])
    BY <1>1 DEF Unborn
  <1> QED  BY <1>1, <1>2, <1>3, InitLInv DEF NInv, OneOwner

\* Every step that commits nothing and draws nothing: one record goes on or anew, or
\* records become idle or are answered.
LEMMA QuietMoves ==
    ASSUME TypeOK, [Next]_vars
    PROVE  \/ \E r \in Requests : CommitMint(r) \/ CommitBulk(r) \/ CreateRefreshToken(r)
           \/ \E r \in Requests : \E q : Step(r, q) /\ (Anew(rq[r], q) \/ Onward(rq[r], q))
           \/ /\ UNCHANGED <<table, minted>>
              /\ \A s \in Requests : rq'[s] = Idle \/ Alike(rq[s], rq'[s])
  <1>0. \A s \in Requests : rq'[s] = rq[s] => Alike(rq[s], rq'[s])
    BY DEF Alike
  <1>1. ASSUME NEW r \in Requests, Respond(r)
        PROVE  UNCHANGED <<table, minted>> /\ \A s \in Requests : rq'[s] \in {rq[s], Idle}
    BY <1>1 DEF TypeOK, Respond, Deliver
  <1>2. ASSUME NEW r \in Requests, RespondBeforeCommit(r)
        PROVE  UNCHANGED <<table, minted>> /\ \A s \in Requests : Alike(rq[s], rq'[s])
    <2>1. Alike(rq[r], rq'[r]) /\ \A s \in Requests \ {r} : rq'[s] = rq[s]
      BY <1>2, Answered DEF Alike
    <2> QED  BY <1>0, <1>2, <2>1, Answered
  <1>3. ASSUME Crash \/ Tick \/ UNCHANGED vars
        PROVE  UNCHANGED <<table, minted>> /\ \A s \in Requests : rq'[s] \in {rq[s], Idle}
    BY <1>3 DEF Crash, Tick, vars
  <1> QED  BY <1>0, <1>1, <1>2, <1>3, NextCases, ArrivalMoves, HandlerMoves

LEMMA NextNInv ==
    ASSUME NInv, [Next]_vars
    PROVE  NInv'
  <1>1. LInv' /\ TypeOK
    BY NextLInv DEF NInv, LInv, IInv
  <1> QED  BY <1>1, QuietMoves, AnewKin, OnwardKin, CreateKin, CommitMintKin,
              CommitBulkKin, OtherKin

-----------------------------------------------------------------------------
(***************************************************************************)
(* Rotations that are not two of one token.  A token being rotated has no  *)
(* successor and is all that is live of its session.                       *)
(***************************************************************************)

Unspent(q) ==
    Rotating(q) =>
        \A c \in Stored :
            /\ table[c].parent # q.tok
            /\ table[c].family = q.fam /\ ~table[c].revoked => c = q.tok

RInv ==
    /\ NInv
    /\ SingleUse
    /\ OneLiveToken
    /\ \A r \in Requests : Unspent(rq[r])
    /\ \A r, s \in Requests :
          Rotating(rq[r]) /\ Rotating(rq[s]) /\ rq[r].fam = rq[s].fam => rq[r].tok = rq[s].tok

\* A step that leaves the rows alone and takes up no rotation but of a live token.
LEMMA RecordSpends ==
    ASSUME RInv, NInv', NEW r \in Requests, NEW q,
           rq' = [rq EXCEPT ![r] = q], UNCHANGED table,
           Rotating(q) =>
              \/ Rotating(rq[r]) /\ q.tok = rq[r].tok /\ q.fam = rq[r].fam
              \/ q.tok \in Stored /\ ~table[q.tok].revoked /\ q.fam = table[q.tok].family
    PROVE  RInv'
  <1>1. rq'[r] = q /\ \A s \in Requests \ {r} : rq'[s] = rq[s]
    BY DEF RInv, NInv, LInv, IInv, TypeOK
  <1>2. Unspent(q)
    <2>1. CASE Rotating(rq[r]) /\ q.tok = rq[r].tok /\ q.fam = rq[r].fam
      BY <2>1 DEF RInv, Unspent
    <2>2. CASE q.tok \in Stored /\ ~table[q.tok].revoked /\ q.fam = table[q.tok].family
      <3>1. SessionChain
        BY DEF RInv, NInv, LInv, IInv, TableSound
      <3> QED  BY <2>2, <3>1 DEF RInv, OneLiveToken, SessionChain, Unspent
    <2> QED  BY <2>1, <2>2 DEF Unspent
  <1>3. \A s \in Requests : Unspent(rq'[s])
    BY <1>1, <1>2 DEF RInv
  <1>4. \A s \in Requests : Unspent(rq[s])'
    BY <1>3 DEF Unspent, Rotating, Stored
  <1>5. ASSUME NEW s \in Requests \ {r}, Rotating(q), Rotating(rq[s]), q.fam = rq[s].fam
        PROVE  q.tok = rq[s].tok
    <2>1. Unspent(rq[s])
      BY DEF RInv
    <2> QED  BY <1>5, <2>1 DEF RInv, Unspent
  <1>6. \A s, u \in Requests :
           Rotating(rq'[s]) /\ Rotating(rq'[u]) /\ rq'[s].fam = rq'[u].fam =>
              rq'[s].tok = rq'[u].tok
    BY <1>1, <1>5 DEF RInv
  <1>7. SingleUse' /\ OneLiveToken'
    BY DEF RInv, SingleUse, OneLiveToken, Stored
  <1> QED  BY <1>4, <1>6, <1>7 DEF RInv, Rotating

LEMMA CreateSpends ==
    ASSUME RInv, NInv', NEW r \in Requests, CreateRefreshToken(r)
    PROVE  RInv'
  <1>0. rq[r] \in Request /\ TypeOK /\ rq[r].pc = "insert" /\ UNCHANGED table
    BY DEF RInv, NInv, LInv, IInv, TypeOK, CreateRefreshToken
  <1> PICK t \in Tokens \ minted :
          rq' = [rq EXCEPT ![r] =
                    [@ EXCEPT !.pc = "commit", !.new = t, !.at = now,
                              !.fam = IF rq[r].op = "login" THEN t ELSE rq[r].fam]]
    BY DEF CreateRefreshToken
  <1> DEFINE fam == IF rq[r].op = "login" THEN t ELSE rq[r].fam
             q   == [rq[r] EXCEPT !.pc = "commit", !.new = t, !.at = now, !.fam = fam]
  <1>1. rq' = [rq EXCEPT ![r] = q]
    BY <1>0 DEF TypeOK
  <1>f. rq[r].op # "login" => fam = rq[r].fam
    OBVIOUS
  <1> HIDE DEF fam
  <1>2. q.fam = fam /\ q.op = rq[r].op /\ q.tok = rq[r].tok
    BY <1>0 DEF Request
  <1> HIDE DEF q
  <1>3. Rotating(q) => Rotating(rq[r]) /\ q.tok = rq[r].tok /\ q.fam = rq[r].fam
    BY <1>0, <1>2, <1>f DEF Rotating
  <1> QED  BY <1>0, <1>1, <1>3, RecordSpends

\* The row of a rotation replaces the one live row of its session, and no other
\* rotation of that row is left to commit.
LEMMA CommitMintSpends ==
    ASSUME RInv, NInv', OneRotation, NEW r \in Requests, CommitMint(r)
    PROVE  RInv'
  <1> DEFINE n == rq[r].new
  <1>0. /\ IInv /\ TypeOK /\ rq[r].pc = "commit" /\ WellFormed(rq[r]) /\ Kin(rq[r])
        /\ Unspent(rq[r]) /\ SingleUse /\ OneLiveToken
        /\ \A s \in Requests : /\ Unspent(rq[s]) /\ Unborn(rq[s], rq[r])
                               /\ WellFormed(rq[s])
    BY DEF RInv, NInv, LInv, IInv, TypeOK, CommitMint
  <1>1. /\ n \notin Stored /\ Stored' = Stored \cup {n}
        /\ table'[n].family = rq[r].fam /\ table'[n].parent = rq[r].tok
        /\ \A t \in Stored : /\ table'[t].family = table[t].family
                             /\ table'[t].parent = table[t].parent
                             /\ table[t].revoked => table'[t].revoked
                             /\ t \in rq[r].hit => table'[t].revoked
        /\ \/ rq[r].op = "login" /\ rq[r].fam = n /\ rq[r].tok = None
           \/ Rotating(rq[r]) /\ rq[r].hit = {rq[r].tok} /\ rq[r].tok \in Stored
        /\ rq'[r].pc = "reply" /\ \A s \in Requests \ {r} : rq'[s] = rq[s]
    <2>1. \A t \in Stored : /\ table'[t].family = table[t].family
                            /\ table'[t].parent = table[t].parent
                            /\ table[t].revoked => table'[t].revoked
                            /\ t \in rq[r].hit => table'[t].revoked
      BY <1>0, MintRows, WrittenRow
    <2>2. table'[n].family = rq[r].fam /\ table'[n].parent = rq[r].tok
      BY <1>0, MintRows, NewRowType
    <2>3. \/ rq[r].op = "login" /\ rq[r].fam = n /\ rq[r].tok = None
          \/ Rotating(rq[r]) /\ rq[r].hit = {rq[r].tok} /\ rq[r].tok \in Stored
      BY <1>0, MintRows DEF Kin
    <2> QED  BY <1>0, <2>1, <2>2, <2>3, MintRows
  <1>2. SingleUse'
    <2>1. \A c \in Stored : rq[r].tok # None => table[c].parent # rq[r].tok
      BY <1>0, <1>1 DEF Unspent
    <2> QED  BY <1>0, <1>1, <2>1 DEF SingleUse
  <1>3. \A c \in Stored : table'[c].family = rq[r].fam => table'[c].revoked
    BY <1>0, <1>1 DEF Unspent, Kin
  <1>4. OneLiveToken'
    BY <1>0, <1>1, <1>3 DEF OneLiveToken
  <1>5. ASSUME NEW s \in Requests \ {r}, Rotating(rq[s])
        PROVE  rq[r].fam # rq[s].fam /\ rq[r].tok # rq[s].tok
    <2>1. rq[s].tok # None
      BY <1>0, <1>5, ConstantsAssumption DEF WellFormed, Rotating
    <2>2. rq[r].tok # rq[s].tok
      BY <1>1, <1>5, <2>1 DEF OneRotation
    <2>3. rq[r].fam # rq[s].fam
      BY <1>0, <1>1, <1>5, <2>2 DEF Unborn, RInv
    <2> QED  BY <2>2, <2>3
  <1>6. ASSUME NEW s \in Requests
        PROVE  Unspent(rq[s])'
    <2>1. CASE s = r
      BY <1>1, <2>1 DEF Unspent, Rotating
    <2>2. CASE s # r
      BY <1>0, <1>1, <1>5, <2>2 DEF Unspent, Rotating
    <2> QED  BY <2>1, <2>2
  <1>7. \A s, u \in Requests :
           Rotating(rq'[s]) /\ Rotating(rq'[u]) /\ rq'[s].fam = rq'[u].fam =>
              rq'[s].tok = rq'[u].tok
    BY <1>1 DEF RInv, Rotating
  <1> QED  BY <1>2, <1>4, <1>6, <1>7 DEF RInv, Rotating

LEMMA CommitBulkSpends ==
    ASSUME RInv, NInv', NEW r \in Requests, CommitBulk(r)
    PROVE  RInv'
  <1>0. IInv
    BY DEF RInv, NInv, LInv
  <1>1. /\ Stored' \subseteq Stored
        /\ \A t \in Stored' : /\ table'[t].family = table[t].family
                              /\ table'[t].parent = table[t].parent
                              /\ table[t].revoked => table'[t].revoked
        /\ rq'[r].pc = "reply" /\ \A s \in Requests \ {r} : rq'[s] = rq[s]
    BY <1>0, BulkKeepsRows, BulkRows
  <1>2. SingleUse' /\ OneLiveToken'
    BY <1>1 DEF RInv, SingleUse, OneLiveToken
  <1>3. ASSUME NEW s \in Requests
        PROVE  Unspent(rq[s])'
    <2>1. Unspent(rq[s])
      BY DEF RInv
    <2> QED  BY <1>1, <2>1 DEF Unspent, Rotating
  <1>4. \A s, u \in Requests :
           Rotating(rq'[s]) /\ Rotating(rq'[u]) /\ rq'[s].fam = rq'[u].fam =>
              rq'[s].tok = rq'[u].tok
    BY <1>1 DEF RInv, Rotating
  <1> QED  BY <1>2, <1>3, <1>4 DEF RInv, Rotating

LEMMA OtherSpends ==
    ASSUME RInv, NInv', UNCHANGED table,
           \A s \in Requests : rq'[s] = Idle \/ Alike(rq[s], rq'[s])
    PROVE  RInv'
  <1>1. ~Rotating(Idle)
    BY DEF Idle, Rotating
  <1>2. \A s \in Requests : Rotating(rq'[s]) =>
           Rotating(rq[s]) /\ rq'[s].tok = rq[s].tok /\ rq'[s].fam = rq[s].fam
    <2>1. \A s \in Requests : Alike(rq[s], rq'[s]) =>
             /\ Rotating(rq'[s]) => Rotating(rq[s])
             /\ rq'[s].tok = rq[s].tok /\ rq'[s].fam = rq[s].fam
      BY DEF Alike, Rotating
    <2> QED  BY <1>1, <2>1
  <1>3. \A s \in Requests : Unspent(rq'[s])
    BY <1>2 DEF RInv, Unspent
  <1>4. \A s \in Requests : Unspent(rq[s])'
    BY <1>3 DEF Unspent, Rotating, Stored
  <1>5. \A s, u \in Requests :
           Rotating(rq'[s]) /\ Rotating(rq'[u]) /\ rq'[s].fam = rq'[u].fam =>
              rq'[s].tok = rq'[u].tok
    BY <1>2 DEF RInv
  <1>6. SingleUse' /\ OneLiveToken'
    BY DEF RInv, SingleUse, OneLiveToken, Stored
  <1> QED  BY <1>4, <1>5, <1>6 DEF RInv, Rotating

LEMMA InitRInv == Init => RInv
  <1> SUFFICES ASSUME Init PROVE RInv
    OBVIOUS
  <1>1. Stored = {} /\ \A r \in Requests : ~Rotating(rq[r])
    BY DEF Init, Stored, Idle, Rotating
  <1> QED  BY <1>1, InitNInv DEF RInv, SingleUse, OneLiveToken, Unspent

LEMMA NextRInv ==
    ASSUME RInv, OneRotation, [Next]_vars
    PROVE  RInv'
  <1>0. NInv' /\ TypeOK
    BY NextNInv DEF RInv, NInv, LInv, IInv
  <1>1. ASSUME NEW r \in Requests, NEW q, Step(r, q), Anew(rq[r], q) \/ Onward(rq[r], q)
        PROVE  RInv'
    <2>1. Rotating(q) =>
             \/ Rotating(rq[r]) /\ q.tok = rq[r].tok /\ q.fam = rq[r].fam
             \/ q.tok \in Stored /\ ~table[q.tok].revoked /\ q.fam = table[q.tok].family
      BY <1>1 DEF Anew, Onward, Rotating
    <2> QED  BY <1>0, <1>1, <2>1, RecordSpends DEF Step
  <1> QED  BY <1>0, <1>1, QuietMoves, CreateSpends, CommitMintSpends, CommitBulkSpends,
              OtherSpends

\* While no token is being rotated by two requests at once, a token buys at most one
\* successor, whatever else interleaves, fails or crashes (rotate_refresh_token): what
\* breaks single use is that its SELECT takes no lock, and nothing else.
THEOREM SingleUseHolds == Spec /\ []OneRotation => []SingleUse
  <1>1. RInv => SingleUse
    BY DEF RInv
  <1> QED  BY <1>1, InitRInv, NextRInv, PTL DEF Spec

\* On the same condition a session never has two tokens that can be refreshed.
THEOREM OneTokenPerSession == Spec /\ []OneRotation => []OneLiveToken
  <1>1. RInv => OneLiveToken
    BY DEF RInv
  <1> QED  BY <1>1, InitRInv, NextRInv, PTL DEF Spec

-----------------------------------------------------------------------------
(***************************************************************************)
(* Invalidations and global logouts during which no session they end is    *)
(* rotated.  While the statement runs, every live row of a session it ends *)
(* is among the rows it matched; when the answer goes out, the session is  *)
(* dead, and a dead session stays dead.                                    *)
(***************************************************************************)

\* The rows of the sessions a statement ends: of the family it invalidates, or of the
\* families of the rows a global logout matched.
EndsFamily(q, f) ==
    \/ q.op = "refresh" /\ f = q.fam
    \/ q.op = "logout_all" /\ \E c \in q.cands : c \in Stored /\ table[c].family = f

Covers(q) ==
    q.pc = "update" =>
        \A t \in Stored : ~table[t].revoked /\ EndsFamily(q, table[t].family) => t \in q.cands

Ended(q) ==
    q.pc = "reply" /\ (q.reply = "replay" \/ (q.op = "logout_all" /\ q.reply = "ok")) =>
        \A f \in Tokens : EndsFamily(q, f) => SessionDead(f)

\* No rotation of a session that a statement is ending.
Undisturbed(q) ==
    q.pc = "update" =>
        \A s \in Requests : Rotating(rq[s]) => ~EndsFamily(q, rq[s].fam)

LEMMA ReplayUndisturbed ==
    ASSUME TypeOK, QuietReplay, NEW r \in Requests, rq[r].op = "refresh"
    PROVE  Undisturbed(rq[r])
  BY DEF QuietReplay, Undisturbed, EndsFamily, Rotating

\* A rotation in a session of one of the caller's tokens is a rotation of the caller's.
LEMMA LogoutUndisturbed ==
    ASSUME NInv, QuietLogout, NEW r \in Requests, rq[r].op = "logout_all"
    PROVE  Undisturbed(rq[r])
  <1> SUFFICES ASSUME rq[r].pc = "update", NEW s \in Requests, Rotating(rq[s]),
                      NEW c \in rq[r].cands, c \in Stored, table[c].family = rq[s].fam
               PROVE  FALSE
    BY DEF Undisturbed, EndsFamily
  <1>1. table[c].user = rq[s].user
    BY DEF NInv, Kin
  <1>2. table[c].user = rq[r].user
    BY DEF NInv, LInv, IInv, Sound, Target
  <1> QED  BY <1>1, <1>2 DEF QuietLogout, Rotating

\* Which families a request ends does not depend on rows that come later.
LEMMA EndsFamilyKept ==
    ASSUME NInv, [Next]_vars, NEW s \in Requests, Alike(rq[s], rq'[s]),
           NEW f, EndsFamily(rq[s], f)'
    PROVE  EndsFamily(rq[s], f)
  <1>1. ASSUME NEW c \in rq[s].cands, c \in Stored'
        PROVE  c \in Stored /\ table'[c].family = table[c].family
    <2>1. ASSUME NEW r \in Requests, CommitMint(r)
          PROVE  c \in Stored /\ table'[c].family = table[c].family
      <3>1. IInv /\ TypeOK /\ rq[r].pc = "commit"
        BY <2>1 DEF CommitMint, NInv, LInv, IInv
      <3>2. rq'[r].pc = "reply"
        BY <2>1, <3>1, MintRows
      <3>3. Apart(rq[s], rq[r])
        BY <3>1, <3>2 DEF IInv, Alike
      <3> QED  BY <1>1, <2>1, <3>1, <3>3, MintRows, WrittenRow DEF Apart
    <2>2. ASSUME NEW r \in Requests, CommitBulk(r)
          PROVE  c \in Stored /\ table'[c].family = table[c].family
      BY <1>1, <2>2, BulkKeepsRows DEF NInv, LInv
    <2>3. ASSUME UNCHANGED table
          PROVE  c \in Stored /\ table'[c].family = table[c].family
      BY <1>1, <2>3 DEF Stored
    <2> QED  BY <2>1, <2>2, <2>3, OtherSteps DEF vars
  <1> QED  BY <1>1 DEF EndsFamily, Alike

\* What has ended stays ended.
LEMMA EndedKept ==
    ASSUME NInv, [Next]_vars, NEW s \in Requests, Alike(rq[s], rq'[s]), Ended(rq[s])
    PROVE  Ended(rq[s])'
  <1>1. TypeOK
    BY DEF NInv, LInv, IInv
  <1> SUFFICES ASSUME NEW f \in Tokens, EndsFamily(rq[s], f)', rq[s].pc = "reply",
                      rq[s].reply = "replay" \/ (rq[s].op = "logout_all" /\ rq[s].reply = "ok")
               PROVE  SessionDead(f)'
    BY DEF Ended, Alike
  <1>2. SessionDead(f)
    BY EndsFamilyKept DEF Ended
  <1> QED  BY <1>1, <1>2, DeadNext

\* A row that is entered meanwhile is of no session that is being ended.
LEMMA CoversKept ==
    ASSUME NInv, [Next]_vars, NEW s \in Requests, Alike(rq[s], rq'[s]),
           Undisturbed(rq[s]), Covers(rq[s])
    PROVE  Covers(rq[s])'
  <1>0. IInv /\ TypeOK
    BY DEF NInv, LInv, IInv
  <1> SUFFICES ASSUME rq[s].pc = "update", NEW t \in Stored', ~table'[t].revoked,
                      NEW f, f = table'[t].family, EndsFamily(rq[s], f)'
               PROVE  t \in rq[s].cands
    BY DEF Covers, EndsFamily, Alike
  <1>e. EndsFamily(rq[s], f)
    BY EndsFamilyKept
  <1>1. ASSUME t \in Stored, table'[t].family = table[t].family, ~table[t].revoked
        PROVE  t \in rq[s].cands
    BY <1>1, <1>e DEF Covers
  <1>2. ASSUME NEW r \in Requests, CommitMint(r)
        PROVE  t \in rq[s].cands
    <2>1. CASE t \in Stored
      BY <1>0, <1>1, <1>2, <2>1, MintRows, WrittenRow
    <2>2. CASE t \notin Stored
      <3>1. t = rq[r].new /\ table'[t].family = rq[r].fam
        <4>1. rq[r].pc = "commit"
          BY <1>2 DEF CommitMint
        <4>2. Stored' = Stored \cup {rq[r].new} /\ table'[rq[r].new] = NewRow(r)
          BY <1>0, <1>2, MintRows
        <4>3. NewRow(r).family = rq[r].fam
          BY <1>0, <4>1, NewRowType
        <4> QED  BY <2>2, <4>2, <4>3
      <3>2. rq[r].pc = "commit" /\ Kin(rq[r]) /\ Unborn(rq[s], rq[r])
        BY <1>2 DEF CommitMint, NInv
      <3>3. CASE Rotating(rq[r])
        BY <1>e, <3>1, <3>3 DEF Undisturbed
      <3>4. CASE ~Rotating(rq[r])
        <4>1. rq[r].fam = rq[r].new
          BY <1>0, <1>2, <3>2, <3>4, MintRows DEF Kin
        <4>2. ~EndsFamily(rq[s], rq[r].fam)
          BY <3>2, <4>1 DEF EndsFamily, Kin, Unborn, Invalidating
        <4> QED  BY <1>e, <3>1, <4>2
      <3> QED  BY <3>3, <3>4
    <2> QED  BY <2>1, <2>2
  <1>3. ASSUME NEW r \in Requests, CommitBulk(r)
        PROVE  t \in rq[s].cands
    BY <1>0, <1>1, <1>3, BulkKeepsRows
  <1>4. ASSUME UNCHANGED table
        PROVE  t \in rq[s].cands
    BY <1>1, <1>4 DEF Stored
  <1> QED  BY <1>2, <1>3, <1>4, OtherSteps DEF vars

\* The statement is done: what it matched is revoked, so its sessions have no live row,
\* and nobody is rotating one of their tokens.
LEMMA StatementEnds ==
    ASSUME NInv, NEW r \in Requests, CommitBulk(r), Covers(rq[r]), Undisturbed(rq[r])
    PROVE  Ended(rq[r])'
  <1>0. IInv /\ TypeOK
    BY DEF NInv, LInv, IInv
  <1>1. /\ Stored' \subseteq Stored /\ rq[r].pc = "update" /\ minted' = minted
        /\ \A t \in Stored' : /\ table'[t].family = table[t].family
                              /\ table[t].revoked => table'[t].revoked
                              /\ t \in rq[r].hit => table'[t].revoked
        /\ rq'[r].pc = "reply" /\ rq'[r].op = rq[r].op
        /\ \A s \in Requests \ {r} : rq'[s] = rq[s]
    BY <1>0, BulkKeepsRows, BulkRows
  <1>2. /\ rq'[r].fam = rq[r].fam
        /\ rq[r].op # "cleanup" => rq'[r].cands = rq[r].cands
    BY <1>0 DEF CommitBulk, TypeOK, Request
  <1> SUFFICES ASSUME NEW f \in Tokens, EndsFamily(rq[r], f)'
               PROVE  SessionDead(f)'
    BY DEF Ended
  <1>3. EndsFamily(rq[r], f) /\ rq[r].op \in {"refresh", "logout_all"}
    BY <1>1, <1>2 DEF EndsFamily
  <1>4. f \in minted
    BY <1>1, <1>3 DEF EndsFamily, NInv, Kin, Invalidating
  <1>5. ASSUME NEW t \in Stored', table'[t].family = f
        PROVE  table'[t].revoked
    <2>1. table[t].revoked \/ t \in rq[r].cands
      BY <1>1, <1>3, <1>5 DEF Covers
    <2>2. t \in rq[r].cands => t \in rq[r].hit \/ Gone(t)
      BY <1>0, <1>1, <1>3 DEF CommitBulk, IInv, Sound
    <2> QED  BY <1>1, <1>5, <2>1, <2>2 DEF Gone
  <1>6. ASSUME NEW s \in Requests \ {r}, rq[s].pc \in {"revoke", "insert", "commit"}
        PROVE  rq[s].fam # f
    <2>1. /\ Kin(rq[s]) /\ Unborn(rq[r], rq[s]) /\ Fresh(rq[s]) /\ WellFormed(rq[s])
          /\ f # None
      BY <1>0, ConstantsAssumption DEF NInv, LInv, TypeOK
    <2>2. CASE Rotating(rq[s])
      BY <1>1, <1>3, <2>2 DEF Undisturbed
    <2>3. CASE ~Rotating(rq[s])
      <3>1. rq[s].op = "login"
        BY <1>6, <2>1, <2>3 DEF WellFormed, Rotating
      <3>2. CASE rq[s].pc = "insert"
        BY <2>1, <3>1, <3>2 DEF Fresh
      <3>3. CASE rq[s].pc = "commit"
        BY <1>1, <1>3, <2>1, <3>1, <3>3 DEF Kin, Unborn, EndsFamily, Invalidating
      <3> QED  BY <1>6, <2>1, <3>1, <3>2, <3>3 DEF WellFormed
    <2> QED  BY <2>2, <2>3
  <1>7. \A t \in Stored' : table'[t].family = f => table'[t].revoked
    BY <1>5
  <1>8. \A s \in Requests : rq'[s].pc \in {"revoke", "insert", "commit"} => rq'[s].fam # f
    BY <1>1, <1>6
  <1> QED  BY <1>1, <1>4, <1>7, <1>8 DEF SessionDead

EInv(op) ==
    /\ NInv
    /\ \A r \in Requests : rq[r].op = op => Covers(rq[r]) /\ Ended(rq[r])
    /\ \A r \in Requests : rq[r].pc = "reply" /\ rq[r].reply = "replay" => rq[r].op = "refresh"

\* A request that goes on or anew, in a step that changes no row: it matches all the
\* live rows of the sessions it ends, or has not answered.
LEMMA RecordEnds ==
    ASSUME NInv, IInv', NEW r \in Requests, NEW q, Step(r, q),
           \/ Anew(rq[r], q)
           \/ Onward(rq[r], q) /\ (q.op \in {"refresh", "logout_all"} => Covers(rq[r]))
    PROVE  /\ q.op \in {"refresh", "logout_all"} => Covers(rq[r])' /\ Ended(rq[r])'
           /\ rq'[r].pc = "reply" => rq'[r].reply \notin {"replay", "ok"}
  <1>0. rq'[r] = q /\ Stored' = Stored /\ table' = table
    BY DEF Step, NInv, LInv, IInv, TypeOK, Stored
  <1>1. q.pc = "reply" => q.reply \notin {"replay", "ok"}
    BY DEF Anew, Onward
  <1>2. Ended(rq[r])'
    BY <1>0, <1>1 DEF Ended
  <1>3. ASSUME q.op \in {"refresh", "logout_all"}, q.pc = "update",
               NEW t \in Stored, ~table[t].revoked, EndsFamily(q, table[t].family)
        PROVE  t \in q.cands
    <2>1. /\ q.op = rq[r].op /\ q.fam = rq[r].fam /\ q.user = rq[r].user
          /\ \/ /\ rq[r].pc = "match"
                /\ \A u \in Stored : ~table[u].revoked /\ MatchedBy(q, u) => u \in q.cands
             \/ rq[r].pc = "update" /\ q.cands = rq[r].cands /\ Covers(rq[r])
      BY <1>3 DEF Anew, Onward
    <2>2. CASE rq[r].pc = "update"
      BY <1>3, <2>1, <2>2 DEF Covers, EndsFamily
    <2>3. CASE /\ rq[r].pc = "match"
               /\ \A u \in Stored : ~table[u].revoked /\ MatchedBy(q, u) => u \in q.cands
      <3>1. MatchedBy(q, t)
        <4>1. CASE q.op = "refresh"
          BY <1>3, <4>1 DEF EndsFamily, MatchedBy
        <4>2. CASE q.op = "logout_all"
          <5>1. PICK c \in q.cands : c \in Stored /\ table[c].family = table[t].family
            BY <1>3, <4>2 DEF EndsFamily
          <5>2. table[c].user = q.user
            BY <1>0, <1>3, <4>2, <5>1 DEF IInv, Sound, Target
          <5> QED  BY <4>2, <5>1, <5>2 DEF NInv, OneOwner, MatchedBy
        <4> QED  BY <1>3, <4>1, <4>2
      <3> QED  BY <1>3, <2>3, <3>1
    <2> QED  BY <2>1, <2>2, <2>3
  <1>4. q.op \in {"refresh", "logout_all"} => Covers(rq[r])'
    BY <1>0, <1>3 DEF Covers, EndsFamily
  <1> QED  BY <1>0, <1>1, <1>2, <1>4

LEMMA NextEInv ==
    ASSUME NEW op \in {"refresh", "logout_all"}, EInv(op), [Next]_vars,
           \A r \in Requests : rq[r].op = op => Undisturbed(rq[r])
    PROVE  EInv(op)'
  <1>0. NInv /\ NInv' /\ IInv /\ IInv' /\ TypeOK
    BY NextNInv DEF EInv, NInv, LInv, IInv
  <1> DEFINE Good(s) == /\ rq'[s].op = op => Covers(rq[s])' /\ Ended(rq[s])'
                        /\ rq'[s].pc = "reply" /\ rq'[s].reply = "replay" =>
                              rq'[s].op = "refresh"
  <1>1. ASSUME NEW s \in Requests, Alike(rq[s], rq'[s])
        PROVE  Good(s)
    <2>1. rq'[s].op = rq[s].op /\ (rq'[s].pc = "reply" => rq'[s] = rq[s])
      BY <1>1 DEF Alike
    <2>2. rq'[s].op = op => Covers(rq[s])' /\ Ended(rq[s])'
      BY <1>0, <1>1, <2>1, CoversKept, EndedKept DEF EInv
    <2> QED  BY <2>1, <2>2 DEF EInv
  <1>2. ASSUME NEW s \in Requests, rq'[s].pc \notin {"update", "reply"}
        PROVE  Good(s)
    BY <1>2 DEF Covers, Ended
  <1>3. ASSUME NEW r \in Requests, CommitMint(r)
        PROVE  Good(r)
    <2>1. rq'[r].pc = "reply" /\ rq'[r].reply = "ok"
      BY <1>0, <1>3 DEF CommitMint, TypeOK, Request
    <2>2. rq'[r].op \in {"login", "refresh"}
      BY <1>0, <1>3, MintRows
    <2> QED  BY <2>1, <2>2 DEF Covers, Ended
  <1>4. ASSUME NEW r \in Requests, CommitBulk(r)
        PROVE  Good(r)
    <2>1. /\ rq'[r].pc = "reply" /\ rq'[r].op = rq[r].op
          /\ rq'[r].reply = "replay" => rq[r].op = "refresh"
      BY <1>0, <1>4 DEF CommitBulk, TypeOK, Request
    <2>2. rq[r].op = op => Ended(rq[r])'
      BY <1>0, <1>4, StatementEnds DEF EInv
    <2> QED  BY <2>1, <2>2 DEF Covers
  <1>5. ASSUME NEW r \in Requests, CreateRefreshToken(r)
        PROVE  Good(r)
    <2>1. rq'[r].pc = "commit"
      BY <1>0, <1>5 DEF CreateRefreshToken, TypeOK, Request
    <2> QED  BY <1>2, <2>1
  <1>6. ASSUME NEW r \in Requests, NEW q, Step(r, q), Anew(rq[r], q) \/ Onward(rq[r], q)
        PROVE  Good(r)
    <2>1. CASE rq'[r].op = op
      <3>1. rq'[r] = q
        BY <1>0, <1>6 DEF Step, TypeOK
      <3>2. Onward(rq[r], q) => Covers(rq[r])
        BY <2>1, <3>1 DEF Onward, EInv
      <3> QED  BY <1>0, <1>6, <2>1, <3>1, <3>2, RecordEnds
    <2>2. CASE rq'[r].op # op
      <3>1. rq'[r] = q
        BY <1>0, <1>6 DEF Step, TypeOK
      <3>2. q.pc = "reply" => q.reply # "replay"
        BY <1>6 DEF Anew, Onward
      <3> QED  BY <2>2, <3>1, <3>2
    <2> QED  BY <2>1, <2>2
  <1>7. ASSUME NEW r \in Requests,
               CommitMint(r) \/ CommitBulk(r) \/ CreateRefreshToken(r)
                 \/ (\E q : Step(r, q) /\ (Anew(rq[r], q) \/ Onward(rq[r], q)))
        PROVE  \A s \in Requests : Good(s)
    <2>1. \A s \in Requests \ {r} : rq'[s] = rq[s]
      BY <1>0, <1>7 DEF CommitMint, CommitBulk, CreateRefreshToken, Step, TypeOK
    <2>2. Good(r)
      BY <1>3, <1>4, <1>5, <1>6, <1>7
    <2>3. \A s \in Requests \ {r} : Alike(rq[s], rq'[s])
      BY <2>1 DEF Alike
    <2> HIDE DEF Good
    <2> QED  BY <1>1, <2>2, <2>3
  <1>8. ASSUME \A s \in Requests : rq'[s] = Idle \/ Alike(rq[s], rq'[s])
        PROVE  \A s \in Requests : Good(s)
    <2>1. Idle.pc = "idle"
      BY DEF Idle
    <2> HIDE DEF Good
    <2> QED  BY <1>1, <1>2, <1>8, <2>1
  <1>9. \A s \in Requests : Good(s)
    <2> HIDE DEF Good
    <2> QED  BY <1>0, <1>7, <1>8, QuietMoves
  <1> QED  BY <1>0, <1>9 DEF EInv

LEMMA InitEInv ==
    ASSUME NEW op, Init
    PROVE  EInv(op)
  <1>1. \A r \in Requests : rq[r].pc = "idle"
    BY DEF Init, Idle
  <1> QED  BY <1>1, InitNInv DEF EInv, Covers, Ended

\* While no session is rotated in the very statement that invalidates it, the replay
\* answer means what it says: no token of the session is usable (_invalidate_family).
THEOREM ReplayEnds == Spec /\ []QuietReplay => []ReplayEndsSession
  <1>1. ASSUME EInv("refresh")
        PROVE  ReplayEndsSession
    <2> SUFFICES ASSUME NEW r \in Requests, rq[r].pc = "reply", rq[r].reply = "replay",
                        NEW t \in Stored, Live(t), table[t].family = rq[r].fam
                 PROVE  FALSE
      BY DEF ReplayEndsSession
    <2>1. rq[r].op = "refresh" /\ Ended(rq[r]) /\ table[t].family \in Tokens
      BY <1>1 DEF EInv, NInv, LInv, IInv, TypeOK
    <2>2. SessionDead(table[t].family)
      BY <2>1 DEF Ended, EndsFamily
    <2> QED  BY <2>2 DEF SessionDead, Live
  <1>2. ASSUME EInv("refresh"), QuietReplay, [Next]_vars
        PROVE  EInv("refresh")'
    <2>1. TypeOK
      BY <1>2 DEF EInv, NInv, LInv, IInv
    <2> QED  BY <1>2, <2>1, ReplayUndisturbed, NextEInv
  <1>3. Init => EInv("refresh")
    BY InitEInv
  <1> QED  BY <1>1, <1>2, <1>3, PTL DEF Spec

\* The same of a global logout once it is committed, whenever it was answered.
CommittedLogoutEnds ==
    \A r \in Requests :
        rq[r].op = "logout_all" /\ rq[r].pc = "reply" /\ rq[r].reply = "ok" =>
            \A t \in rq[r].cands, c \in Stored :
                t \in Stored /\ table[t].family = table[c].family => ~Live(c)

LEMMA CommittedLogout == Spec /\ []QuietLogout => []CommittedLogoutEnds
  <1>1. ASSUME EInv("logout_all")
        PROVE  CommittedLogoutEnds
    <2> SUFFICES ASSUME NEW r \in Requests,
                        rq[r].op = "logout_all", rq[r].pc = "reply", rq[r].reply = "ok",
                        NEW t \in rq[r].cands, NEW c \in Stored, t \in Stored,
                        table[t].family = table[c].family, Live(c)
                 PROVE  FALSE
      BY DEF CommittedLogoutEnds
    <2>1. Ended(rq[r]) /\ table[c].family \in Tokens
      BY <1>1 DEF EInv, NInv, LInv, IInv, TypeOK
    <2>2. SessionDead(table[c].family)
      BY <2>1 DEF Ended, EndsFamily
    <2> QED  BY <2>2 DEF SessionDead, Live
  <1>2. ASSUME EInv("logout_all"), QuietLogout, [Next]_vars
        PROVE  EInv("logout_all")'
    <2>1. NInv
      BY <1>2 DEF EInv
    <2> QED  BY <1>2, <2>1, LogoutUndisturbed, NextEInv
  <1>3. Init => EInv("logout_all")
    BY InitEInv
  <1> QED  BY <1>1, <1>2, <1>3, PTL DEF Spec

\* As long as answers follow commits, a request that has an answer has ended.
AnswersLast == \A r \in Requests : rq[r].reply # None => rq[r].pc = "reply"

LEMMA NextAnswersLast ==
    ASSUME ~ResponseFirst, IInv, AnswersLast, [Next]_vars
    PROVE  AnswersLast'
  <1>0. TypeOK
    BY DEF IInv
  <1>1. ASSUME NEW r \in Requests, NEW q, Step(r, q), Anew(rq[r], q) \/ Onward(rq[r], q)
        PROVE  AnswersLast'
    <2>1. rq'[r] = q /\ \A s \in Requests \ {r} : rq'[s] = rq[s]
      BY <1>0, <1>1 DEF Step, TypeOK
    <2>2. q.reply # None => q.pc = "reply"
      BY <1>1 DEF Anew, Onward, AnswersLast
    <2> QED  BY <2>1, <2>2 DEF AnswersLast
  <1>2. ASSUME NEW r \in Requests, CreateRefreshToken(r)
        PROVE  AnswersLast'
    <2>1. PICK t \in Tokens \ minted :
             rq' = [rq EXCEPT ![r] =
                       [@ EXCEPT !.pc = "commit", !.new = t, !.at = now,
                                 !.fam = IF rq[r].op = "login" THEN t ELSE rq[r].fam]]
      BY <1>2 DEF CreateRefreshToken
    <2> DEFINE fam == IF rq[r].op = "login" THEN t ELSE rq[r].fam
               q == [rq[r] EXCEPT !.pc = "commit", !.new = t, !.at = now, !.fam = fam]
    <2>2. rq[r].pc = "insert" /\ rq[r] \in Request
      BY <1>0, <1>2 DEF CreateRefreshToken, TypeOK
    <2>3. rq'[r] = q /\ \A s \in Requests \ {r} : rq'[s] = rq[s]
      BY <1>0, <2>1 DEF TypeOK
    <2> HIDE DEF fam
    <2>4. q.reply = rq[r].reply
      BY <2>2 DEF Request
    <2> HIDE DEF q
    <2> QED  BY <2>2, <2>3, <2>4 DEF AnswersLast
  <1>3. ASSUME NEW r \in Requests, CommitMint(r) \/ CommitBulk(r)
        PROVE  AnswersLast'
    <2>1. rq'[r].pc = "reply" /\ \A s \in Requests \ {r} : rq'[s] = rq[s]
      BY <1>3, MintRows, BulkRows
    <2> QED  BY <2>1 DEF AnswersLast
  <1>4. ASSUME \A s \in Requests : rq'[s] \in {rq[s], Idle}
        PROVE  AnswersLast'
    BY <1>4 DEF AnswersLast, Idle
  <1>5. ASSUME \/ \E r \in Requests : Respond(r)
               \/ Crash \/ Tick \/ UNCHANGED vars
        PROVE  \A s \in Requests : rq'[s] \in {rq[s], Idle}
    BY <1>0, <1>5 DEF TypeOK, Respond, Deliver, Crash, Tick, vars
  <1>6. CASE Next
    BY <1>0, <1>1, <1>2, <1>3, <1>4, <1>5, <1>6, NextCases, ArrivalMoves, HandlerMoves
       DEF RespondBeforeCommit
  <1> QED  BY <1>4, <1>5, <1>6

\* As long as answers follow commits, and while no token of the caller is rotated in the
\* very statement of its global logout, none of the sessions it was to end is usable once
\* it is answered (revoke_all_user_tokens, get_db).
THEOREM LogoutEnds ==
    ASSUME ~ResponseFirst
    PROVE  Spec /\ []QuietLogout => []GlobalLogoutEndsSessions
  <1>1. IInv /\ AnswersLast /\ [Next]_vars => AnswersLast'
    BY NextAnswersLast
  <1>2. Init => AnswersLast
    BY DEF Init, Idle, AnswersLast
  <1>3. AnswersLast /\ CommittedLogoutEnds => GlobalLogoutEndsSessions
    <2> SUFFICES ASSUME AnswersLast, CommittedLogoutEnds, NEW r \in Requests,
                        rq[r].op = "logout_all", rq[r].reply = "ok"
                 PROVE  \A t \in rq[r].cands, c \in Stored :
                            t \in Stored /\ table[t].family = table[c].family => ~Live(c)
      BY DEF GlobalLogoutEndsSessions
    <2>1. rq[r].pc = "reply"
      BY ConstantsAssumption DEF AnswersLast, Replies
    <2> QED  BY <2>1 DEF CommittedLogoutEnds
  <1> QED  BY <1>1, <1>2, <1>3, CommittedLogout, Invariance, PTL DEF Spec
=============================================================================
