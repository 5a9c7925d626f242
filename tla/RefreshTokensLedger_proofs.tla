--------------------- MODULE RefreshTokensLedger_proofs ---------------------
(* RefreshTokens implements the ledger of TokenLedger, and two properties  *)
(* that need more than its inductive invariant, for every value of the     *)
(* constants.                                                              *)
EXTENDS RefreshTokensLedger, RefreshTokens_proofs

-----------------------------------------------------------------------------
(* What a request that commits nothing does to its record                  *)

\* A slot takes up a request, or a request is over without a commit.
Anew(p, q) ==
    /\ q.new = None /\ q.fam = None
    /\ q.op \in {"login", "refresh"} => q.at = 0
    /\ q.pc \in {"idle", "insert", "select", "match", "reply"}
    /\ q.pc = "insert" => p.pc = "idle" /\ q.op = "login" /\ q.user \in Users /\ q.tok = None
    /\ q.pc = "match" => q.op # "refresh"
    /\ IF q.pc = "reply" THEN q.reply \in {"not_found", "expired", "error", "unprocessable"}
                         ELSE q.reply = None

\* The rows an invalidation or a global logout looks for.
MatchedBy(q, t) ==
    \/ q.op = "refresh" /\ table[t].family = q.fam
    \/ q.op = "logout_all" /\ table[t].user = q.user

\* One step on in a handler.
Onward(p, q) ==
    /\ q.op = p.op /\ q.tok = p.tok /\ q.new = p.new /\ q.at = p.at
    /\ q.reply = p.reply
    /\ \/ p.pc = "select" /\ q.pc = "expire"
       \/ /\ p.pc = "select" /\ q.pc = "match"
          /\ q.tok \in Stored /\ q.fam = table[q.tok].family
       \/ /\ p.pc = "select" /\ q.pc = "revoke"
          /\ q.tok \in Stored /\ ~table[q.tok].revoked /\ ~is_expired(q.tok)
          /\ q.fam = table[q.tok].family /\ q.user = table[q.tok].user
       \/ p.pc = "revoke" /\ q.pc = "insert" /\ q.fam = p.fam /\ q.user = p.user
       \/ p.pc = "expire" /\ q.pc = "rollback"
       \/ /\ p.pc = "match" /\ q.pc = "update" /\ q.fam = p.fam /\ q.user = p.user
          /\ \A t \in Stored : ~table[t].revoked /\ MatchedBy(q, t) => t \in q.cands
       \/ /\ p.pc = "update" /\ q.pc = "update" /\ q.fam = p.fam /\ q.user = p.user
          /\ q.cands = p.cands

LEMMA ArrivalMoves ==
    ASSUME TypeOK, NEW r \in Requests, Arrivals(r)
    PROVE  \E q : Step(r, q) /\ Anew(rq[r], q)
  <1>0. rq[r] \in Request
    BY DEF TypeOK
  <1>s. ASSUME NEW q, Arrive(r, q), q.new = None, q.fam = None,
               q.op \in {"login", "refresh"} => q.at = 0,
               q.pc # "reply" => q.reply = None,
               \/ q.pc = "insert" /\ q.op = "login" /\ q.user \in Users /\ q.tok = None
               \/ q.pc = "select"
               \/ q.pc = "reply" /\ q.reply = "unprocessable"
               \/ q.pc = "match" /\ q.op # "refresh"
        PROVE  \E p : Step(r, p) /\ Anew(rq[r], p)
    <2>1. Step(r, q) /\ Anew(rq[r], q)
      BY <1>s DEF Arrive, Step, Anew
    <2> QED  BY <2>1
  <1> USE DEF Idle
  <1>1. ASSUME NEW u \in Users, Login(r, u)
        PROVE  \E q : Step(r, q) /\ Anew(rq[r], q)
    <2> DEFINE q == [Idle EXCEPT !.op = "login", !.pc = "insert", !.user = u]
    <2>1. /\ q.new = None /\ q.fam = None /\ q.at = 0 /\ q.reply = None
          /\ q.pc = "insert" /\ q.op = "login" /\ q.user \in Users /\ q.tok = None
      OBVIOUS
    <2>2. Arrive(r, q)
      BY <1>1 DEF Login
    <2> HIDE DEF q
    <2> QED  BY <2>1, <2>2, <1>s
  <1>2. ASSUME NEW t \in Tokens, Refresh(r, t)
        PROVE  \E q : Step(r, q) /\ Anew(rq[r], q)
    <2> DEFINE q == [Idle EXCEPT !.op = "refresh", !.pc = "select", !.tok = t]
    <2>1. q.new = None /\ q.fam = None /\ q.at = 0 /\ q.reply = None /\ q.pc = "select"
      OBVIOUS
    <2>2. Arrive(r, q)
      BY <1>2 DEF Refresh
    <2> HIDE DEF q
    <2> QED  BY <2>1, <2>2, <1>s
  <1>3. ASSUME NEW u \in Users, NEW t \in Tokens, Logout(r, u, t)
        PROVE  \E q : Step(r, q) /\ Anew(rq[r], q)
    <2> DEFINE q == [Idle EXCEPT !.op = "logout", !.pc = "match", !.user = u,
                              !.tok = t, !.reason = "logout"]
    <2>1. q.new = None /\ q.fam = None /\ q.reply = None /\ q.pc = "match" /\ q.op = "logout"
      OBVIOUS
    <2>2. Arrive(r, q)
      BY <1>3 DEF Logout
    <2> HIDE DEF q
    <2> QED  BY <2>1, <2>2, <1>s
  <1>4. ASSUME NEW u \in Users, LogoutAll(r, u)
        PROVE  \E q : Step(r, q) /\ Anew(rq[r], q)
    <2> DEFINE q == [Idle EXCEPT !.op = "logout_all", !.pc = "match", !.user = u,
                              !.reason = "logout"]
    <2>1. q.new = None /\ q.fam = None /\ q.reply = None /\ q.pc = "match" /\ q.op = "logout_all"
      OBVIOUS
    <2>2. Arrive(r, q)
      BY <1>4 DEF LogoutAll
    <2> HIDE DEF q
    <2> QED  BY <2>1, <2>2, <1>s
  <1>5. ASSUME NEW u \in Users, LogoutOmitted(r, u)
        PROVE  \E q : Step(r, q) /\ Anew(rq[r], q)
    <2> DEFINE q == [Idle EXCEPT !.op = "logout_omitted", !.pc = "reply", !.user = u,
                              !.reply = "unprocessable"]
    <2>1. /\ q.new = None /\ q.fam = None /\ q.pc = "reply" /\ q.op = "logout_omitted"
          /\ q.reply = "unprocessable"
      OBVIOUS
    <2>2. Arrive(r, q)
      BY <1>5 DEF LogoutOmitted
    <2> HIDE DEF q
    <2> QED  BY <2>1, <2>2, <1>s
  <1>6. ASSUME Cleanup(r)
        PROVE  \E q : Step(r, q) /\ Anew(rq[r], q)
    <2> DEFINE q == [Idle EXCEPT !.op = "cleanup", !.pc = "match", !.at = now]
    <2>1. q.new = None /\ q.fam = None /\ q.reply = None /\ q.pc = "match" /\ q.op = "cleanup"
      OBVIOUS
    <2>2. Arrive(r, q)
      BY <1>6 DEF Cleanup
    <2> HIDE DEF q
    <2> QED  BY <2>1, <2>2, <1>s
  <1> HIDE DEF Idle
  <1> QED  BY <1>1, <1>2, <1>3, <1>4, <1>5, <1>6 DEF Arrivals

LEMMA HandlerMoves ==
    ASSUME TypeOK, NEW r \in Requests,
           \/ SelectMissing(r) \/ SelectRevoked(r) \/ SelectExpired(r) \/ SelectValid(r)
           \/ RevokeSingle(r) \/ RevokeVanished(r) \/ RollbackExpired(r)
           \/ Match(r) \/ Visit(r) \/ LoseResponse(r) \/ Fail(r) \/ DeadlockVictim(r)
    PROVE  \E q : Step(r, q) /\ (Anew(rq[r], q) \/ Onward(rq[r], q))
  <1>0. rq[r] \in Request
    BY DEF TypeOK
  <1>1. ASSUME \/ SelectMissing(r) \/ RollbackExpired(r) \/ RevokeVanished(r)
               \/ Fail(r) \/ DeadlockVictim(r) \/ LoseResponse(r)
        PROVE  \E q : Step(r, q) /\ Anew(rq[r], q)
    <2>1. \/ \E answer \in {"not_found", "expired"} : Step(r, Refused(rq[r], answer))
          \/ Step(r, Failed(rq[r]))
          \/ Step(r, Idle)
      BY <1>1 DEF SelectMissing, RollbackExpired, RevokeVanished, Fail, DeadlockVictim,
                  LoseResponse
    <2>2. /\ \A answer \in {"not_found", "expired"} : Anew(rq[r], Refused(rq[r], answer))
          /\ Anew(rq[r], Failed(rq[r])) /\ Anew(rq[r], Idle)
      BY DEF Refused, Failed, Idle, Anew
    <2> QED  BY <2>1, <2>2
  <1>2. ASSUME SelectRevoked(r)
        PROVE  \E q : Step(r, q) /\ Onward(rq[r], q)
    <2> DEFINE q == [rq[r] EXCEPT !.pc = "match", !.fam = table[rq[r].tok].family,
                                  !.reason = "replay_attack"]
    <2>1. /\ q.op = rq[r].op /\ q.tok = rq[r].tok /\ q.new = rq[r].new /\ q.at = rq[r].at
          /\ q.reply = rq[r].reply
          /\ q.pc = "match" /\ q.fam = table[rq[r].tok].family
      BY <1>0 DEF Request
    <2>2. Step(r, q) /\ rq[r].pc = "select" /\ rq[r].tok \in Stored
      BY <1>2 DEF SelectRevoked
    <2> HIDE DEF q
    <2> QED  BY <2>1, <2>2 DEF Onward
  <1>3. ASSUME SelectExpired(r)
        PROVE  \E q : Step(r, q) /\ Onward(rq[r], q)
    <2> DEFINE q == [rq[r] EXCEPT !.pc = "expire", !.reason = "expired"]
    <2>1. /\ q.op = rq[r].op /\ q.tok = rq[r].tok /\ q.new = rq[r].new /\ q.at = rq[r].at
          /\ q.reply = rq[r].reply
          /\ q.pc = "expire"
      BY <1>0 DEF Request
    <2>2. Step(r, q) /\ rq[r].pc = "select"
      BY <1>3 DEF SelectExpired
    <2> HIDE DEF q
    <2> QED  BY <2>1, <2>2 DEF Onward
  <1>4. ASSUME SelectValid(r)
        PROVE  \E q : Step(r, q) /\ Onward(rq[r], q)
    <2> DEFINE q == [rq[r] EXCEPT !.pc = "revoke", !.fam = table[rq[r].tok].family,
                                  !.user = table[rq[r].tok].user, !.reason = "rotated"]
    <2>1. /\ q.op = rq[r].op /\ q.tok = rq[r].tok /\ q.new = rq[r].new /\ q.at = rq[r].at
          /\ q.reply = rq[r].reply
          /\ q.pc = "revoke" /\ q.fam = table[rq[r].tok].family
          /\ q.user = table[rq[r].tok].user
      BY <1>0 DEF Request
    <2>2. /\ Step(r, q) /\ rq[r].pc = "select" /\ rq[r].tok \in Stored
          /\ ~table[rq[r].tok].revoked /\ ~is_expired(rq[r].tok)
      BY <1>4 DEF SelectValid
    <2> HIDE DEF q
    <2> QED  BY <2>1, <2>2 DEF Onward
  <1>5. ASSUME RevokeSingle(r)
        PROVE  \E q : Step(r, q) /\ Onward(rq[r], q)
    <2> DEFINE pc == IF rq[r].pc = "revoke" THEN "insert" ELSE "rollback"
               q  == [rq[r] EXCEPT !.pc = pc, !.hit = {rq[r].tok}]
    <2>1. /\ Step(r, q)
          /\ \/ rq[r].pc = "revoke" /\ pc = "insert"
             \/ rq[r].pc = "expire" /\ pc = "rollback"
      BY <1>5 DEF RevokeSingle
    <2> HIDE DEF pc
    <2>2. /\ q.op = rq[r].op /\ q.tok = rq[r].tok /\ q.new = rq[r].new /\ q.at = rq[r].at
          /\ q.reply = rq[r].reply
          /\ q.pc = pc /\ q.fam = rq[r].fam /\ q.user = rq[r].user
      BY <1>0 DEF Request
    <2> HIDE DEF q
    <2> QED  BY <2>1, <2>2 DEF Onward
  <1>6. ASSUME Match(r)
        PROVE  \E q : Step(r, q) /\ Onward(rq[r], q)
    <2> DEFINE matched == {t \in Stored : Where(r, t)}
               q == [rq[r] EXCEPT !.pc = "update", !.cands = matched, !.todo = matched]
    <2>1. Step(r, q) /\ rq[r].pc = "match"
      BY <1>6 DEF Match
    <2>3. \A t \in Stored : ~table[t].revoked /\ MatchedBy(rq[r], t) => t \in matched
      BY DEF MatchedBy, Where
    <2> HIDE DEF matched
    <2>2. /\ q.op = rq[r].op /\ q.tok = rq[r].tok /\ q.new = rq[r].new /\ q.at = rq[r].at
          /\ q.reply = rq[r].reply
          /\ q.pc = "update" /\ q.fam = rq[r].fam /\ q.user = rq[r].user
          /\ q.cands = matched
      BY <1>0 DEF Request
    <2> HIDE DEF q
    <2>4. \A t \in Stored : ~table[t].revoked /\ MatchedBy(q, t) => t \in q.cands
      BY <2>2, <2>3 DEF MatchedBy
    <2> QED  BY <2>1, <2>2, <2>4 DEF Onward
  <1>7. ASSUME Visit(r)
        PROVE  \E q : Step(r, q) /\ Onward(rq[r], q)
    <2> PICK t \in rq[r].todo :
            Step(r, [rq[r] EXCEPT !.todo = @ \ {t},
                                  !.hit  = IF Where(r, t) THEN @ \cup {t} ELSE @])
      BY <1>7 DEF Visit
    <2> DEFINE hit == IF Where(r, t) THEN rq[r].hit \cup {t} ELSE rq[r].hit
               q == [rq[r] EXCEPT !.todo = rq[r].todo \ {t}, !.hit = hit]
    <2>1. Step(r, q) /\ rq[r].pc = "update"
      BY <1>0, <1>7 DEF Request, Visit
    <2> HIDE DEF hit
    <2>2. /\ q.op = rq[r].op /\ q.tok = rq[r].tok /\ q.new = rq[r].new /\ q.at = rq[r].at
          /\ q.reply = rq[r].reply
          /\ q.pc = "update" /\ q.fam = rq[r].fam /\ q.user = rq[r].user
          /\ q.cands = rq[r].cands
      BY <1>0, <2>1 DEF Request
    <2> HIDE DEF q
    <2> QED  BY <2>1, <2>2 DEF Onward
  <1> QED  BY <1>1, <1>2, <1>3, <1>4, <1>5, <1>6, <1>7

-----------------------------------------------------------------------------
(***************************************************************************)
(* What the ledger needs to know beyond IInv: a request has no token and   *)
(* no time of one before it draws it; a replay knows the family of the row *)
(* it presented as long as that is there; a token in a reply lasts for its *)
(* whole lifetime.                                                         *)
(***************************************************************************)

Fresh(q) ==
    /\ q.pc \notin {"commit", "reply"} => q.new = None
    /\ q.op \in {"login", "refresh"} /\ q.pc \notin {"commit", "reply"} => q.at = 0
    /\ q.op = "login" /\ q.pc = "insert" => q.fam = None

\* A statement that invalidates the family of the token presented.
Invalidating(q) == q.op = "refresh" /\ q.pc \in {"match", "update"}

Presented(q) == Invalidating(q) /\ q.tok \in Stored => table[q.tok].family = q.fam

\* t is stored with the expiry e until e is over.
Lasts(t, e) == IF t \in Stored THEN table[t].expires = e ELSE now > e

Received(q) == q.pc = "reply" /\ q.new # None => Lasts(q.new, q.at + RefreshTTL)

\* The token presented by a replay, and any in a reply, is older than one that is about
\* to be entered.
Older(p, q) ==
    q.pc = "commit" => /\ Invalidating(p) => p.tok # q.new
                       /\ p.pc = "reply" => p.new # q.new

LInv ==
    /\ IInv
    /\ \A r \in Requests : Fresh(rq[r]) /\ Presented(rq[r]) /\ Received(rq[r])
    /\ \A r, s \in Requests : r # s => Older(rq[r], rq[s])

\* A step that changes one record and no row keeps LInv if the record keeps its part.
LEMMA RecordKeeps ==
    ASSUME LInv, IInv', NEW r \in Requests, NEW q,
           rq' = [rq EXCEPT ![r] = q], UNCHANGED <<table, now>>,
           Fresh(q), Presented(q), Received(q),
           \A s \in Requests \ {r} : Older(q, rq[s]) /\ Older(rq[s], q)
    PROVE  LInv'
  <1>1. rq'[r] = q /\ \A s \in Requests \ {r} : rq'[s] = rq[s]
    BY DEF LInv, IInv, TypeOK
  <1>2. \A s \in Requests : Fresh(rq'[s]) /\ Presented(rq'[s]) /\ Received(rq'[s])
    BY <1>1 DEF LInv
  <1>3. \A s, u \in Requests : s # u => Older(rq'[s], rq'[u])
    BY <1>1 DEF LInv
  <1>4. \A s \in Requests : Fresh(rq[s])' /\ Presented(rq[s])' /\ Received(rq[s])'
    BY <1>2 DEF Fresh, Presented, Invalidating, Received, Lasts, Stored
  <1>5. \A s, u \in Requests : s # u => Older(rq[s], rq[u])'
    BY <1>3 DEF Older, Invalidating
  <1> QED  BY <1>4, <1>5 DEF LInv

LEMMA AnewKeeps ==
    ASSUME LInv, IInv', NEW r \in Requests, NEW q, Step(r, q), Anew(rq[r], q)
    PROVE  LInv'
  <1>1. Fresh(q) /\ Presented(q) /\ Received(q)
    BY DEF Anew, Fresh, Presented, Invalidating, Received
  <1>2. ASSUME NEW s \in Requests \ {r}
        PROVE  Older(q, rq[s]) /\ Older(rq[s], q)
    <2>1. rq[s].pc = "commit" => rq[s].new # None
      BY ConstantsAssumption DEF LInv, IInv, TypeOK, WellFormed
    <2> QED  BY <2>1 DEF Anew, Older, Invalidating
  <1> QED  BY <1>1, <1>2, RecordKeeps DEF Step

LEMMA OnwardKeeps ==
    ASSUME LInv, IInv', NEW r \in Requests, NEW q, Step(r, q), Onward(rq[r], q)
    PROVE  LInv'
  <1>0. /\ WellFormed(rq[r]) /\ Fresh(rq[r]) /\ Presented(rq[r])
        /\ \A s \in Requests : Sound(rq[s])
        /\ \A s \in Requests \ {r} : Older(rq[r], rq[s])
    BY DEF LInv, IInv, TypeOK
  <1>1. Fresh(q)
    BY <1>0 DEF Onward, Fresh, WellFormed
  <1>2. Presented(q) /\ Received(q)
    BY <1>0 DEF Onward, Presented, Invalidating, Received
  <1>3. \A s \in Requests \ {r} : Older(q, rq[s]) /\ Older(rq[s], q)
    BY <1>0 DEF Onward, Older, Invalidating, Sound
  <1> QED  BY <1>1, <1>2, <1>3, RecordKeeps DEF Step

\* A token that is drawn now is none that a replay has presented or a reply holds.
LEMMA CreateKeeps ==
    ASSUME LInv, IInv', NEW r \in Requests, CreateRefreshToken(r)
    PROVE  LInv'
  <1>0. rq[r] \in Request /\ TypeOK /\ UNCHANGED <<table, now>>
    BY DEF LInv, IInv, TypeOK, CreateRefreshToken
  <1> PICK t \in Tokens \ minted :
          rq' = [rq EXCEPT ![r] =
                    [@ EXCEPT !.pc = "commit", !.new = t, !.at = now,
                              !.fam = IF rq[r].op = "login" THEN t ELSE rq[r].fam]]
    BY DEF CreateRefreshToken
  <1> DEFINE fam == IF rq[r].op = "login" THEN t ELSE rq[r].fam
             q   == [rq[r] EXCEPT !.pc = "commit", !.new = t, !.at = now, !.fam = fam]
  <1>1. rq' = [rq EXCEPT ![r] = q]
    BY <1>0 DEF TypeOK
  <1> HIDE DEF fam
  <1>2. q.pc = "commit" /\ q.new = t
    BY <1>0 DEF Request
  <1> HIDE DEF q
  <1>3. Fresh(q) /\ Presented(q) /\ Received(q)
    BY <1>2 DEF Fresh, Presented, Invalidating, Received
  <1>4. ASSUME NEW s \in Requests \ {r}
        PROVE  Older(q, rq[s]) /\ Older(rq[s], q)
    <2>1. /\ Invalidating(rq[s]) => rq[s].tok \in minted
          /\ rq[s].new \in minted \cup {None}
      BY <1>0, ConstantsAssumption DEF TypeOK, WellFormed, Invalidating
    <2> QED  BY <1>2, <2>1, ConstantsAssumption DEF Older, Invalidating
  <1> QED  BY <1>0, <1>1, <1>3, <1>4, RecordKeeps

-----------------------------------------------------------------------------
(* The commits                                                               *)

\* The rows after the commit of a login or a rotation.
LEMMA MintRows ==
    ASSUME IInv, NEW r \in Requests, CommitMint(r)
    PROVE  /\ rq[r].new \notin Stored /\ rq[r].new # None
           /\ Stored' = Stored \cup {rq[r].new}
           /\ table'[rq[r].new] = NewRow(r)
           /\ \A t \in Stored : table'[t] = Written(r, t)
           /\ \/ rq[r].op = "login" /\ rq[r].hit = {} /\ rq[r].tok = None
              \/ /\ rq[r].op = "refresh" /\ Rotating(rq[r])
                 /\ rq[r].hit = {rq[r].tok} /\ rq[r].tok \in Stored
           /\ rq'[r].pc = "reply" /\ rq'[r].new = rq[r].new /\ rq'[r].op = rq[r].op
           /\ rq'[r].at = rq[r].at
           /\ \A s \in Requests \ {r} : rq'[s] = rq[s]
           /\ minted' = minted /\ now' = now
  <1>1. /\ rq \in [Requests -> Request] /\ rq[r] \in Request /\ WellFormed(rq[r])
        /\ Sound(rq[r]) /\ rq[r].pc = "commit" /\ None \notin Tokens
    BY ConstantsAssumption DEF IInv, TypeOK, CommitMint
  <1>2. rq[r].new \notin Stored /\ rq[r].new # None
    BY <1>1 DEF Sound, WellFormed
  <1>3. /\ Stored' = Stored \cup {rq[r].new} /\ table'[rq[r].new] = NewRow(r)
        /\ \A t \in Stored : table'[t] = Written(r, t)
    BY <1>2 DEF CommitMint, Stored
  <1>4. \/ rq[r].op = "login" /\ rq[r].hit = {} /\ rq[r].tok = None
        \/ /\ rq[r].op = "refresh" /\ Rotating(rq[r])
           /\ rq[r].hit = {rq[r].tok} /\ rq[r].tok \in Stored
    BY <1>1 DEF WellFormed, Sound, Rotating
  <1>5. /\ rq'[r].pc = "reply" /\ rq'[r].new = rq[r].new /\ rq'[r].op = rq[r].op
        /\ rq'[r].at = rq[r].at
        /\ \A s \in Requests \ {r} : rq'[s] = rq[s]
    BY <1>1 DEF CommitMint, Request
  <1> QED  BY <1>2, <1>3, <1>4, <1>5 DEF CommitMint

\* The rows after a bulk statement.
LEMMA BulkRows ==
    ASSUME IInv, NEW r \in Requests, CommitBulk(r)
    PROVE  /\ rq[r].pc = "update" /\ rq[r].hit \subseteq Stored
           /\ \/ /\ rq[r].op = "cleanup" /\ Stored' = Stored \ rq[r].hit
                 /\ table' = [t \in Stored \ rq[r].hit |-> table[t]]
                 /\ \A t \in rq[r].hit : table[t].expires < rq[r].at
                 /\ rq[r].at <= now
              \/ /\ rq[r].op \in {"refresh", "logout", "logout_all"} /\ Stored' = Stored
                 /\ table' = [t \in Stored |-> Written(r, t)]
                 /\ \A t \in rq[r].hit : Target(rq[r], t)
           /\ rq'[r].pc = "reply" /\ rq'[r].new = rq[r].new /\ rq'[r].op = rq[r].op
           /\ \A s \in Requests \ {r} : rq'[s] = rq[s]
           /\ minted' = minted /\ now' = now
  <1>1. /\ rq \in [Requests -> Request] /\ rq[r] \in Request /\ Sound(rq[r])
        /\ rq[r].pc = "update"
    BY DEF IInv, TypeOK, CommitBulk
  <1>2. CASE rq[r].op = "cleanup"
    BY <1>1, <1>2 DEF CommitBulk, Sound, Stored, Request
  <1>3. CASE rq[r].op # "cleanup"
    BY <1>1, <1>3 DEF CommitBulk, Sound, Stored, Request
  <1> QED  BY <1>2, <1>3

\* A commit changes the expiry of no row, and no row leaves before it has expired.
LEMMA MintLasts ==
    ASSUME IInv, NEW r \in Requests, CommitMint(r),
           NEW t, NEW e, t # rq[r].new, Lasts(t, e)
    PROVE  IF t \in Stored' THEN table'[t].expires = e ELSE now' > e
  <1>1. t \in Stored' <=> t \in Stored
    BY MintRows
  <1>2. t \in Stored => table'[t].expires = table[t].expires
    BY MintRows, WrittenRow DEF IInv
  <1> QED  BY <1>1, <1>2, MintRows DEF Lasts

LEMMA BulkLasts ==
    ASSUME IInv, NEW r \in Requests, CommitBulk(r), NEW t, NEW e, Lasts(t, e)
    PROVE  IF t \in Stored' THEN table'[t].expires = e ELSE now' > e
  <1>0. TypeOK /\ rq[r].at \in Nat /\ now \in Nat /\ now' = now
    BY BulkRows DEF IInv, TypeOK, Request
  <1>1. CASE rq[r].op = "cleanup"
    <2>1. /\ Stored' = Stored \ rq[r].hit
          /\ table' = [u \in Stored \ rq[r].hit |-> table[u]]
          /\ \A u \in rq[r].hit : table[u].expires < rq[r].at
          /\ rq[r].at <= now /\ rq[r].hit \subseteq Stored
      BY <1>1, BulkRows
    <2>2. t \in Stored => table[t].expires \in Nat
      BY <1>0 DEF TypeOK, Row, Stored
    <2> QED  BY <1>0, <2>1, <2>2 DEF Lasts
  <1>2. CASE rq[r].op # "cleanup"
    <2>1. Stored' = Stored /\ table' = [u \in Stored |-> Written(r, u)]
      BY <1>2, BulkRows
    <2>2. t \in Stored => table'[t] = Written(r, t)
      BY <2>1
    <2>3. t \in Stored => table'[t].expires = table[t].expires
      BY <1>0, <2>2, WrittenRow
    <2> QED  BY <1>0, <2>1, <2>3 DEF Lasts
  <1> QED  BY <1>1, <1>2

LEMMA CommitMintKeeps ==
    ASSUME LInv, IInv', NEW r \in Requests, CommitMint(r)
    PROVE  LInv'
  <1>0. /\ IInv /\ TypeOK /\ rq[r].pc = "commit"
    BY DEF LInv, IInv, TypeOK, CommitMint
  <1>1. \A t \in Stored : table'[t].family = table[t].family
    BY <1>0, MintRows, WrittenRow
  <1>3. ASSUME NEW s \in Requests
        PROVE  Fresh(rq[s])' /\ Presented(rq[s])' /\ Received(rq[s])'
    <2>1. CASE s = r
      <3>1. Fresh(rq[s])' /\ Presented(rq[s])'
        BY <1>0, <2>1, MintRows DEF Fresh, Presented, Invalidating
      <3>2. /\ rq[r].new \in Stored' /\ table'[rq[r].new].expires = rq[r].at + RefreshTTL
            /\ rq'[r].new = rq[r].new /\ rq'[r].at = rq[r].at
        BY <1>0, MintRows, NewRowType
      <3>3. Received(rq[s])'
        BY <2>1, <3>2 DEF Received, Lasts
      <3> QED  BY <3>1, <3>3
    <2>2. CASE s # r
      <3>1. /\ rq'[s] = rq[s] /\ Fresh(rq[s]) /\ Presented(rq[s]) /\ Received(rq[s])
            /\ Older(rq[s], rq[r])
        BY <1>0, <2>2, MintRows DEF LInv
      <3>2. Fresh(rq[s])'
        BY <1>0, <3>1 DEF Fresh
      <3>3. Presented(rq[s])'
        BY <1>0, <1>1, <3>1, MintRows DEF Presented, Invalidating, Older
      <3>4. Received(rq[s])'
        <4>1. rq[s].pc = "reply" => rq[s].new # rq[r].new
          BY <1>0, <3>1 DEF Older
        <4>2. rq[s].pc = "reply" /\ rq[s].new # None =>
                IF rq[s].new \in Stored' THEN table'[rq[s].new].expires = rq[s].at + RefreshTTL
                                         ELSE now' > rq[s].at + RefreshTTL
          BY <1>0, <3>1, <4>1, MintLasts DEF Received
        <4> QED  BY <3>1, <4>2 DEF Received, Lasts
      <3> QED  BY <3>2, <3>3, <3>4
    <2> QED  BY <2>1, <2>2
  <1>4. ASSUME NEW s \in Requests, NEW u \in Requests, s # u
        PROVE  Older(rq[s], rq[u])'
    <2>1. /\ Older(rq[s], rq[u]) /\ rq'[r].pc = "reply" /\ rq'[r].new = rq[r].new
          /\ s # r => rq'[s] = rq[s]
          /\ u # r => rq'[u] = rq[u]
          /\ s = r => Apart(rq[s], rq[u])
      BY <1>0, <1>4, MintRows DEF LInv, IInv
    <2> QED  BY <1>0, <2>1 DEF Older, Invalidating, Apart
  <1> QED  BY <1>3, <1>4 DEF LInv

LEMMA CommitBulkKeeps ==
    ASSUME LInv, IInv', NEW r \in Requests, CommitBulk(r)
    PROVE  LInv'
  <1>0. IInv /\ TypeOK /\ Fresh(rq[r])
    BY DEF LInv, IInv
  <1>1. /\ Stored' \subseteq Stored
        /\ \A t \in Stored' : table'[t].family = table[t].family
    <2>1. CASE rq[r].op = "cleanup"
      BY <1>0, <2>1, BulkRows
    <2>2. CASE rq[r].op # "cleanup"
      <3>1. Stored' = Stored /\ table' = [t \in Stored |-> Written(r, t)]
        BY <1>0, <2>2, BulkRows
      <3>2. \A t \in Stored : table'[t] = Written(r, t)
        BY <3>1
      <3> QED  BY <1>0, <3>1, <3>2, WrittenRow
    <2> QED  BY <2>1, <2>2
  <1>2. rq'[r].pc = "reply" /\ rq'[r].new = None
    BY <1>0, BulkRows DEF Fresh
  <1>3. ASSUME NEW s \in Requests
        PROVE  Fresh(rq[s])' /\ Presented(rq[s])' /\ Received(rq[s])'
    <2>1. CASE s = r
      BY <1>2, <2>1 DEF Fresh, Presented, Invalidating, Received
    <2>2. CASE s # r
      <3>1. /\ rq'[s] = rq[s] /\ Fresh(rq[s]) /\ Presented(rq[s]) /\ Received(rq[s])
        BY <1>0, <2>2, BulkRows DEF LInv
      <3>2. Fresh(rq[s])' /\ Presented(rq[s])'
        BY <1>1, <3>1 DEF Fresh, Presented, Invalidating
      <3>3. rq[s].pc = "reply" /\ rq[s].new # None =>
              IF rq[s].new \in Stored' THEN table'[rq[s].new].expires = rq[s].at + RefreshTTL
                                       ELSE now' > rq[s].at + RefreshTTL
        BY <1>0, <3>1, BulkLasts DEF Received
      <3>4. Received(rq[s])'
        BY <3>1, <3>3 DEF Received, Lasts
      <3> QED  BY <3>2, <3>4
    <2> QED  BY <2>1, <2>2
  <1>4. ASSUME NEW s \in Requests, NEW u \in Requests, s # u
        PROVE  Older(rq[s], rq[u])'
    <2>1. /\ Older(rq[s], rq[u])
          /\ (s # r => rq'[s] = rq[s]) /\ (u # r => rq'[u] = rq[u])
      BY <1>0, <1>4, BulkRows DEF LInv
    <2>2. rq[u].pc = "commit" => rq[u].new # None
      BY <1>0, ConstantsAssumption DEF TypeOK, WellFormed
    <2> QED  BY <1>2, <2>1, <2>2 DEF Older, Invalidating
  <1> QED  BY <1>3, <1>4 DEF LInv

-----------------------------------------------------------------------------
(* Every step                                                                *)

LEMMA RespondKeeps ==
    ASSUME LInv, IInv', NEW r \in Requests, Respond(r)
    PROVE  LInv'
  <1>1. rq' = [rq EXCEPT ![r] = Idle] /\ UNCHANGED <<table, now>>
    BY DEF Respond, Deliver
  <1>2. Fresh(Idle) /\ Presented(Idle) /\ Received(Idle)
    BY DEF Idle, Fresh, Presented, Invalidating, Received
  <1>3. \A s \in Requests : Older(Idle, rq[s]) /\ Older(rq[s], Idle)
    BY DEF Idle, Older, Invalidating
  <1> QED  BY <1>1, <1>2, <1>3, RecordKeeps

LEMMA AnsweredKeeps ==
    ASSUME LInv, IInv', NEW r \in Requests, RespondBeforeCommit(r)
    PROVE  LInv'
  <1> DEFINE q == rq'[r]
  <1>0. /\ TypeOK /\ Fresh(rq[r]) /\ Presented(rq[r])
        /\ \A s \in Requests \ {r} : Older(rq[r], rq[s]) /\ Older(rq[s], rq[r])
    BY DEF LInv, IInv
  <1>1. rq' = [rq EXCEPT ![r] = q] /\ UNCHANGED <<table, now>>
    BY <1>0, Answered
  <1>2. Fresh(q) /\ Presented(q) /\ Received(q)
    BY <1>0, Answered DEF Fresh, Presented, Invalidating, Received
  <1>3. \A s \in Requests \ {r} : Older(q, rq[s]) /\ Older(rq[s], q)
    BY <1>0, Answered DEF Older, Invalidating
  <1> HIDE DEF q
  <1> QED  BY <1>1, <1>2, <1>3, RecordKeeps

LEMMA CrashKeeps ==
    ASSUME LInv, IInv', Crash
    PROVE  LInv'
  <1>1. UNCHANGED <<table, now>> /\ \A s \in Requests : rq'[s] = Idle
    BY DEF Crash
  <1>3. \A s \in Requests : Fresh(rq[s])' /\ Presented(rq[s])' /\ Received(rq[s])'
    BY <1>1 DEF Idle, Fresh, Presented, Invalidating, Received
  <1>4. \A s, u \in Requests : Older(rq[s], rq[u])'
    BY <1>1 DEF Idle, Older, Invalidating
  <1> QED  BY <1>3, <1>4 DEF LInv

\* The clock, nothing at all.
LEMMA OtherKeeps ==
    ASSUME LInv, IInv', UNCHANGED <<table, rq>>, now' = now \/ now' = now + 1
    PROVE  LInv'
  <1>1. now \in Nat /\ RefreshTTL \in Nat
    BY ConstantsAssumption DEF LInv, IInv, TypeOK
  <1>3. ASSUME NEW s \in Requests
        PROVE  Fresh(rq[s])' /\ Presented(rq[s])' /\ Received(rq[s])'
    <2>1. Fresh(rq[s]) /\ Presented(rq[s]) /\ Received(rq[s]) /\ rq[s].at \in Nat
      BY DEF LInv, IInv, TypeOK, Request
    <2>2. now > rq[s].at + RefreshTTL => now' > rq[s].at + RefreshTTL
      BY <1>1, <2>1
    <2> QED  BY <2>1, <2>2 DEF Fresh, Presented, Invalidating, Received, Lasts, Stored
  <1>4. \A s, u \in Requests : s # u => Older(rq[s], rq[u])'
    BY DEF LInv, Older, Invalidating
  <1> QED  BY <1>3, <1>4 DEF LInv

LEMMA InitLInv == Init => LInv
  <1> SUFFICES ASSUME Init PROVE LInv
    OBVIOUS
  <1>1. Stored = {} /\ \A r \in Requests : rq[r] = Idle
    BY DEF Init, Stored
  <1>2. \A r \in Requests : Fresh(rq[r]) /\ Presented(rq[r]) /\ Received(rq[r])
    BY <1>1 DEF Idle, Fresh, Presented, Invalidating, Received
  <1>3. \A r, s \in Requests : Older(rq[r], rq[s])
    BY <1>1 DEF Idle, Older, Invalidating
  <1> QED  BY <1>1, <1>2, <1>3, InitSound DEF LInv

LEMMA NextLInv ==
    ASSUME LInv, [Next]_vars
    PROVE  LInv'
  <1>0. IInv /\ IInv' /\ TypeOK
    BY NextSound DEF LInv, IInv
  <1>1. ASSUME NEW r \in Requests, Arrivals(r)
        PROVE  LInv'
    BY <1>0, <1>1, ArrivalMoves, AnewKeeps
  <1>2. ASSUME NEW r \in Requests,
               \/ SelectMissing(r) \/ SelectRevoked(r) \/ SelectExpired(r) \/ SelectValid(r)
               \/ RevokeSingle(r) \/ RevokeVanished(r) \/ RollbackExpired(r)
               \/ Match(r) \/ Visit(r) \/ LoseResponse(r) \/ Fail(r) \/ DeadlockVictim(r)
        PROVE  LInv'
    BY <1>0, <1>2, HandlerMoves, AnewKeeps, OnwardKeeps
  <1>3. ASSUME Tick \/ UNCHANGED vars
        PROVE  LInv'
    BY <1>0, <1>3, OtherKeeps DEF Tick, vars
  <1>4. CASE Next
    BY <1>0, <1>1, <1>2, <1>3, <1>4, NextCases, CreateKeeps, CommitMintKeeps,
       CommitBulkKeeps, RespondKeeps, AnsweredKeeps, CrashKeeps
  <1> QED  BY <1>3, <1>4

-----------------------------------------------------------------------------
(* What a commit may revoke, and what it may take away                       *)

Revokes == {t \in Stored \cap Stored' : ~table[t].revoked /\ table'[t].revoked}

LEMMA MintReach ==
    ASSUME LInv, NEW r \in Requests, CommitMint(r)
    PROVE  Revokes \subseteq Reach(r)
  <1> SUFFICES ASSUME NEW t \in Revokes
               PROVE  t \in Reach(r)
    OBVIOUS
  <1>1. IInv /\ TypeOK /\ t \in Stored /\ ~table[t].revoked /\ table'[t].revoked
    BY DEF LInv, IInv, Revokes
  <1>2. t \in rq[r].hit
    BY <1>1, MintRows, WrittenRow
  <1>3. rq[r].op = "refresh" /\ t = rq[r].tok
    BY <1>1, <1>2, MintRows
  <1> QED  BY <1>1, <1>3 DEF Reach

LEMMA BulkReach ==
    ASSUME LInv, NEW r \in Requests, CommitBulk(r)
    PROVE  Revokes \subseteq Reach(r)
  <1> SUFFICES ASSUME NEW t \in Revokes
               PROVE  t \in Reach(r)
    OBVIOUS
  <1>1. /\ IInv /\ TypeOK /\ t \in Stored /\ t \in Stored'
        /\ ~table[t].revoked /\ table'[t].revoked
    BY DEF LInv, IInv, Revokes
  <1>2. rq[r].op # "cleanup"
    BY <1>1, BulkRows
  <1>3. /\ rq[r].op \in {"refresh", "logout", "logout_all"} /\ rq[r].pc = "update"
        /\ table'[t] = Written(r, t)
        /\ \A u \in rq[r].hit : Target(rq[r], u)
    BY <1>1, <1>2, BulkRows
  <1>4. Target(rq[r], t)
    BY <1>1, <1>3, WrittenRow
  <1>5. Presented(rq[r])
    BY DEF LInv
  <1> QED  BY <1>1, <1>3, <1>4, <1>5 DEF Target, Presented, Invalidating, Reach

\* Every other step leaves the rows alone.
LEMMA OtherSteps ==
    ASSUME Next
    PROVE  (\E r \in Requests : CommitMint(r) \/ CommitBulk(r)) \/ UNCHANGED table
  <1>1. ASSUME NEW r \in Requests, Arrivals(r)
        PROVE  UNCHANGED table
    BY <1>1 DEF Arrivals, Arrive, Login, Refresh, Logout, LogoutAll, LogoutOmitted, Cleanup
  <1>2. ASSUME NEW r \in Requests,
               \/ SelectMissing(r) \/ SelectRevoked(r) \/ SelectExpired(r) \/ SelectValid(r)
               \/ RevokeSingle(r) \/ RevokeVanished(r) \/ RollbackExpired(r)
               \/ Match(r) \/ Visit(r) \/ LoseResponse(r) \/ Fail(r) \/ DeadlockVictim(r)
        PROVE  UNCHANGED table
    BY <1>2 DEF Step, SelectMissing, SelectRevoked, SelectExpired, SelectValid, RevokeSingle,
       RevokeVanished, RollbackExpired, Match, Visit, LoseResponse, Fail, DeadlockVictim
  <1>3. ASSUME NEW r \in Requests,
               CreateRefreshToken(r) \/ Respond(r) \/ RespondBeforeCommit(r)
        PROVE  UNCHANGED table
    BY <1>3 DEF CreateRefreshToken, Respond, RespondBeforeCommit, Deliver
  <1>4. ASSUME Crash \/ Tick
        PROVE  UNCHANGED table
    BY <1>4 DEF Crash, Tick
  <1> QED  BY <1>1, <1>2, <1>3, <1>4, NextCases

\* A commit revokes rows of one session, the presented token's, or of one user, the
\* caller; no other step revokes anything (rotate_refresh_token, logout).
THEOREM BlastRadiusHolds == Spec => BlastRadius
  <1> DEFINE Bounded == \E r \in Requests \cup {None} :
                           Revokes \subseteq IF r \in Requests THEN Reach(r) ELSE {}
  <1>1. ASSUME LInv, Next
        PROVE  Bounded
    <2>1. CASE UNCHANGED table
      <3>1. Revokes = {}
        BY <2>1 DEF Revokes
      <3> QED  BY <3>1
    <2>2. CASE \E r \in Requests : CommitMint(r) \/ CommitBulk(r)
      BY <1>1, <2>2, MintReach, BulkReach
    <2> QED  BY <1>1, <2>1, <2>2, OtherSteps
  <1>2. LInv /\ [Next]_vars => [Bounded]_vars
    BY <1>1
  <1>3. Spec => [][Bounded]_vars
    BY <1>2, InitLInv, NextLInv, PTL DEF Spec
  <1> QED  BY <1>3 DEF BlastRadius, Revokes

\* As long as answers follow commits, no client holds a token that is still to be entered.
Unsent == \A r \in Requests : rq[r].pc = "commit" => rq[r].new \notin Delivered

Durable == DeliveredIsDurable /\ Unsent

LEMMA DurableStays ==
    ASSUME LInv, Durable, UNCHANGED <<table, delivered, now>>, NEW r \in Requests,
           NEW q, rq' = [rq EXCEPT ![r] = q], q.pc = "commit" => q.new \notin Delivered
    PROVE  Durable'
  <1>1. rq'[r] = q /\ \A s \in Requests \ {r} : rq'[s] = rq[s]
    BY DEF LInv, IInv, TypeOK
  <1>2. Unsent'
    BY <1>1 DEF Durable, Unsent, Delivered
  <1>3. DeliveredIsDurable'
    BY DEF Durable, DeliveredIsDurable, Delivered, Stored
  <1> QED  BY <1>2, <1>3 DEF Durable

LEMMA CreateDurable ==
    ASSUME LInv, Durable, NEW r \in Requests, CreateRefreshToken(r)
    PROVE  Durable'
  <1>1. rq[r] \in Request /\ Delivered \subseteq minted
    BY DEF LInv, IInv, TypeOK
  <1> PICK t \in Tokens \ minted :
          rq' = [rq EXCEPT ![r] =
                    [@ EXCEPT !.pc = "commit", !.new = t, !.at = now,
                              !.fam = IF rq[r].op = "login" THEN t ELSE rq[r].fam]]
    BY DEF CreateRefreshToken
  <1> DEFINE fam == IF rq[r].op = "login" THEN t ELSE rq[r].fam
             q   == [rq[r] EXCEPT !.pc = "commit", !.new = t, !.at = now, !.fam = fam]
  <1>2. rq' = [rq EXCEPT ![r] = q] /\ UNCHANGED <<table, delivered, now>>
    BY DEF CreateRefreshToken, LInv, IInv, TypeOK
  <1> HIDE DEF fam
  <1>3. q.new = t
    BY <1>1 DEF Request
  <1> HIDE DEF q
  <1> QED  BY <1>1, <1>2, <1>3, DurableStays

LEMMA CommitDurable ==
    ASSUME LInv, Durable, NEW r \in Requests, CommitMint(r) \/ CommitBulk(r)
    PROVE  Durable'
  <1>1. /\ IInv /\ delivered' = delivered /\ now' = now
        /\ rq'[r].pc = "reply" /\ \A s \in Requests \ {r} : rq'[s] = rq[s]
    BY MintRows, BulkRows DEF LInv, CommitMint, CommitBulk
  <1>2. Unsent'
    BY <1>1 DEF Durable, Unsent, Delivered
  <1>3. ASSUME NEW t \in Delivered
        PROVE  IF t \in Stored' THEN table'[t].expires = delivered[t] ELSE now' > delivered[t]
    <2>1. Lasts(t, delivered[t])
      BY DEF Durable, DeliveredIsDurable, Lasts
    <2>2. CASE CommitMint(r)
      <3>1. t # rq[r].new
        BY <2>2 DEF Durable, Unsent, CommitMint
      <3> QED  BY <1>1, <2>1, <2>2, <3>1, MintLasts
    <2>3. CASE CommitBulk(r)
      BY <1>1, <2>1, <2>3, BulkLasts
    <2> QED  BY <2>2, <2>3
  <1>4. DeliveredIsDurable'
    BY <1>1, <1>3 DEF DeliveredIsDurable, Delivered
  <1> QED  BY <1>2, <1>4 DEF Durable

LEMMA RespondDurable ==
    ASSUME LInv, Durable, NEW r \in Requests, Respond(r)
    PROVE  Durable'
  <1>1. /\ rq' = [rq EXCEPT ![r] = Idle] /\ rq[r].pc = "reply" /\ UNCHANGED <<table, now>>
        /\ rq'[r] = Idle /\ \A s \in Requests \ {r} : rq'[s] = rq[s]
    BY DEF Respond, Deliver, LInv, IInv, TypeOK
  <1>2. CASE delivered' = delivered
    BY <1>1, <1>2, DurableStays DEF Idle
  <1>3. CASE rq[r].new # None /\ Deliver(r)
    <2>1. /\ Delivered' = Delivered \cup {rq[r].new}
          /\ delivered'[rq[r].new] = rq[r].at + RefreshTTL
          /\ \A t \in Delivered \ {rq[r].new} : delivered'[t] = delivered[t]
      BY <1>3 DEF Deliver, Delivered
    <2>2. Lasts(rq[r].new, rq[r].at + RefreshTTL)
      BY <1>1, <1>3 DEF LInv, Received
    <2>3. DeliveredIsDurable'
      BY <1>1, <2>1, <2>2 DEF Durable, DeliveredIsDurable, Lasts, Stored
    <2>4. ASSUME NEW s \in Requests, rq'[s].pc = "commit"
          PROVE  rq'[s].new \notin Delivered'
      <3>1. s # r /\ rq'[s] = rq[s]
        BY <1>1, <2>4 DEF Idle
      <3>2. Older(rq[r], rq[s])
        BY <3>1 DEF LInv
      <3> QED  BY <1>1, <2>1, <2>4, <3>1, <3>2 DEF Durable, Unsent, Older
    <2> QED  BY <2>3, <2>4 DEF Durable, Unsent
  <1> QED  BY <1>2, <1>3 DEF Respond

LEMMA NextDurable ==
    ASSUME ~ResponseFirst, LInv, Durable, [Next]_vars
    PROVE  Durable'
  <1>0. TypeOK /\ now \in Nat
    BY DEF LInv, IInv, TypeOK
  <1>1. ASSUME NEW r \in Requests,
               \/ Arrivals(r)
               \/ SelectMissing(r) \/ SelectRevoked(r) \/ SelectExpired(r) \/ SelectValid(r)
               \/ RevokeSingle(r) \/ RevokeVanished(r) \/ RollbackExpired(r)
               \/ Match(r) \/ Visit(r) \/ LoseResponse(r) \/ Fail(r) \/ DeadlockVictim(r)
        PROVE  Durable'
    <2>1. PICK q : Step(r, q) /\ (Anew(rq[r], q) \/ Onward(rq[r], q))
      BY <1>0, <1>1, ArrivalMoves, HandlerMoves
    <2>2. q.pc # "commit"
      BY <2>1 DEF Anew, Onward
    <2> QED  BY <2>1, <2>2, DurableStays DEF Step
  <1>2. CASE Crash
    <2>1. UNCHANGED <<table, delivered, now>> /\ \A s \in Requests : rq'[s].pc # "commit"
      BY <1>2 DEF Crash, Idle
    <2> QED  BY <2>1 DEF Durable, Unsent, DeliveredIsDurable, Delivered, Stored
  <1>3. CASE Tick \/ UNCHANGED vars
    <2>1. UNCHANGED <<table, delivered, rq>> /\ (now' = now \/ now' = now + 1)
      BY <1>3 DEF Tick, vars
    <2>2. \A t \in Delivered : delivered[t] \in Nat
      BY <1>0 DEF TypeOK
    <2>3. DeliveredIsDurable'
      BY <1>0, <2>1, <2>2 DEF Durable, DeliveredIsDurable, Delivered, Stored
    <2> QED  BY <2>1, <2>3 DEF Durable, Unsent, Delivered
  <1>4. CASE Next
    BY <1>1, <1>2, <1>3, <1>4, NextCases, CreateDurable, CommitDurable, RespondDurable
       DEF RespondBeforeCommit
  <1> QED  BY <1>3, <1>4

\* As long as answers follow commits, a token that left with a response is in the table
\* with the expiry it was issued with until that has passed, for every token (get_db's
\* commit, cleanup_expired_tokens).
THEOREM DeliveredStays ==
    ASSUME ~ResponseFirst
    PROVE  Spec => []DeliveredIsDurable
  <1>1. Init => Durable
    BY DEF Init, Durable, DeliveredIsDurable, Unsent, Delivered, Idle
  <1>2. Durable => DeliveredIsDurable
    BY DEF Durable
  <1> QED  BY <1>1, <1>2, NextDurable, InitLInv, NextLInv, PTL DEF Spec

-----------------------------------------------------------------------------
(* The refinement: one step of the ledger, or none, for each step            *)

\* The claim of a request.
Claiming(q) == Rotating(q) \/ (q.op = "login" /\ q.pc \in {"insert", "commit"})

ClaimOf(q) ==
    IF Claiming(q)
    THEN [owner |-> q.user, session |-> q.fam, from |-> q.tok, to |-> q.new, at |-> q.at]
    ELSE Ledger!NoClaim

LEMMA ClaimOfEach == claimsBar = [r \in Requests |-> ClaimOf(rq[r])]
  BY DEF claimsBar, claimBar, ClaimOf, Claiming, Ledger!NoClaim

LEMMA ClaimStep ==
    ASSUME TypeOK, NEW r \in Requests, NEW q, rq' = [rq EXCEPT ![r] = q]
    PROVE  claimsBar' = [claimsBar EXCEPT ![r] = ClaimOf(q)]
  <1>1. rq'[r] = q /\ \A s \in Requests \ {r} : rq'[s] = rq[s]
    BY DEF TypeOK
  <1>2. \A s \in Requests : claimBar(s)' = ClaimOf(rq'[s])
    BY DEF claimBar, ClaimOf, Claiming, Rotating, Ledger!NoClaim
  <1>3. claimsBar' = [s \in Requests |-> ClaimOf(rq'[s])]
    BY <1>2 DEF claimsBar
  <1>4. [claimsBar EXCEPT ![r] = ClaimOf(q)] =
            [s \in Requests |-> IF s = r THEN ClaimOf(q) ELSE ClaimOf(rq[s])]
    BY ClaimOfEach
  <1>5. \A s \in Requests : ClaimOf(rq'[s]) = IF s = r THEN ClaimOf(q) ELSE ClaimOf(rq[s])
    BY <1>1
  <1> QED  BY <1>3, <1>4, <1>5

\* The claim a step leaves as it is.
LEMMA ClaimKept ==
    ASSUME TypeOK, NEW r \in Requests, NEW q, rq' = [rq EXCEPT ![r] = q],
           ClaimOf(q) = ClaimOf(rq[r])
    PROVE  claimsBar' = claimsBar
  <1>1. claimsBar = [s \in Requests |-> claimsBar[s]] /\ claimsBar[r] = ClaimOf(q)
    BY ClaimOfEach
  <1>2. claimsBar' = [claimsBar EXCEPT ![r] = ClaimOf(q)]
    BY ClaimStep
  <1> QED  BY <1>1, <1>2

\* The claim of a rotation.
LEMMA RotationClaim ==
    ASSUME NEW o, NEW s, NEW f
    PROVE  [Ledger!NoClaim EXCEPT !.owner = o, !.from = f, !.session = s]
             = [owner |-> o, session |-> s, from |-> f, to |-> None, at |-> 0]
  <1> DEFINE c == [Ledger!NoClaim EXCEPT !.owner = o, !.from = f, !.session = s]
  <1>1. c = [Ledger!NoClaim EXCEPT !.owner = o, !.from = f, !.session = s]
    OBVIOUS
  <1> HIDE DEF c
  <1>2. c = [owner |-> o, session |-> s, from |-> f, to |-> None, at |-> 0]
    BY <1>1 DEF Ledger!NoClaim
  <1> QED  BY <1>1, <1>2

\* The claim a draw leaves, and the entry an end leaves.
LEMMA DrawnClaim ==
    ASSUME NEW d, NEW u, NEW f, NEW k, NEW a, NEW t, NEW n, NEW s, NEW c,
           d = [owner |-> u, session |-> f, from |-> k, to |-> None, at |-> a],
           c = [d EXCEPT !.to = t, !.at = n, !.session = s]
    PROVE  c = [owner |-> u, session |-> s, from |-> k, to |-> t, at |-> n]
  OBVIOUS

LEMMA EndedEntry ==
    ASSUME NEW d, NEW f, NEW u, NEW a \in BOOLEAN, NEW x, NEW b \in BOOLEAN, NEW c,
           d = [session |-> f, owner |-> u, live |-> a, expires |-> x],
           c = [d EXCEPT !.live = @ /\ b]
    PROVE  c = [session |-> f, owner |-> u, live |-> a /\ b, expires |-> x]
  <1>1. d.live = a
    OBVIOUS
  <1> DEFINE l == a /\ b
  <1>2. c = [d EXCEPT !.live = l]
    BY <1>1, Zenon
  <1> HIDE DEF l
  <1>3. c = [session |-> f, owner |-> u, live |-> l, expires |-> x]
    BY <1>2
  <1> QED  BY <1>3 DEF l

LEMMA EntriesKept ==
    ASSUME UNCHANGED table
    PROVE  entriesBar' = entriesBar
  BY DEF entriesBar, Stored

LEMMA LedgerInit == Init => Ledger!Init
  <1> SUFFICES ASSUME Init PROVE Ledger!Init
    OBVIOUS
  <1>1. entriesBar = [t \in {} |-> None]
    BY DEF Init, entriesBar, Stored
  <1>2. ClaimOf(Idle) = Ledger!NoClaim
    BY DEF ClaimOf, Claiming, Rotating, Idle
  <1>3. claimsBar = [r \in Requests |-> Ledger!NoClaim]
    BY <1>2, ClaimOfEach DEF Init
  <1> QED  BY <1>1, <1>3 DEF Init, Ledger!Init

\* A login claims a new session; every other arrival and every end without a commit
\* leaves the slot without a claim.
LEMMA AnewLedger ==
    ASSUME LInv, NEW r \in Requests, NEW q, Step(r, q), Anew(rq[r], q)
    PROVE  Ledger!Next \/ UNCHANGED Ledger!vars
  <1>0. TypeOK /\ rq' = [rq EXCEPT ![r] = q] /\ UNCHANGED <<table, minted, now>>
    BY DEF LInv, IInv, Step
  <1>1. /\ entriesBar' = entriesBar
        /\ claimsBar' = [claimsBar EXCEPT ![r] = ClaimOf(q)]
    BY <1>0, EntriesKept, ClaimStep
  <1>2. CASE q.pc = "insert"
    <2>1. /\ q.op = "login" /\ q.user \in Users /\ q.tok = None /\ q.fam = None
          /\ q.new = None /\ q.at = 0 /\ rq[r].pc = "idle"
      BY <1>2 DEF Anew
    <2>2. ClaimOf(q) = [Ledger!NoClaim EXCEPT !.owner = q.user]
      BY <1>2, <2>1 DEF ClaimOf, Claiming, Ledger!NoClaim
    <2>3. claimsBar[r] = Ledger!NoClaim
      BY <2>1, ClaimOfEach DEF ClaimOf, Claiming, Rotating
    <2>4. Ledger!Claim(r, q.user, None)
      BY <1>0, <1>1, <2>2, <2>3 DEF Ledger!Claim
    <2> QED  BY <2>1, <2>4 DEF Ledger!Next
  <1>3. CASE q.pc # "insert"
    <2>1. ClaimOf(q) = Ledger!NoClaim
      BY <1>3 DEF Anew, ClaimOf, Claiming, Rotating
    <2>2. claimsBar' = [s \in Requests |-> IF s \in {r} THEN Ledger!NoClaim ELSE claimsBar[s]]
      BY <1>1, <2>1, ClaimOfEach
    <2>3. Ledger!Withdraw({r})
      BY <1>0, <1>1, <2>2 DEF Ledger!Withdraw
    <2> QED  BY <2>3 DEF Ledger!Next
  <1> QED  BY <1>2, <1>3

\* Reading a valid row claims its rotation; no other step of a handler concerns the ledger.
LEMMA OnwardLedger ==
    ASSUME LInv, NEW r \in Requests, NEW q, Step(r, q), Onward(rq[r], q)
    PROVE  Ledger!Next \/ UNCHANGED Ledger!vars
  <1>0. /\ TypeOK /\ WellFormed(rq[r]) /\ Fresh(rq[r])
        /\ rq' = [rq EXCEPT ![r] = q] /\ UNCHANGED <<table, minted, now>>
    BY DEF LInv, IInv, TypeOK, Step
  <1>1. /\ entriesBar' = entriesBar
        /\ claimsBar' = [claimsBar EXCEPT ![r] = ClaimOf(q)]
    BY <1>0, EntriesKept, ClaimStep
  <1>2. CASE rq[r].pc = "select" /\ q.pc = "revoke"
    <2> DEFINE t == q.tok
    <2>1. /\ t \in Stored /\ ~table[t].revoked /\ ~is_expired(t)
          /\ q.fam = table[t].family /\ q.user = table[t].user
          /\ q.op = "refresh" /\ q.new = None /\ q.at = 0
      BY <1>0, <1>2 DEF Onward, WellFormed, Fresh
    <2>2. /\ t \in Tokens /\ t # None /\ table[t].user \in Users
          /\ table[t].expires \in Nat /\ now \in Nat
      BY <1>0, <2>1, ConstantsAssumption DEF TypeOK, Stored, Row
    <2>e. /\ t \in DOMAIN entriesBar
          /\ entriesBar[t] = [session |-> table[t].family, owner |-> table[t].user,
                              live |-> ~table[t].revoked, expires |-> table[t].expires]
      BY <2>1 DEF entriesBar
    <2>l. entriesBar[t].live
      <3>1. entriesBar[t].live = ~table[t].revoked
        BY <2>e
      <3> QED  BY <2>1, <3>1
    <2>3. entriesBar[t].owner = q.user /\ entriesBar[t].session = q.fam
          /\ now <= entriesBar[t].expires
      BY <2>1, <2>2, <2>e DEF is_expired
    <2>4. claimsBar[r] = Ledger!NoClaim
      BY <1>2, ClaimOfEach DEF ClaimOf, Claiming, Rotating
    <2>5. ClaimOf(q) = [Ledger!NoClaim EXCEPT !.owner = q.user, !.from = t, !.session = q.fam]
      <3>1. q.op = "refresh" /\ q.pc = "revoke" /\ q.new = None /\ q.at = 0
        BY <1>2, <2>1
      <3>2. ClaimOf(q) = [owner |-> q.user, session |-> q.fam, from |-> t, to |-> None,
                          at |-> 0]
        BY <3>1 DEF ClaimOf, Claiming, Rotating
      <3> QED  BY <3>2, RotationClaim, Zenon
    <2>6. Ledger!Claim(r, q.user, t)
      BY <1>0, <1>1, <2>2, <2>e, <2>l, <2>3, <2>4, <2>5 DEF Ledger!Claim, Ledger!Entered
    <2> QED  BY <2>1, <2>2, <2>6 DEF Ledger!Next
  <1>3. CASE rq[r].pc = "revoke" /\ q.pc = "insert"
    <2>1. ClaimOf(q) = ClaimOf(rq[r])
      BY <1>0, <1>3 DEF Onward, WellFormed, ClaimOf, Claiming, Rotating
    <2> QED  BY <1>0, <1>1, <2>1, ClaimKept DEF Ledger!vars
  <1>4. CASE /\ ~(rq[r].pc = "select" /\ q.pc = "revoke")
             /\ ~(rq[r].pc = "revoke" /\ q.pc = "insert")
    <2>1. ClaimOf(q) = Ledger!NoClaim /\ ClaimOf(rq[r]) = Ledger!NoClaim
      BY <1>4 DEF Onward, ClaimOf, Claiming, Rotating
    <2> QED  BY <1>0, <1>1, <2>1, ClaimKept DEF Ledger!vars
  <1> QED  BY <1>2, <1>3, <1>4

\* create_refresh_token draws a token for the claim.
LEMMA CreateLedger ==
    ASSUME LInv, NEW r \in Requests, CreateRefreshToken(r)
    PROVE  Ledger!Next
  <1>0. /\ rq[r] \in Request /\ WellFormed(rq[r]) /\ Fresh(rq[r]) /\ TypeOK
        /\ UNCHANGED <<table, now>> /\ rq[r].pc = "insert" /\ None \notin Users \cup Tokens
    BY ConstantsAssumption DEF LInv, IInv, TypeOK, CreateRefreshToken
  <1> PICK t \in Tokens \ minted :
          /\ minted' = minted \cup {t}
          /\ rq' = [rq EXCEPT ![r] =
                       [@ EXCEPT !.pc = "commit", !.new = t, !.at = now,
                                 !.fam = IF rq[r].op = "login" THEN t ELSE rq[r].fam]]
    BY DEF CreateRefreshToken
  <1> DEFINE fam == IF rq[r].op = "login" THEN t ELSE rq[r].fam
             q   == [rq[r] EXCEPT !.pc = "commit", !.new = t, !.at = now, !.fam = fam]
  <1>1. rq' = [rq EXCEPT ![r] = q]
    BY <1>0 DEF TypeOK
  <1>2. \/ rq[r].op = "login" /\ rq[r].fam = None /\ fam = t
        \/ rq[r].op = "refresh" /\ rq[r].fam # None /\ fam = rq[r].fam
    BY <1>0 DEF WellFormed, Rotating, Fresh
  <1> HIDE DEF fam
  <1>3. /\ q.pc = "commit" /\ q.new = t /\ q.at = now /\ q.fam = fam
        /\ q.op = rq[r].op /\ q.user = rq[r].user /\ q.tok = rq[r].tok
    BY <1>0 DEF Request
  <1> HIDE DEF q
  <1>4. claimsBar[r] = [owner |-> rq[r].user, session |-> rq[r].fam, from |-> rq[r].tok,
                        to |-> None, at |-> rq[r].at]
        /\ rq[r].user # None
    BY <1>0, <1>2, ClaimOfEach DEF ClaimOf, Claiming, Rotating, Fresh, WellFormed
  <1>5. ClaimOf(q) = [owner |-> rq[r].user, session |-> fam, from |-> rq[r].tok,
                      to |-> t, at |-> now]
    BY <1>2, <1>3 DEF ClaimOf, Claiming, Rotating
  <1>6. ClaimOf(q) = [claimsBar[r] EXCEPT !.to = t, !.at = now,
            !.session = IF claimsBar[r].session = None THEN t ELSE claimsBar[r].session]
    <2>1. fam = IF rq[r].fam = None THEN t ELSE rq[r].fam
      BY <1>2
    <2> DEFINE d == claimsBar[r]
               c == [d EXCEPT !.to = t, !.at = now, !.session = fam]
    <2>2. (IF d.session = None THEN t ELSE d.session) = fam
      BY <1>4, <2>1
    <2>3. c = [claimsBar[r] EXCEPT !.to = t, !.at = now,
                  !.session = IF claimsBar[r].session = None THEN t ELSE claimsBar[r].session]
      BY <2>2, Zenon
    <2>4. /\ d = [owner |-> rq[r].user, session |-> rq[r].fam, from |-> rq[r].tok,
                  to |-> None, at |-> rq[r].at]
          /\ c = [d EXCEPT !.to = t, !.at = now, !.session = fam]
      BY <1>4
    <2> HIDE DEF c, d
    <2>5. c = [owner |-> rq[r].user, session |-> fam, from |-> rq[r].tok, to |-> t, at |-> now]
      BY <2>4, DrawnClaim
    <2> QED  BY <1>5, <2>3, <2>5, Zenon
  <1>7. claimsBar[r] # Ledger!NoClaim /\ claimsBar[r].to = None
    BY <1>4 DEF Ledger!NoClaim
  <1>8. entriesBar' = entriesBar /\ claimsBar' = [claimsBar EXCEPT ![r] = ClaimOf(q)]
    BY <1>0, <1>1, EntriesKept, ClaimStep
  <1>9. Ledger!Draw(r, t)
    <2>1. claimsBar' = [claimsBar EXCEPT ![r] =
             [@ EXCEPT !.to = t, !.at = now,
                       !.session = IF claimsBar[r].session = None THEN t
                                                                  ELSE claimsBar[r].session]]
      BY <1>6, <1>8, Zenon
    <2> QED  BY <1>0, <1>7, <1>8, <2>1 DEF Ledger!Draw
  <1> QED  BY <1>9 DEF Ledger!Next

\* The commit of a login or a rotation enters the token and ends the one it was made from.
LEMMA MintLedger ==
    ASSUME LInv, NEW r \in Requests, CommitMint(r)
    PROVE  Ledger!Next
  <1>0. /\ IInv /\ TypeOK /\ rq[r].pc = "commit"
        /\ None \notin Tokens /\ Stored \subseteq Tokens
    BY ConstantsAssumption DEF LInv, IInv, TypeOK, CommitMint, Stored
  <1> DEFINE n == rq[r].new
  <1>1. claimsBar[r] = [owner |-> rq[r].user, session |-> rq[r].fam, from |-> rq[r].tok,
                        to |-> n, at |-> rq[r].at]
    BY <1>0, MintRows, ClaimOfEach DEF ClaimOf, Claiming
  <1>2. /\ entriesBar'[n] = [session |-> rq[r].fam, owner |-> rq[r].user, live |-> TRUE,
                             expires |-> rq[r].at + RefreshTTL]
        /\ entriesBar' = [t \in Stored \cup {n} |-> entriesBar'[t]]
    <2>1. n \in Stored' /\ table'[n] = NewRow(r) /\ Stored' = Stored \cup {n}
      BY <1>0, MintRows
    <2>2. entriesBar' = [t \in Stored' |->
              [session |-> table'[t].family, owner |-> table'[t].user,
               live |-> ~table'[t].revoked, expires |-> table'[t].expires]]
      BY DEF entriesBar
    <2>3. /\ table'[n].family = rq[r].fam /\ table'[n].user = rq[r].user
          /\ (~table'[n].revoked) = TRUE /\ table'[n].expires = rq[r].at + RefreshTTL
      BY <2>1 DEF NewRow
    <2> QED  BY <2>1, <2>2, <2>3
  <1>3. ASSUME NEW t \in Stored
        PROVE  entriesBar'[t] = [entriesBar[t] EXCEPT !.live = @ /\ t # rq[r].tok]
    <2>1. t \in Stored' /\ table'[t] = Written(r, t)
      BY <1>0, MintRows
    <2>h. t \in rq[r].hit <=> t = rq[r].tok
      BY <1>0, MintRows
    <2>b. table[t].revoked \in BOOLEAN
      BY <1>0 DEF TypeOK, Row, Stored
    <2>2. /\ table'[t].family = table[t].family /\ table'[t].user = table[t].user
          /\ table'[t].expires = table[t].expires
          /\ ~table'[t].revoked <=> ~table[t].revoked /\ t # rq[r].tok
      BY <1>0, <2>1, <2>h, <2>b, WrittenRow
    <2>3. /\ entriesBar[t] = [session |-> table[t].family, owner |-> table[t].user,
                              live |-> ~table[t].revoked, expires |-> table[t].expires]
          /\ entriesBar'[t] = [session |-> table'[t].family, owner |-> table'[t].user,
                              live |-> ~table'[t].revoked, expires |-> table'[t].expires]
      BY <2>1 DEF entriesBar
    <2>4. (~table'[t].revoked) = (~table[t].revoked /\ t # rq[r].tok)
      BY <2>2
    <2> DEFINE d == entriesBar[t]
               e == [d EXCEPT !.live = @ /\ t # rq[r].tok]
    <2>5. /\ d = [session |-> table[t].family, owner |-> table[t].user,
                 live |-> ~table[t].revoked, expires |-> table[t].expires]
          /\ e = [d EXCEPT !.live = @ /\ t # rq[r].tok]
      BY <2>3
    <2> HIDE DEF d, e
    <2>6. e = [session |-> table[t].family, owner |-> table[t].user,
               live |-> (~table[t].revoked /\ t # rq[r].tok), expires |-> table[t].expires]
      BY <2>5, EndedEntry
    <2>7. e = entriesBar'[t]
      BY <2>2, <2>3, <2>4, <2>6, Zenon
    <2> QED  BY <2>7 DEF d, e
  <1>4. claimsBar' = [claimsBar EXCEPT ![r] = Ledger!NoClaim]
    <2>1. \A s \in Requests : claimBar(s)' = ClaimOf(rq'[s])
      BY DEF claimBar, ClaimOf, Claiming, Rotating, Ledger!NoClaim
    <2>2. ClaimOf(rq'[r]) = Ledger!NoClaim
      BY <1>0, MintRows DEF ClaimOf, Claiming, Rotating
    <2>3. \A s \in Requests \ {r} : rq'[s] = rq[s]
      BY <1>0, MintRows
    <2> QED  BY <2>1, <2>2, <2>3, ClaimOfEach DEF claimsBar
  <1>5. n # None /\ n \notin Stored /\ (rq[r].tok # None => rq[r].tok \in Stored)
        /\ UNCHANGED <<minted, now>>
    BY <1>0, MintRows
  <1>6. DOMAIN entriesBar = Stored
    BY DEF entriesBar
  <1>7. Ledger!Enter(r)
    <2>1. entriesBar' = [t \in Stored \cup {n} |->
                            IF t = n
                            THEN [session |-> rq[r].fam, owner |-> rq[r].user,
                                  live |-> TRUE, expires |-> rq[r].at + RefreshTTL]
                            ELSE [entriesBar[t] EXCEPT !.live = @ /\ t # rq[r].tok]]
      BY <1>2, <1>3
    <2> QED  BY <1>1, <1>4, <1>5, <1>6, <2>1 DEF Ledger!Enter, Ledger!Entered
  <1> QED  BY <1>7 DEF Ledger!Next

\* A bulk statement ends what it has hit, or purges it.
LEMMA BulkLedger ==
    ASSUME LInv, NEW r \in Requests, CommitBulk(r)
    PROVE  Ledger!Next \/ UNCHANGED Ledger!vars
  <1> DEFINE S == rq[r].hit
  <1>0. /\ IInv /\ TypeOK /\ S \subseteq Stored /\ Stored \subseteq Tokens
        /\ DOMAIN entriesBar = Stored /\ UNCHANGED <<minted, now>>
    BY BulkRows DEF LInv, IInv, TypeOK, Stored, entriesBar
  <1>1. claimsBar' = claimsBar
    <2>1. \A s \in Requests : claimBar(s)' = ClaimOf(rq'[s])
      BY DEF claimBar, ClaimOf, Claiming, Rotating, Ledger!NoClaim
    <2>2. ClaimOf(rq'[r]) = ClaimOf(rq[r])
      BY <1>0, BulkRows DEF ClaimOf, Claiming, Rotating
    <2>3. \A s \in Requests \ {r} : rq'[s] = rq[s]
      BY <1>0, BulkRows
    <2> QED  BY <2>1, <2>2, <2>3, ClaimOfEach DEF claimsBar
  <1>e. \A t \in Stored : entriesBar[t] =
            [session |-> table[t].family, owner |-> table[t].user,
             live |-> ~table[t].revoked, expires |-> table[t].expires]
    BY DEF entriesBar
  <1>2. CASE rq[r].op = "cleanup"
    <2>1. entriesBar' = [t \in Stored \ S |-> entriesBar[t]]
      <3>1. Stored' = Stored \ S /\ table' = [t \in Stored \ S |-> table[t]]
        BY <1>0, <1>2, BulkRows
      <3> QED  BY <1>e, <3>1 DEF entriesBar
    <2>2. CASE S = {}
      <3>1. entriesBar' = entriesBar
        BY <2>1, <2>2 DEF entriesBar
      <3> QED  BY <1>0, <1>1, <3>1 DEF Ledger!vars
    <2>3. CASE S # {}
      <3>1. ASSUME NEW t \in S
            PROVE  entriesBar[t].expires < now
        <4>1. /\ table[t].expires \in Nat /\ rq[r].at \in Nat /\ now \in Nat
              /\ table[t].expires < rq[r].at /\ rq[r].at <= now
          BY <1>0, <1>2, BulkRows DEF TypeOK, Stored, Row, Request
        <4> QED  BY <1>0, <1>e, <4>1
      <3>2. Ledger!Purge(S)
        BY <1>0, <1>1, <2>1, <2>3, <3>1 DEF Ledger!Purge, Ledger!Entered
      <3> QED  BY <1>0, <3>2 DEF Ledger!Next
    <2> QED  BY <2>2, <2>3
  <1>3. CASE rq[r].op # "cleanup"
    <2>0. /\ Stored' = Stored /\ table' = [t \in Stored |-> Written(r, t)]
          /\ rq[r].op \in {"refresh", "logout", "logout_all"}
          /\ \A t \in S : Target(rq[r], t)
      BY <1>0, <1>3, BulkRows
    <2>1. ASSUME NEW t \in Stored
          PROVE  entriesBar'[t] = [entriesBar[t] EXCEPT !.live = @ /\ t \notin S]
      <3>1. /\ t \in Stored' /\ table'[t] = Written(r, t) /\ table[t].revoked \in BOOLEAN
        BY <1>0, <2>0 DEF TypeOK, Row, Stored
      <3>2. /\ table'[t].family = table[t].family /\ table'[t].user = table[t].user
            /\ table'[t].expires = table[t].expires
            /\ ~table'[t].revoked <=> ~table[t].revoked /\ t \notin S
        BY <1>0, <3>1, WrittenRow
      <3>3. entriesBar'[t] = [session |-> table'[t].family, owner |-> table'[t].user,
                              live |-> ~table'[t].revoked, expires |-> table'[t].expires]
        BY <3>1 DEF entriesBar
      <3>4. (~table'[t].revoked) = (~table[t].revoked /\ t \notin S)
        BY <3>2
      <3> DEFINE d == entriesBar[t]
                 e == [d EXCEPT !.live = @ /\ t \notin S]
      <3>5. /\ d = [session |-> table[t].family, owner |-> table[t].user,
                   live |-> ~table[t].revoked, expires |-> table[t].expires]
            /\ e = [d EXCEPT !.live = @ /\ t \notin S]
        BY <1>e
      <3> HIDE DEF d, e
      <3>6. e = [session |-> table[t].family, owner |-> table[t].user,
                 live |-> (~table[t].revoked /\ t \notin S), expires |-> table[t].expires]
        BY <3>5, EndedEntry
      <3>7. e = entriesBar'[t]
        BY <3>2, <3>3, <3>4, <3>6, Zenon
      <3> QED  BY <3>7 DEF d, e
    <2>2. entriesBar' = [t \in Stored |-> [entriesBar[t] EXCEPT !.live = @ /\ t \notin S]]
      <3>1. entriesBar' = [t \in Stored |-> entriesBar'[t]]
        BY <2>0 DEF entriesBar
      <3> QED  BY <2>1, <3>1
    <2>3. CASE S = {}
      <3>1. \A t \in Stored : Written(r, t) = table[t]
        BY <1>0, <2>3, WrittenRow
      <3>2. table = [t \in Stored |-> table[t]]
        BY <1>0 DEF TypeOK, Stored
      <3>3. entriesBar' = entriesBar
        BY <2>0, <3>1, <3>2, EntriesKept
      <3> QED  BY <1>0, <1>1, <3>3 DEF Ledger!vars
    <2>4. CASE S # {}
      <3>1. \/ \A s, t \in S : entriesBar[s].session = entriesBar[t].session
            \/ \A s, t \in S : entriesBar[s].owner = entriesBar[t].owner
        <4>1. \A t \in S : /\ entriesBar[t].session = table[t].family
                           /\ entriesBar[t].owner = table[t].user
          BY <1>0, <1>e
        <4> QED  BY <2>0, <4>1 DEF Target
      <3>2. Ledger!End(S)
        BY <1>0, <1>1, <2>2, <2>4, <3>1 DEF Ledger!End, Ledger!Entered
      <3> QED  BY <1>0, <3>2 DEF Ledger!Next
    <2> QED  BY <2>3, <2>4
  <1> QED  BY <1>2, <1>3

LEMMA RespondLedger ==
    ASSUME LInv, NEW r \in Requests, Respond(r)
    PROVE  UNCHANGED Ledger!vars
  <1>1. TypeOK /\ rq' = [rq EXCEPT ![r] = Idle] /\ UNCHANGED <<table, minted, now>>
    BY DEF LInv, IInv, Respond, Deliver
  <1>2. ClaimOf(Idle) = Ledger!NoClaim /\ ClaimOf(rq[r]) = Ledger!NoClaim
    BY DEF ClaimOf, Claiming, Rotating, Idle, Respond
  <1> QED  BY <1>1, <1>2, ClaimKept, EntriesKept DEF Ledger!vars

LEMMA AnsweredLedger ==
    ASSUME LInv, NEW r \in Requests, RespondBeforeCommit(r)
    PROVE  UNCHANGED Ledger!vars
  <1> DEFINE q == rq'[r]
  <1>0. TypeOK
    BY DEF LInv, IInv
  <1>1. rq' = [rq EXCEPT ![r] = q] /\ UNCHANGED <<table, minted, now>>
    BY <1>0, Answered
  <1>2. ClaimOf(q) = ClaimOf(rq[r])
    BY <1>0, Answered DEF ClaimOf, Claiming, Rotating
  <1> HIDE DEF q
  <1> QED  BY <1>0, <1>1, <1>2, ClaimKept, EntriesKept DEF Ledger!vars

\* A crash withdraws every claim.
LEMMA CrashLedger ==
    ASSUME Crash
    PROVE  Ledger!Next
  <1>1. UNCHANGED <<table, minted, now>> /\ \A s \in Requests : rq'[s] = Idle
    BY DEF Crash
  <1>2. \A s \in Requests : claimBar(s)' = Ledger!NoClaim
    BY <1>1 DEF claimBar, Rotating, Idle, Ledger!NoClaim
  <1>3. claimsBar' = [s \in Requests |-> IF s \in Requests THEN Ledger!NoClaim
                                                          ELSE claimsBar[s]]
    BY <1>2 DEF claimsBar
  <1>4. Ledger!Withdraw(Requests)
    BY <1>1, <1>3, EntriesKept DEF Ledger!Withdraw
  <1> QED  BY <1>4 DEF Ledger!Next

LEMMA OtherLedger ==
    ASSUME UNCHANGED <<table, rq, minted>>, now' = now \/ now' = now + 1
    PROVE  Ledger!Next \/ UNCHANGED Ledger!vars
  <1>1. entriesBar' = entriesBar /\ claimsBar' = claimsBar
    BY EntriesKept DEF claimsBar, claimBar, Rotating
  <1> QED  BY <1>1 DEF Ledger!Next, Ledger!Tick, Ledger!vars

LEMMA LedgerStep ==
    ASSUME LInv, [Next]_vars
    PROVE  Ledger!Next \/ UNCHANGED Ledger!vars
  <1>0. TypeOK
    BY DEF LInv, IInv
  <1>1. ASSUME NEW r \in Requests, Arrivals(r)
        PROVE  Ledger!Next \/ UNCHANGED Ledger!vars
    BY <1>0, <1>1, ArrivalMoves, AnewLedger
  <1>2. ASSUME NEW r \in Requests,
               \/ SelectMissing(r) \/ SelectRevoked(r) \/ SelectExpired(r) \/ SelectValid(r)
               \/ RevokeSingle(r) \/ RevokeVanished(r) \/ RollbackExpired(r)
               \/ Match(r) \/ Visit(r) \/ LoseResponse(r) \/ Fail(r) \/ DeadlockVictim(r)
        PROVE  Ledger!Next \/ UNCHANGED Ledger!vars
    BY <1>0, <1>2, HandlerMoves, AnewLedger, OnwardLedger
  <1>3. ASSUME Tick \/ UNCHANGED vars
        PROVE  Ledger!Next \/ UNCHANGED Ledger!vars
    BY <1>3, OtherLedger DEF Tick, vars
  <1>4. CASE Next
    BY <1>1, <1>2, <1>3, <1>4, NextCases, CreateLedger, MintLedger, BulkLedger,
       RespondLedger, AnsweredLedger, CrashLedger
  <1> QED  BY <1>3, <1>4

\* The token table behaves as the ledger of TokenLedger, for any number of requests:
\* every statement, lock wait, commit, failure and crash of RefreshTokens is one step of
\* the ledger or none.
THEOREM Refinement == Spec => ImplementsLedger
  <1>1. Init => Ledger!Init
    BY LedgerInit
  <1>2. LInv /\ [Next]_vars => [Ledger!Next]_Ledger!vars
    BY LedgerStep
  <1> QED  BY <1>1, <1>2, InitLInv, NextLInv, PTL DEF Spec, ImplementsLedger, Ledger!Spec

=============================================================================
