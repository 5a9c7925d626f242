------------------------ MODULE RefreshTokens_proofs ------------------------
(* Proofs about RefreshTokens for every value of its constants.            *)
EXTENDS RefreshTokens, TLAPS

-----------------------------------------------------------------------------
(* Types                                                                   *)

\* A step that only changes the record of one request keeps the types if the new
\* record has its type (the handlers' steps between two commits).
LEMMA StepType ==
    ASSUME TypeOK, NEW r \in Requests, NEW q \in Request, WellFormed(q), Step(r, q)
    PROVE  TypeOK'
  <1>1. rq' \in [Requests -> Request] /\ rq'[r] = q /\ \A s \in Requests \ {r} : rq'[s] = rq[s]
    BY DEF TypeOK, Step
  <1>2. \A s \in Requests : WellFormed(rq[s])'
    BY <1>1 DEF TypeOK, Step, WellFormed, Rotating
  <1> QED  BY <1>1, <1>2 DEF TypeOK, Step, Delivered

LEMMA IdleType == Idle \in Request /\ WellFormed(Idle)
  BY ConstantsAssumption DEF Idle, Request, WellFormed, Rotating, Ops, Pcs, Replies, Reasons

LEMMA InitType == Init => TypeOK
  <1> SUFFICES ASSUME Init PROVE TypeOK
    OBVIOUS
  <1>1. rq \in [Requests -> Request] /\ \A r \in Requests : WellFormed(rq[r])
    BY IdleType DEF Init
  <1> QED  BY <1>1 DEF Init, TypeOK, Delivered

\* Arrivals: the record of the slot becomes Idle but for what the caller gave.
LEMMA ArrivalType ==
    ASSUME TypeOK, NEW r \in Requests, Arrivals(r)
    PROVE  TypeOK'
  <1>0. ConstantsAssumption /\ TypeOK
    BY ConstantsAssumption
  <1>s. ASSUME NEW q \in Request, WellFormed(q), Arrive(r, q)
        PROVE  TypeOK'
    BY <1>s, StepType DEF Arrive, Step
  <1>1. ASSUME NEW u \in Users, Login(r, u)
        PROVE  TypeOK'
    <2> DEFINE q == [Idle EXCEPT !.op = "login", !.pc = "insert", !.user = u]
    <2>1. q \in Request
      BY <1>0 DEF Request, Idle, Ops, Pcs, Replies, Reasons, TypeOK
    <2>2. WellFormed(q)
      BY <1>0, <1>1 DEF WellFormed, Rotating, Idle, TypeOK, Login
    <2>3. Arrive(r, q)
      BY <1>1 DEF Login
    <2> HIDE DEF q
    <2> QED  BY <2>1, <2>2, <2>3, <1>s
  <1>2. ASSUME NEW t \in Tokens, Refresh(r, t)
        PROVE  TypeOK'
    <2> DEFINE q == [Idle EXCEPT !.op = "refresh", !.pc = "select", !.tok = t]
    <2>1. q \in Request
      BY <1>0 DEF Request, Idle, Ops, Pcs, Replies, Reasons, TypeOK
    <2>2. WellFormed(q)
      BY <1>0, <1>2 DEF WellFormed, Rotating, Idle, TypeOK, Refresh
    <2>3. Arrive(r, q)
      BY <1>2 DEF Refresh
    <2> HIDE DEF q
    <2> QED  BY <2>1, <2>2, <2>3, <1>s
  <1>3. ASSUME NEW u \in Users, NEW t \in Tokens, Logout(r, u, t)
        PROVE  TypeOK'
    <2> DEFINE q == [Idle EXCEPT !.op = "logout", !.pc = "match", !.user = u,
                              !.tok = t, !.reason = "logout"]
    <2>1. q \in Request
      BY <1>0 DEF Request, Idle, Ops, Pcs, Replies, Reasons, TypeOK
    <2>2. WellFormed(q)
      BY <1>0, <1>3 DEF WellFormed, Rotating, Idle, TypeOK, Logout
    <2>3. Arrive(r, q)
      BY <1>3 DEF Logout
    <2> HIDE DEF q
    <2> QED  BY <2>1, <2>2, <2>3, <1>s
  <1>4. ASSUME NEW u \in Users, LogoutAll(r, u)
        PROVE  TypeOK'
    <2> DEFINE q == [Idle EXCEPT !.op = "logout_all", !.pc = "match", !.user = u,
                              !.reason = "logout"]
    <2>1. q \in Request
      BY <1>0 DEF Request, Idle, Ops, Pcs, Replies, Reasons, TypeOK
    <2>2. WellFormed(q)
      BY <1>0, <1>4 DEF WellFormed, Rotating, Idle, TypeOK, LogoutAll
    <2>3. Arrive(r, q)
      BY <1>4 DEF LogoutAll
    <2> HIDE DEF q
    <2> QED  BY <2>1, <2>2, <2>3, <1>s
  <1>5. ASSUME NEW u \in Users, LogoutOmitted(r, u)
        PROVE  TypeOK'
    <2> DEFINE q == [Idle EXCEPT !.op = "logout_omitted", !.pc = "reply", !.user = u,
                              !.reply = "unprocessable"]
    <2>1. q \in Request
      BY <1>0 DEF Request, Idle, Ops, Pcs, Replies, Reasons, TypeOK
    <2>2. WellFormed(q)
      BY <1>0, <1>5 DEF WellFormed, Rotating, Idle, TypeOK, LogoutOmitted
    <2>3. Arrive(r, q)
      BY <1>5 DEF LogoutOmitted
    <2> HIDE DEF q
    <2> QED  BY <2>1, <2>2, <2>3, <1>s
  <1>6. ASSUME Cleanup(r)
        PROVE  TypeOK'
    <2> DEFINE q == [Idle EXCEPT !.op = "cleanup", !.pc = "match", !.at = now]
    <2>1. q \in Request
      BY <1>0 DEF Request, Idle, Ops, Pcs, Replies, Reasons, TypeOK
    <2>2. WellFormed(q)
      BY <1>0, <1>6 DEF WellFormed, Rotating, Idle, TypeOK, Cleanup
    <2>3. Arrive(r, q)
      BY <1>6 DEF Cleanup
    <2> HIDE DEF q
    <2> QED  BY <2>1, <2>2, <2>3, <1>s
  <1> QED  BY <1>1, <1>2, <1>3, <1>4, <1>5, <1>6 DEF Arrivals

\* The handlers' steps that write nothing but their own request.
LEMMA QuietStepType ==
    ASSUME TypeOK, NEW r \in Requests,
           \/ SelectMissing(r) \/ SelectRevoked(r) \/ SelectExpired(r) \/ SelectValid(r)
           \/ RevokeSingle(r) \/ RevokeVanished(r) \/ RollbackExpired(r)
           \/ Match(r) \/ Visit(r) \/ LoseResponse(r) \/ Fail(r) \/ DeadlockVictim(r)
    PROVE  TypeOK'
  <1>0. ConstantsAssumption /\ TypeOK /\ rq[r] \in Request /\ WellFormed(rq[r])
    BY ConstantsAssumption DEF TypeOK
  <1>f. Failed(rq[r]) \in Request /\ WellFormed(Failed(rq[r]))
    <2> DEFINE q == Failed(rq[r])
    <2>2. q \in Request
      BY <1>0 DEF Failed, Idle, Request, Ops, Pcs, Replies, Reasons
    <2>3. WellFormed(q)
      BY <1>0 DEF Failed, Idle, Request, WellFormed, Rotating
    <2> QED  BY <2>2, <2>3
  <1>1. ASSUME SelectMissing(r)
        PROVE  TypeOK'
    <2> DEFINE q == Refused(rq[r], "not_found")
    <2>1. q \in Request
      BY <1>0, <1>1 DEF SelectMissing, Request, Ops, Pcs, Replies, Reasons, TypeOK, Row, Refused, Idle
    <2>2. WellFormed(q)
      BY <1>0, <1>1 DEF SelectMissing, Request, WellFormed, Rotating, TypeOK, Row, Refused, Idle
    <2>3. Step(r, q)
      BY <1>1 DEF SelectMissing
    <2> HIDE DEF q
    <2> QED  BY <2>1, <2>2, <2>3, StepType
  <1>2. ASSUME SelectRevoked(r)
        PROVE  TypeOK'
    <2> DEFINE q == [rq[r] EXCEPT !.pc = "match", !.fam = table[rq[r].tok].family,
                                !.reason = "replay_attack"]
    <2>1. q \in Request
      BY <1>0, <1>2 DEF SelectRevoked, Request, Ops, Pcs, Replies, Reasons, TypeOK, Row, Stored
    <2>2. WellFormed(q)
      BY <1>0, <1>2 DEF SelectRevoked, Request, WellFormed, Rotating, TypeOK, Row, Stored
    <2>3. Step(r, q)
      BY <1>2 DEF SelectRevoked
    <2> HIDE DEF q
    <2> QED  BY <2>1, <2>2, <2>3, StepType
  <1>3. ASSUME SelectExpired(r)
        PROVE  TypeOK'
    <2> DEFINE q == [rq[r] EXCEPT !.pc = "expire", !.reason = "expired"]
    <2>1. q \in Request
      BY <1>0, <1>3 DEF SelectExpired, Request, Ops, Pcs, Replies, Reasons, TypeOK, Row
    <2>2. WellFormed(q)
      BY <1>0, <1>3 DEF SelectExpired, Request, WellFormed, Rotating, TypeOK, Row
    <2>3. Step(r, q)
      BY <1>3 DEF SelectExpired
    <2> HIDE DEF q
    <2> QED  BY <2>1, <2>2, <2>3, StepType
  <1>4. ASSUME SelectValid(r)
        PROVE  TypeOK'
    <2> DEFINE q == [rq[r] EXCEPT !.pc = "revoke", !.fam = table[rq[r].tok].family,
                                !.user = table[rq[r].tok].user, !.reason = "rotated"]
    <2>1. q \in Request
      BY <1>0, <1>4 DEF SelectValid, Request, Ops, Pcs, Replies, Reasons, TypeOK, Row, Stored
    <2>2. WellFormed(q)
      BY <1>0, <1>4 DEF SelectValid, Request, WellFormed, Rotating, TypeOK, Row, Stored
    <2>3. Step(r, q)
      BY <1>4 DEF SelectValid
    <2> HIDE DEF q
    <2> QED  BY <2>1, <2>2, <2>3, StepType
  <1>5. ASSUME RevokeSingle(r)
        PROVE  TypeOK'
    <2> DEFINE pc == IF rq[r].pc = "revoke" THEN "insert" ELSE "rollback"
               q  == [rq[r] EXCEPT !.pc = pc, !.hit = {rq[r].tok}]
    <2>0. rq[r].tok \in Tokens /\ rq[r].op = "refresh"
      BY <1>0, <1>5 DEF RevokeSingle, WellFormed
    <2>p. pc \in {"insert", "rollback"} /\ (pc = "insert" => rq[r].pc = "revoke")
      OBVIOUS
    <2>3. Step(r, q)
      BY <1>5 DEF RevokeSingle
    <2> HIDE DEF pc
    <2>1. q \in Request
      BY <1>0, <2>0, <2>p DEF Request, Pcs
    <2>2. WellFormed(q)
      BY <1>0, <2>0, <2>p DEF Request, WellFormed, Rotating
    <2> HIDE DEF q
    <2> QED  BY <2>1, <2>2, <2>3, StepType
  <1>6. ASSUME RollbackExpired(r)
        PROVE  TypeOK'
    <2> DEFINE q == Refused(rq[r], "expired")
    <2>1. q \in Request
      BY <1>0, <1>6 DEF RollbackExpired, Request, Ops, Pcs, Replies, Reasons, TypeOK, Row, Refused, Idle
    <2>2. WellFormed(q)
      BY <1>0, <1>6 DEF RollbackExpired, Request, WellFormed, Rotating, TypeOK, Row, Refused, Idle
    <2>3. Step(r, q)
      BY <1>6 DEF RollbackExpired
    <2> HIDE DEF q
    <2> QED  BY <2>1, <2>2, <2>3, StepType
  <1>7. ASSUME Match(r)
        PROVE  TypeOK'
    <2> DEFINE matched == {t \in Stored : Where(r, t)}
               q == [rq[r] EXCEPT !.pc = "update", !.cands = matched, !.todo = matched]
    <2>0. matched \subseteq Tokens
      BY <1>0 DEF Stored, TypeOK
    <2>3. Step(r, q)
      BY <1>7 DEF Match
    <2> HIDE DEF matched
    <2>1. q \in Request
      BY <1>0, <2>0 DEF Request, Pcs
    <2>2. WellFormed(q)
      BY <1>0, <1>7 DEF Match, Request, WellFormed, Rotating
    <2> HIDE DEF q
    <2> QED  BY <2>1, <2>2, <2>3, StepType
  <1>8. ASSUME Visit(r)
        PROVE  TypeOK'
    <2> PICK t \in rq[r].todo :
            Step(r, [rq[r] EXCEPT !.todo = @ \ {t},
                                  !.hit  = IF Where(r, t) THEN @ \cup {t} ELSE @])
      BY <1>8 DEF Visit
    <2> DEFINE q == [rq[r] EXCEPT !.todo = @ \ {t},
                                  !.hit  = IF Where(r, t) THEN @ \cup {t} ELSE @]
    <2>1. q \in Request
      BY <1>0 DEF Request
    <2>2. WellFormed(q)
      BY <1>0, <1>8 DEF Visit, Where, Request, WellFormed, Rotating
    <2> HIDE DEF q
    <2> QED  BY <2>1, <2>2, StepType DEF q
  <1>9. ASSUME \/ RevokeVanished(r) \/ Fail(r) \/ DeadlockVictim(r)
        PROVE  TypeOK'
    BY <1>9, <1>f, StepType DEF RevokeVanished, Fail, DeadlockVictim
  <1>10. ASSUME LoseResponse(r)
         PROVE  TypeOK'
    BY <1>10, IdleType, StepType DEF LoseResponse
  <1> QED  BY <1>1, <1>2, <1>3, <1>4, <1>5, <1>6, <1>7, <1>8, <1>9, <1>10

\* A write keeps a row's session, owner, parent and expiry, and never clears revoked
\* or used (_revoke_single, _invalidate_family, revoke_all_user_tokens).
LEMMA WrittenRow ==
    ASSUME TypeOK, NEW r \in Requests, NEW t \in Stored
    PROVE  /\ Written(r, t) \in Row
           /\ Written(r, t).family = table[t].family
           /\ Written(r, t).user = table[t].user
           /\ Written(r, t).parent = table[t].parent
           /\ Written(r, t).expires = table[t].expires
           /\ t \notin rq[r].hit => Written(r, t) = table[t]
           /\ t \in rq[r].hit => Written(r, t).revoked /\ Written(r, t).reason = rq[r].reason
           /\ table[t].revoked => Written(r, t).revoked
           /\ table[t].used => Written(r, t).used
           /\ t \in rq[r].hit /\ rq[r].reason = "rotated" => Written(r, t).used
           /\ rq[r].reason # "rotated" => Written(r, t).used = table[t].used
  <1>1. table[t] \in Row /\ rq[r] \in Request
    BY DEF TypeOK, Stored
  <1>2. CASE t \in rq[r].hit
    BY <1>1, <1>2 DEF Written, Row, Request
  <1>3. CASE t \notin rq[r].hit
    BY <1>1, <1>3 DEF Written, Row, Request
  <1> QED  BY <1>2, <1>3

\* The row of a new token (create_refresh_token).
LEMMA NewRowType ==
    ASSUME TypeOK, NEW r \in Requests, rq[r].pc = "commit"
    PROVE  /\ NewRow(r) \in Row
           /\ rq[r].new \in Tokens
           /\ NewRow(r).family = rq[r].fam /\ NewRow(r).user = rq[r].user
           /\ NewRow(r).parent = rq[r].tok /\ ~NewRow(r).revoked
           /\ NewRow(r).reason = None /\ ~NewRow(r).used
           /\ NewRow(r).expires = rq[r].at + RefreshTTL
  <1>1. rq[r] \in Request /\ WellFormed(rq[r])
    BY DEF TypeOK
  <1>2. rq[r].user \in Users /\ rq[r].fam \in Tokens /\ rq[r].new \in Tokens
    BY <1>1 DEF WellFormed, Rotating
  <1> QED  BY <1>1, <1>2, ConstantsAssumption DEF NewRow, Row, Request

LEMMA CreateType ==
    ASSUME TypeOK, NEW r \in Requests, CreateRefreshToken(r)
    PROVE  TypeOK'
  <1>0. rq[r] \in Request /\ WellFormed(rq[r])
    BY DEF TypeOK
  <1> PICK t \in Tokens \ minted :
          /\ minted' = minted \cup {t}
          /\ rq' = [rq EXCEPT ![r] =
                       [@ EXCEPT !.pc = "commit", !.new = t, !.at = now,
                                 !.fam = IF rq[r].op = "login" THEN t ELSE rq[r].fam]]
    BY DEF CreateRefreshToken
  <1> DEFINE fam == IF rq[r].op = "login" THEN t ELSE rq[r].fam
             q   == [rq[r] EXCEPT !.pc = "commit", !.new = t, !.at = now, !.fam = fam]
  <1>p. /\ rq[r].pc = "insert" /\ rq[r].user \in Users
        /\ rq[r].op # "login" => rq[r].op = "refresh" /\ rq[r].fam \in Tokens
                                /\ rq[r].reason = "rotated"
    BY <1>0 DEF CreateRefreshToken, WellFormed, Rotating
  <1>1. fam \in Tokens
    BY <1>p DEF TypeOK
  <1>2. rq'[r] = q /\ rq' = [rq EXCEPT ![r] = q]
    BY DEF TypeOK
  <1> HIDE DEF fam
  <1>3. q \in Request
    BY <1>0, <1>1 DEF Request, Pcs, TypeOK
  <1>c. /\ q.op = rq[r].op /\ q.user = rq[r].user /\ q.tok = rq[r].tok
        /\ q.hit = rq[r].hit /\ q.reason = rq[r].reason
        /\ q.pc = "commit" /\ q.new = t /\ q.fam = fam
    BY <1>0 DEF Request
  <1> HIDE DEF q
  <1>4. /\ q.op \in {"login", "refresh"}
        /\ q.op = "refresh" => q.tok \in minted \cup {None} /\ q.tok \in Tokens
        /\ q.op = "login" => q.tok = None /\ q.hit = {}
    BY <1>0, <1>p, <1>c DEF WellFormed
  <1>5. ASSUME NEW s \in Requests \ {r}
        PROVE  WellFormed(rq[s])'
    <2>1. rq'[s] = rq[s] /\ WellFormed(rq[s])
      BY <1>2 DEF TypeOK
    <2> QED  BY <2>1 DEF WellFormed, Rotating
  <1>6. rq' \in [Requests -> Request]
    BY <1>2, <1>3 DEF TypeOK
  <1>7. WellFormed(rq[r])'
    BY <1>1, <1>2, <1>4, <1>c, <1>p DEF WellFormed, Rotating, TypeOK
  <1> QED  BY <1>5, <1>6, <1>7 DEF CreateRefreshToken, TypeOK, Delivered

LEMMA CommitMintType ==
    ASSUME TypeOK, NEW r \in Requests, CommitMint(r)
    PROVE  TypeOK'
  <1>0. rq[r] \in Request /\ WellFormed(rq[r]) /\ rq[r].pc = "commit"
    BY DEF TypeOK, CommitMint
  <1>1. NewRow(r) \in Row /\ rq[r].new \in Tokens
    BY <1>0, NewRowType
  <1>2. \A t \in Stored : Written(r, t) \in Row
    BY WrittenRow
  <1>3. /\ DOMAIN table' \subseteq Tokens
        /\ table' = [t \in DOMAIN table' |-> table'[t]]
        /\ \A t \in DOMAIN table' : table'[t] \in Row
    BY <1>1, <1>2 DEF CommitMint, Stored, TypeOK
  <1> DEFINE q == [rq[r] EXCEPT !.pc = "reply", !.hit = {}, !.reply = "ok"]
  <1>4. q \in Request
    BY <1>0 DEF Request, Pcs, Replies
  <1>5. WellFormed(q)
    BY <1>0 DEF Request, WellFormed, Rotating
  <1>6. rq' = [rq EXCEPT ![r] = q]
    BY DEF CommitMint
  <1> HIDE DEF q
  <1>7. rq' \in [Requests -> Request] /\ \A s \in Requests : WellFormed(rq[s])'
    BY <1>4, <1>5, <1>6 DEF TypeOK, CommitMint, WellFormed, Rotating
  <1> QED  BY <1>3, <1>7 DEF TypeOK, CommitMint, Delivered

LEMMA CommitBulkType ==
    ASSUME TypeOK, NEW r \in Requests, CommitBulk(r)
    PROVE  TypeOK'
  <1>0. rq[r] \in Request /\ WellFormed(rq[r]) /\ rq[r].pc = "update"
    BY DEF TypeOK, CommitBulk
  <1>2. \A t \in Stored : Written(r, t) \in Row
    BY WrittenRow
  <1>3. /\ DOMAIN table' \subseteq Tokens
        /\ table' = [t \in DOMAIN table' |-> table'[t]]
        /\ \A t \in DOMAIN table' : table'[t] \in Row
    <2>1. CASE rq[r].op = "cleanup"
      BY <2>1 DEF CommitBulk, Stored, TypeOK
    <2>2. CASE rq[r].op # "cleanup"
      BY <1>2, <2>2 DEF CommitBulk, Stored, TypeOK
    <2> QED  BY <2>1, <2>2
  <1> DEFINE cands == IF rq[r].op = "cleanup" THEN {} ELSE rq[r].cands
             reply == IF rq[r].op = "refresh" THEN "replay" ELSE "ok"
             q == [rq[r] EXCEPT !.pc = "reply", !.hit = {}, !.at = 0, !.cands = cands,
                                !.reply = reply]
  <1>a. cands \in SUBSET Tokens /\ reply \in Replies
    BY <1>0 DEF Request, Replies
  <1>6. rq' = [rq EXCEPT ![r] = q]
    BY <1>0 DEF CommitBulk, Request
  <1> HIDE DEF cands, reply
  <1>4. q \in Request
    BY <1>0, <1>a DEF Request, Pcs
  <1>5. WellFormed(q)
    BY <1>0, <1>a DEF Request, WellFormed, Rotating
  <1> HIDE DEF q
  <1>7. rq' \in [Requests -> Request] /\ \A s \in Requests : WellFormed(rq[s])'
    BY <1>4, <1>5, <1>6 DEF TypeOK, CommitBulk, WellFormed, Rotating
  <1> QED  BY <1>3, <1>7 DEF TypeOK, CommitBulk, Delivered

LEMMA DeliverType ==
    ASSUME TypeOK, NEW r \in Requests, rq[r].new # None, Deliver(r),
           rq' \in [Requests -> Request], \A s \in Requests : WellFormed(rq'[s])
    PROVE  TypeOK'
  <1>1. /\ rq[r] \in Request /\ rq[r].user \in Users /\ rq[r].new \in minted
        /\ rq[r].at + RefreshTTL \in Nat
    BY ConstantsAssumption DEF TypeOK, WellFormed, Request
  <1>2. accessUntil' \in [Users -> Nat]
    BY <1>1, ConstantsAssumption DEF Deliver, TypeOK, Request
  <1>3. \A s \in Requests : WellFormed(rq[s])'
    BY DEF Deliver, WellFormed, Rotating
  <1>4. Delivered' \subseteq minted' /\ delivered' \in [Delivered' -> Nat]
    BY <1>1 DEF Deliver, Delivered, TypeOK
  <1> QED  BY <1>1, <1>2, <1>3, <1>4 DEF Deliver, TypeOK

LEMMA RespondType ==
    ASSUME TypeOK, NEW r \in Requests, Respond(r)
    PROVE  TypeOK'
  <1>1. rq' \in [Requests -> Request] /\ \A s \in Requests : WellFormed(rq'[s])
    BY IdleType DEF Respond, TypeOK
  <1>2. CASE rq[r].new # None /\ ~ResponseFirst
    BY <1>1, <1>2, DeliverType DEF Respond
  <1>3. CASE ~(rq[r].new # None /\ ~ResponseFirst)
    <2>1. \A s \in Requests : WellFormed(rq[s])'
      BY <1>1, <1>3 DEF Respond, WellFormed, Rotating
    <2> QED  BY <1>1, <1>3, <2>1 DEF Respond, TypeOK, Delivered
  <1> QED  BY <1>2, <1>3

\* An answer before the commit changes nothing of a request but its reply.
LEMMA Answered ==
    ASSUME TypeOK, NEW r \in Requests, RespondBeforeCommit(r)
    PROVE  /\ rq'[r] \in Request /\ rq'[r].reply = "ok"
           /\ rq'[r].op = rq[r].op /\ rq'[r].pc = rq[r].pc /\ rq'[r].user = rq[r].user
           /\ rq'[r].tok = rq[r].tok /\ rq'[r].fam = rq[r].fam
           /\ rq'[r].reason = rq[r].reason /\ rq'[r].at = rq[r].at
           /\ rq'[r].cands = rq[r].cands /\ rq'[r].todo = rq[r].todo
           /\ rq'[r].hit = rq[r].hit /\ rq'[r].new = rq[r].new
           /\ \A s \in Requests \ {r} : rq'[s] = rq[s]
           /\ rq' = [rq EXCEPT ![r] = rq'[r]]
           /\ UNCHANGED <<table, minted, now>>
           /\ rq[r].pc \in {"commit", "update"} /\ ResponseFirst
  <1> DEFINE q == [rq[r] EXCEPT !.reply = "ok"]
  <1>1. rq[r] \in Request /\ rq' = [rq EXCEPT ![r] = q] /\ Returned(rq[r]) /\ ResponseFirst
    BY DEF RespondBeforeCommit, TypeOK
  <1>2. /\ q \in Request /\ q.reply = "ok"
        /\ q.op = rq[r].op /\ q.pc = rq[r].pc /\ q.user = rq[r].user
        /\ q.tok = rq[r].tok /\ q.fam = rq[r].fam /\ q.reason = rq[r].reason
        /\ q.at = rq[r].at /\ q.cands = rq[r].cands /\ q.todo = rq[r].todo
        /\ q.hit = rq[r].hit /\ q.new = rq[r].new
    BY <1>1 DEF Request, Replies
  <1> HIDE DEF q
  <1>3. /\ rq'[r] = q /\ \A s \in Requests \ {r} : rq'[s] = rq[s]
        /\ rq' = [rq EXCEPT ![r] = rq'[r]]
    BY <1>1 DEF TypeOK
  <1>4. UNCHANGED <<table, minted, now>>
    BY DEF RespondBeforeCommit, Deliver
  <1> QED  BY <1>1, <1>2, <1>3, <1>4 DEF Returned

LEMMA EarlyResponseType ==
    ASSUME TypeOK, NEW r \in Requests, RespondBeforeCommit(r)
    PROVE  TypeOK'
  <1> DEFINE q == rq'[r]
  <1>1. WellFormed(rq[r]) /\ rq' = [rq EXCEPT ![r] = q] /\ q \in Request
    BY Answered DEF TypeOK
  <1>2. WellFormed(q)
    BY <1>1, Answered DEF WellFormed, Rotating
  <1> HIDE DEF q
  <1>3. CASE rq[r].new # None
    <2>1. rq' \in [Requests -> Request] /\ \A s \in Requests : WellFormed(rq'[s])
      BY <1>1, <1>2 DEF TypeOK
    <2> QED  BY <1>3, <2>1, DeliverType DEF RespondBeforeCommit
  <1>4. CASE rq[r].new = None
    <2>1. Step(r, q)
      BY <1>1, <1>4 DEF RespondBeforeCommit, Step
    <2> QED  BY <1>1, <1>2, <2>1, StepType
  <1> QED  BY <1>3, <1>4

LEMMA CrashType == TypeOK /\ Crash => TypeOK'
  <1> SUFFICES ASSUME TypeOK, Crash PROVE TypeOK'
    OBVIOUS
  <1>1. rq' \in [Requests -> Request] /\ \A s \in Requests : WellFormed(rq'[s])
    BY IdleType DEF Crash
  <1>2. \A s \in Requests : WellFormed(rq[s])'
    BY <1>1 DEF Crash, WellFormed, Rotating
  <1> QED  BY <1>1, <1>2 DEF Crash, TypeOK, Delivered

LEMMA TickType == TypeOK /\ Tick => TypeOK'
  <1> SUFFICES ASSUME TypeOK, Tick PROVE TypeOK'
    OBVIOUS
  <1>1. \A s \in Requests : WellFormed(rq[s])'
    BY DEF Tick, TypeOK, WellFormed, Rotating
  <1> QED  BY <1>1 DEF Tick, TypeOK, Delivered

\* One case per action of the specification.
LEMMA NextCases ==
    ASSUME Next
    PROVE  \/ \E r \in Requests : Arrivals(r)
           \/ \E r \in Requests :
                 \/ SelectMissing(r) \/ SelectRevoked(r) \/ SelectExpired(r) \/ SelectValid(r)
                 \/ RevokeSingle(r) \/ RevokeVanished(r) \/ RollbackExpired(r)
                 \/ Match(r) \/ Visit(r) \/ LoseResponse(r) \/ Fail(r) \/ DeadlockVictim(r)
           \/ \E r \in Requests : CreateRefreshToken(r)
           \/ \E r \in Requests : CommitMint(r)
           \/ \E r \in Requests : CommitBulk(r)
           \/ \E r \in Requests : Respond(r)
           \/ \E r \in Requests : RespondBeforeCommit(r)
           \/ Crash
           \/ Tick
  BY Zenon DEF Next, Progress, Faults

LEMMA NextType ==
    ASSUME TypeOK, [Next]_vars
    PROVE  TypeOK'
  <1>1. CASE Next
    BY <1>1, NextCases, ArrivalType, QuietStepType, CreateType, CommitMintType,
       CommitBulkType, RespondType, EarlyResponseType, CrashType, TickType
  <1>2. CASE UNCHANGED vars
    <2>1. \A s \in Requests : WellFormed(rq[s])'
      BY <1>2 DEF vars, TypeOK, WellFormed, Rotating
    <2> QED  BY <1>2, <2>1 DEF vars, TypeOK, Delivered
  <1> QED  BY <1>1, <1>2

\* The variables have their types in every state, and every request has read what it
\* needs before it uses it, for any numbers of tokens, users and concurrent requests.
THEOREM TypeCorrect == Spec => []TypeOK
  BY InitType, NextType, PTL DEF Spec

-----------------------------------------------------------------------------
(***************************************************************************)
(* The inductive invariant.  Sound says what a request may rely on about   *)
(* the table, Apart what two requests in progress cannot share, TableSound *)
(* what the rows say together.  SessionChain, AuditTrail and               *)
(* StatementCovers are parts of it or follow from it.                      *)
(***************************************************************************)

\* The part of an UPDATE's WHERE clause that no commit can change.
Target(q, t) ==
    /\ q.op = "refresh"    => table[t].family = q.fam
    /\ q.op = "logout"     => table[t].user = q.user /\ t = q.tok
    /\ q.op = "logout_all" => table[t].user = q.user

Gone(t) == t \in Stored => table[t].revoked

Sound(q) ==
    /\ q.hit \subseteq Stored
    /\ q.cands \subseteq minted
    /\ q.at <= now
    /\ q.pc \notin {"update", "insert", "commit", "rollback"} => q.hit = {}
    /\ q.pc \notin {"update", "reply"} => q.cands = {}
    /\ q.op = "refresh" /\ q.pc \in {"insert", "commit"} => q.hit = {q.tok}
    /\ Rotating(q) /\ q.tok \in Stored =>
          table[q.tok].family = q.fam /\ table[q.tok].user = q.user
    /\ Rotating(q) => q.tok \in minted
    /\ Rotating(q) /\ q.pc = "commit" => table[q.tok].expires <= q.at + RefreshTTL
    /\ q.pc \in {"match", "update"} =>
          \/ q.op = "cleanup"
          \/ q.op = "refresh" /\ q.reason = "replay_attack"
          \/ q.op \in {"logout", "logout_all"} /\ q.reason = "logout"
    /\ q.pc = "update" => q.todo \subseteq q.cands
    /\ q.pc = "update" /\ q.op = "cleanup" => \A t \in q.hit : table[t].expires < q.at
    /\ q.pc = "update" /\ q.op # "cleanup" =>
          /\ \A t \in q.hit : ~table[t].revoked /\ Target(q, t)
          /\ \A t \in q.cands : t \in Stored => Target(q, t)
          /\ \A t \in q.cands : t \in q.todo \cup q.hit \/ Gone(t)
    /\ q.pc = "reply" /\ q.op # "cleanup" => \A t \in q.cands : Gone(t)
    /\ q.pc = "commit" => q.new \notin Stored /\ \A c \in Stored : table[c].parent # q.new

Apart(p, q) ==
    /\ p.hit \cap q.hit = {}
    /\ q.pc = "commit" =>
          /\ q.new \notin p.cands
          /\ Rotating(p) => p.tok # q.new
          /\ p.pc = "commit" => p.new # q.new

TableSound ==
    /\ Stored \subseteq minted
    /\ \A t \in Stored : table[t].parent \in minted \cup {None}
    /\ \A t \in Stored : table[t].expires <= now + RefreshTTL
    /\ SessionChain
    /\ AuditTrail

IInv ==
    /\ TypeOK
    /\ TableSound
    /\ \A r \in Requests : Sound(rq[r])
    /\ \A r, s \in Requests : r # s => Apart(rq[r], rq[s])

LEMMA IdleSound ==
    ASSUME TypeOK
    PROVE  Sound(Idle) /\ \A r \in Requests : Apart(Idle, rq[r]) /\ Apart(rq[r], Idle)
  <1>1. Sound(Idle)
    BY DEF Sound, Idle, TypeOK, Rotating
  <1>2. ASSUME NEW r \in Requests
        PROVE  Apart(Idle, rq[r]) /\ Apart(rq[r], Idle)
    BY DEF Apart, Idle, Rotating
  <1> QED  BY <1>1, <1>2

\* A step of one request that leaves the table alone, and keeps the request sound
\* and apart from the others, keeps the invariant.
LEMMA StepSound ==
    ASSUME IInv, TypeOK', NEW r \in Requests, NEW q,
           Sound(q),
           \A s \in Requests \ {r} : Apart(q, rq[s]) /\ Apart(rq[s], q),
           rq' = [rq EXCEPT ![r] = q],
           UNCHANGED <<table, minted, now>>
    PROVE  IInv'
  <1>0. rq'[r] = q /\ \A s \in Requests \ {r} : rq'[s] = rq[s]
    BY DEF IInv, TypeOK
  <1>1. TableSound'
    BY DEF IInv, TableSound, SessionChain, AuditTrail, Stored
  <1>2. ASSUME NEW s \in Requests
        PROVE  Sound(rq[s])'
    <2>1. Sound(rq'[s])
      BY <1>0 DEF IInv
    <2> QED  BY <2>1 DEF Sound, Rotating, Stored, Target, Gone
  <1>3. ASSUME NEW s1 \in Requests, NEW s2 \in Requests, s1 # s2
        PROVE  Apart(rq[s1], rq[s2])'
    <2>1. Apart(rq'[s1], rq'[s2])
      BY <1>0, <1>3 DEF IInv
    <2> QED  BY <2>1 DEF Apart, Rotating
  <1> QED  BY <1>1, <1>2, <1>3 DEF IInv

\* A request that holds no lock, has matched no row and rotates nothing is sound and
\* apart from every other.
LEMMA HarmlessSound ==
    ASSUME TypeOK, NEW q,
           q.hit = {}, q.cands = {}, q.at <= now, q.pc \notin {"update", "commit"},
           ~Rotating(q),
           q.pc = "match" => \/ q.op = "cleanup"
                             \/ q.op = "refresh" /\ q.reason = "replay_attack"
                             \/ q.op \in {"logout", "logout_all"} /\ q.reason = "logout"
    PROVE  Sound(q) /\ \A s \in Requests : Apart(q, rq[s]) /\ Apart(rq[s], q)
  <1>1. Sound(q)
    BY DEF Sound, Rotating
  <1>2. \A s \in Requests : Apart(q, rq[s]) /\ Apart(rq[s], q)
    BY DEF Apart
  <1> QED  BY <1>1, <1>2

LEMMA ArrivalSound ==
    ASSUME IInv, TypeOK', NEW r \in Requests, Arrivals(r)
    PROVE  IInv'
  <1>0. TypeOK /\ ConstantsAssumption /\ now \in Nat
    BY ConstantsAssumption DEF IInv, TypeOK
  <1>s. ASSUME NEW q, q.hit = {}, q.cands = {}, q.at <= now, q.pc \notin {"update", "commit"},
               ~Rotating(q),
               q.pc = "match" => \/ q.op = "cleanup"
                                 \/ q.op \in {"logout", "logout_all"} /\ q.reason = "logout",
               Arrive(r, q)
        PROVE  IInv'
    <2>1. Sound(q) /\ \A s \in Requests : Apart(q, rq[s]) /\ Apart(rq[s], q)
      BY <1>s, <1>0, HarmlessSound
    <2> QED  BY <2>1, <1>s, StepSound DEF Arrive
  <1> USE DEF Idle, Rotating
  <1>1. ASSUME NEW u \in Users, Login(r, u)
        PROVE  IInv'
    <2> DEFINE q == [Idle EXCEPT !.op = "login", !.pc = "insert", !.user = u]
    <2>1. q.hit = {} /\ q.cands = {} /\ q.at <= now /\ q.pc = "insert" /\ q.op = "login"
      BY <1>0
    <2>2. Arrive(r, q)
      BY <1>1 DEF Login
    <2> HIDE DEF q
    <2> QED  BY <2>1, <2>2, <1>s
  <1>2. ASSUME NEW t \in Tokens, Refresh(r, t)
        PROVE  IInv'
    <2> DEFINE q == [Idle EXCEPT !.op = "refresh", !.pc = "select", !.tok = t]
    <2>1. q.hit = {} /\ q.cands = {} /\ q.at <= now /\ q.pc = "select"
      BY <1>0
    <2>2. Arrive(r, q)
      BY <1>2 DEF Refresh
    <2> HIDE DEF q
    <2> QED  BY <2>1, <2>2, <1>s
  <1>3. ASSUME NEW u \in Users, NEW t \in Tokens, Logout(r, u, t)
        PROVE  IInv'
    <2> DEFINE q == [Idle EXCEPT !.op = "logout", !.pc = "match", !.user = u,
                              !.tok = t, !.reason = "logout"]
    <2>1. /\ q.hit = {} /\ q.cands = {} /\ q.at <= now /\ q.pc = "match"
          /\ q.op = "logout" /\ q.reason = "logout"
      BY <1>0
    <2>2. Arrive(r, q)
      BY <1>3 DEF Logout
    <2> HIDE DEF q
    <2> QED  BY <2>1, <2>2, <1>s
  <1>4. ASSUME NEW u \in Users, LogoutAll(r, u)
        PROVE  IInv'
    <2> DEFINE q == [Idle EXCEPT !.op = "logout_all", !.pc = "match", !.user = u,
                              !.reason = "logout"]
    <2>1. /\ q.hit = {} /\ q.cands = {} /\ q.at <= now /\ q.pc = "match"
          /\ q.op = "logout_all" /\ q.reason = "logout"
      BY <1>0
    <2>2. Arrive(r, q)
      BY <1>4 DEF LogoutAll
    <2> HIDE DEF q
    <2> QED  BY <2>1, <2>2, <1>s
  <1>5. ASSUME NEW u \in Users, LogoutOmitted(r, u)
        PROVE  IInv'
    <2> DEFINE q == [Idle EXCEPT !.op = "logout_omitted", !.pc = "reply", !.user = u,
                              !.reply = "unprocessable"]
    <2>1. q.hit = {} /\ q.cands = {} /\ q.at <= now /\ q.pc = "reply"
      BY <1>0
    <2>2. Arrive(r, q)
      BY <1>5 DEF LogoutOmitted
    <2> HIDE DEF q
    <2> QED  BY <2>1, <2>2, <1>s
  <1>6. ASSUME Cleanup(r)
        PROVE  IInv'
    <2> DEFINE q == [Idle EXCEPT !.op = "cleanup", !.pc = "match", !.at = now]
    <2>1. q.hit = {} /\ q.cands = {} /\ q.at <= now /\ q.pc = "match" /\ q.op = "cleanup"
      BY <1>0
    <2>2. Arrive(r, q)
      BY <1>6 DEF Cleanup
    <2> HIDE DEF q
    <2> QED  BY <2>1, <2>2, <1>s
  <1> HIDE DEF Idle, Rotating
  <1> QED  BY <1>1, <1>2, <1>3, <1>4, <1>5, <1>6 DEF Arrivals

\* The steps that end a transaction without a commit, or read a row and then hold
\* nothing of it.
LEMMA HarmlessStepSound ==
    ASSUME IInv, TypeOK', NEW r \in Requests,
           \/ SelectMissing(r) \/ SelectRevoked(r) \/ SelectExpired(r)
           \/ RevokeVanished(r) \/ RollbackExpired(r)
           \/ LoseResponse(r) \/ Fail(r) \/ DeadlockVictim(r)
    PROVE  IInv'
  <1>0. /\ TypeOK /\ now \in Nat /\ rq[r] \in Request /\ WellFormed(rq[r])
        /\ Sound(rq[r])
    BY DEF IInv, TypeOK
  <1>s. ASSUME NEW q, q.hit = {}, q.cands = {}, q.at <= now, q.pc \notin {"update", "commit"},
               ~Rotating(q),
               q.pc = "match" => q.op = "refresh" /\ q.reason = "replay_attack",
               Step(r, q)
        PROVE  IInv'
    <2>1. Sound(q) /\ \A s \in Requests : Apart(q, rq[s]) /\ Apart(rq[s], q)
      BY <1>s, <1>0, HarmlessSound
    <2> QED  BY <2>1, <1>s, StepSound DEF Step
  <1>1. ASSUME SelectMissing(r) \/ RollbackExpired(r)
        PROVE  IInv'
    <2> PICK answer \in Replies : Step(r, Refused(rq[r], answer))
      BY <1>1 DEF SelectMissing, RollbackExpired, Replies
    <2> DEFINE q == Refused(rq[r], answer)
    <2>1. q.hit = {} /\ q.cands = {} /\ q.at <= now /\ q.pc = "reply"
      BY <1>0 DEF Refused, Idle
    <2>2. Step(r, q)
      OBVIOUS
    <2> HIDE DEF q
    <2> QED  BY <2>1, <2>2, <1>s DEF Rotating
  <1>2. ASSUME SelectRevoked(r)
        PROVE  IInv'
    <2> DEFINE q == [rq[r] EXCEPT !.pc = "match", !.fam = table[rq[r].tok].family,
                                  !.reason = "replay_attack"]
    <2>1. /\ q.hit = {} /\ q.cands = {} /\ q.at <= now /\ q.pc = "match"
          /\ q.op = "refresh" /\ q.reason = "replay_attack"
      BY <1>0, <1>2 DEF SelectRevoked, Sound, WellFormed, Request
    <2>2. Step(r, q)
      BY <1>2 DEF SelectRevoked
    <2> HIDE DEF q
    <2> QED  BY <2>1, <2>2, <1>s DEF Rotating
  <1>3. ASSUME SelectExpired(r)
        PROVE  IInv'
    <2> DEFINE q == [rq[r] EXCEPT !.pc = "expire", !.reason = "expired"]
    <2>1. q.hit = {} /\ q.cands = {} /\ q.at <= now /\ q.pc = "expire"
      BY <1>0, <1>3 DEF SelectExpired, Sound, Request
    <2>2. Step(r, q)
      BY <1>3 DEF SelectExpired
    <2> HIDE DEF q
    <2> QED  BY <2>1, <2>2, <1>s DEF Rotating
  <1>4. ASSUME RevokeVanished(r) \/ Fail(r) \/ DeadlockVictim(r)
        PROVE  IInv'
    <2> DEFINE q == Failed(rq[r])
    <2>1. q.hit = {} /\ q.cands = {} /\ q.at <= now /\ q.pc = "reply"
      BY <1>0 DEF Failed, Idle
    <2>2. Step(r, q)
      BY <1>4 DEF RevokeVanished, Fail, DeadlockVictim
    <2> HIDE DEF q
    <2> QED  BY <2>1, <2>2, <1>s DEF Rotating
  <1>5. ASSUME LoseResponse(r)
        PROVE  IInv'
    <2>1. Idle.hit = {} /\ Idle.cands = {} /\ Idle.at <= now /\ Idle.pc = "idle"
      BY <1>0 DEF Idle
    <2>2. Step(r, Idle)
      BY <1>5 DEF LoseResponse
    <2> QED  BY <2>1, <2>2, <1>s DEF Rotating
  <1> QED  BY <1>1, <1>2, <1>3, <1>4, <1>5

\* Reading a valid row: it is the request's own copy of what is stored.
LEMMA SelectValidSound ==
    ASSUME IInv, TypeOK', NEW r \in Requests, SelectValid(r)
    PROVE  IInv'
  <1>0. /\ TypeOK /\ rq[r] \in Request /\ WellFormed(rq[r]) /\ Sound(rq[r]) /\ TableSound
        /\ rq[r].pc = "select" /\ rq[r].tok \in Stored
    BY DEF IInv, TypeOK, SelectValid
  <1> DEFINE q == [rq[r] EXCEPT !.pc = "revoke", !.fam = table[rq[r].tok].family,
                                !.user = table[rq[r].tok].user, !.reason = "rotated"]
  <1>1. /\ q.pc = "revoke" /\ q.op = rq[r].op /\ q.tok = rq[r].tok /\ q.hit = rq[r].hit
        /\ q.cands = rq[r].cands /\ q.at = rq[r].at
        /\ q.fam = table[rq[r].tok].family /\ q.user = table[rq[r].tok].user
    BY <1>0 DEF Request
  <1>2. Step(r, q)
    BY DEF SelectValid
  <1> HIDE DEF q
  <1>3. Sound(q)
    BY <1>0, <1>1 DEF Sound, TableSound, Rotating
  <1>4. ASSUME NEW s \in Requests \ {r}
        PROVE  Apart(q, rq[s]) /\ Apart(rq[s], q)
    <2>1. Sound(rq[s])
      BY DEF IInv
    <2> QED  BY <1>0, <1>1, <2>1 DEF Sound, Apart
  <1> QED  BY <1>2, <1>3, <1>4, StepSound DEF Step

\* Taking the row lock: nobody else holds it.
LEMMA RevokeSingleSound ==
    ASSUME IInv, TypeOK', NEW r \in Requests, RevokeSingle(r)
    PROVE  IInv'
  <1>0. /\ TypeOK /\ rq[r] \in Request /\ WellFormed(rq[r]) /\ Sound(rq[r])
        /\ rq[r].pc \in {"revoke", "expire"} /\ rq[r].op = "refresh"
        /\ rq[r].tok \in Stored /\ ~LockedByOther(r, rq[r].tok)
    BY DEF IInv, TypeOK, RevokeSingle, WellFormed
  <1> DEFINE pc == IF rq[r].pc = "revoke" THEN "insert" ELSE "rollback"
             q  == [rq[r] EXCEPT !.pc = pc, !.hit = {rq[r].tok}]
  <1>p. pc \in {"insert", "rollback"} /\ (pc = "insert" => rq[r].pc = "revoke")
    OBVIOUS
  <1>2. Step(r, q)
    BY DEF RevokeSingle
  <1> HIDE DEF pc
  <1>1. /\ q.pc = pc /\ q.op = rq[r].op /\ q.tok = rq[r].tok /\ q.hit = {rq[r].tok}
        /\ q.cands = rq[r].cands /\ q.at = rq[r].at
        /\ q.fam = rq[r].fam /\ q.user = rq[r].user
    BY <1>0 DEF Request
  <1> HIDE DEF q
  <1>3. Sound(q)
    BY <1>0, <1>1, <1>p DEF Sound, Rotating
  <1>4. ASSUME NEW s \in Requests \ {r}
        PROVE  Apart(q, rq[s]) /\ Apart(rq[s], q)
    <2>1. Apart(rq[r], rq[s]) /\ rq[r].tok \notin rq[s].hit
      BY <1>0 DEF IInv, LockedByOther
    <2> QED  BY <1>0, <1>1, <1>p, <2>1 DEF Apart, Rotating
  <1> QED  BY <1>2, <1>3, <1>4, StepSound DEF Step

\* A statement's snapshot: every row it matched is a target, and none is written yet.
LEMMA MatchSound ==
    ASSUME IInv, TypeOK', NEW r \in Requests, Match(r)
    PROVE  IInv'
  <1>0. /\ TypeOK /\ rq[r] \in Request /\ WellFormed(rq[r]) /\ Sound(rq[r]) /\ TableSound
        /\ rq[r].pc = "match"
    BY DEF IInv, TypeOK, Match
  <1> DEFINE matched == {t \in Stored : Where(r, t)}
             q == [rq[r] EXCEPT !.pc = "update", !.cands = matched, !.todo = matched]
  <1>2. Step(r, q)
    BY DEF Match
  <1>m. matched \subseteq Stored /\ (rq[r].op # "cleanup" => \A t \in matched : Target(rq[r], t))
    BY <1>0 DEF Where, Target, Request
  <1> HIDE DEF matched
  <1>1. /\ q.pc = "update" /\ q.op = rq[r].op /\ q.tok = rq[r].tok /\ q.hit = {}
        /\ q.cands = matched /\ q.todo = matched /\ q.at = rq[r].at
        /\ q.fam = rq[r].fam /\ q.user = rq[r].user /\ q.reason = rq[r].reason
    BY <1>0 DEF Request, Sound
  <1> HIDE DEF q
  <1>3. Sound(q)
    BY <1>0, <1>1, <1>m DEF Sound, TableSound, Rotating, Target
  <1>4. ASSUME NEW s \in Requests \ {r}
        PROVE  Apart(q, rq[s]) /\ Apart(rq[s], q)
    <2>1. Sound(rq[s])
      BY DEF IInv
    <2> QED  BY <1>1, <1>m, <2>1 DEF Apart, Sound, Rotating
  <1> QED  BY <1>2, <1>3, <1>4, StepSound DEF Step

\* One row of the statement: written if it still matches; if it does not, it is
\* revoked or gone, since the rest of the WHERE clause cannot change.
LEMMA VisitSound ==
    ASSUME IInv, TypeOK', NEW r \in Requests, Visit(r)
    PROVE  IInv'
  <1>0. /\ TypeOK /\ rq[r] \in Request /\ WellFormed(rq[r]) /\ Sound(rq[r])
        /\ rq[r].pc = "update"
    BY DEF IInv, TypeOK, Visit
  <1> PICK t \in rq[r].todo :
          /\ ~LockedByOther(r, t)
          /\ Step(r, [rq[r] EXCEPT !.todo = @ \ {t},
                                   !.hit  = IF Where(r, t) THEN @ \cup {t} ELSE @])
    BY DEF Visit
  <1> DEFINE hit == IF Where(r, t) THEN rq[r].hit \cup {t} ELSE rq[r].hit
             q == [rq[r] EXCEPT !.todo = rq[r].todo \ {t}, !.hit = hit]
  <1>2. Step(r, q)
    BY <1>0 DEF Request
  <1>h. /\ hit \subseteq rq[r].hit \cup {t} /\ rq[r].hit \subseteq hit
        /\ t \in hit => t \in rq[r].hit \/ Where(r, t)
        /\ t \notin hit => ~Where(r, t)
    OBVIOUS
  <1> HIDE DEF hit
  <1>1. /\ q.pc = "update" /\ q.op = rq[r].op /\ q.tok = rq[r].tok /\ q.hit = hit
        /\ q.cands = rq[r].cands /\ q.todo = rq[r].todo \ {t} /\ q.at = rq[r].at
        /\ q.fam = rq[r].fam /\ q.user = rq[r].user /\ q.reason = rq[r].reason
    BY <1>0 DEF Request
  <1> HIDE DEF q
  <1>w. Where(r, t) => /\ t \in Stored
                       /\ rq[r].op = "cleanup" => table[t].expires < rq[r].at
                       /\ rq[r].op # "cleanup" => ~table[t].revoked /\ Target(rq[r], t)
    BY <1>0 DEF Where, Target
  <1>n. rq[r].op # "cleanup" /\ ~Where(r, t) => Gone(t)
    BY <1>0 DEF Sound, Where, Target, Gone
  <1>3. Sound(q)
    <2>1. q.hit \subseteq Stored
      BY <1>0, <1>1, <1>h, <1>w DEF Sound
    <2>2. q.op = "cleanup" => \A u \in q.hit : table[u].expires < q.at
      BY <1>0, <1>1, <1>h, <1>w DEF Sound
    <2>3. q.op # "cleanup" =>
             /\ \A u \in q.hit : ~table[u].revoked /\ Target(q, u)
             /\ \A u \in q.cands : u \in Stored => Target(q, u)
      BY <1>0, <1>1, <1>h, <1>w DEF Sound, Target
    <2>4. q.op # "cleanup" => \A u \in q.cands : u \in q.todo \cup q.hit \/ Gone(u)
      BY <1>0, <1>1, <1>h, <1>n DEF Sound
    <2> QED  BY <1>0, <1>1, <2>1, <2>2, <2>3, <2>4 DEF Sound, Rotating
  <1>4. ASSUME NEW s \in Requests \ {r}
        PROVE  Apart(q, rq[s]) /\ Apart(rq[s], q)
    <2>1. Apart(rq[r], rq[s]) /\ t \notin rq[s].hit
      BY DEF IInv, LockedByOther
    <2> QED  BY <1>0, <1>1, <1>h, <2>1 DEF Apart, Rotating
  <1> QED  BY <1>2, <1>3, <1>4, StepSound DEF Step

\* What a commit leaves of the rows: it adds at most the token n, removes none that r
\* holds the lock of, changes none that r has locked, and revokes but never restores.
Commits(s, n) ==
    /\ \A t \in Stored' \ Stored : t = n
    /\ \A t \in Stored \cap Stored' :
          /\ table'[t].family = table[t].family /\ table'[t].user = table[t].user
          /\ table'[t].parent = table[t].parent /\ table'[t].expires = table[t].expires
          /\ table[t].revoked => table'[t].revoked
    /\ \A t \in rq[s].hit : t \in Stored' /\ table'[t].revoked = table[t].revoked

\* Another request's commit leaves a request in progress sound: what it has read of
\* its rows still holds, or the row is gone.
LEMMA OthersSound ==
    ASSUME IInv, NEW s \in Requests, NEW n, Commits(s, n),
           n \notin rq[s].cands,
           Rotating(rq[s]) => rq[s].tok # n,
           rq[s].pc = "commit" => rq[s].new # n,
           n \in Stored' => table'[n].parent = None \/ rq[s].pc # "commit"
                                \/ table'[n].parent # rq[s].new,
           rq'[s] = rq[s], minted \subseteq minted', now' = now
    PROVE  Sound(rq[s])'
  <1> DEFINE q == rq[s]
  <1>0. Sound(q) /\ TypeOK /\ q \in Request /\ WellFormed(q)
    BY DEF IInv, TypeOK
  <1>1. /\ rq'[s].hit \subseteq Stored'
        /\ \A t \in q.hit : t \in Stored /\ t \in Stored'
    BY <1>0 DEF Commits, Sound
  <1>2. Rotating(q) /\ q.tok \in Stored' =>
           q.tok \in Stored /\ table'[q.tok].family = q.fam /\ table'[q.tok].user = q.user
    BY <1>0 DEF Commits, Sound
  <1>3. Rotating(q) /\ q.pc = "commit" => table'[q.tok].expires <= q.at + RefreshTTL
    BY <1>0, <1>1 DEF Commits, Sound, Rotating
  <1>4. q.pc = "update" /\ q.op = "cleanup" => \A t \in q.hit : table'[t].expires < q.at
    BY <1>0, <1>1 DEF Commits, Sound
  <1>5. ASSUME q.pc = "update", q.op # "cleanup"
        PROVE  /\ \A t \in q.hit : ~table'[t].revoked /\ Target(q, t)'
               /\ \A t \in q.cands : t \in Stored' => Target(q, t)'
               /\ \A t \in q.cands : t \in q.todo \cup q.hit \/ Gone(t)'
    <2>1. \A t \in q.hit : ~table'[t].revoked
      BY <1>0, <1>1, <1>5 DEF Commits, Sound
    <2>2. \A t \in Stored \cap Stored' : Target(q, t) => Target(q, t)'
      BY DEF Commits, Target
    <2>3. \A t \in q.cands : t \in Stored' => t \in Stored
      BY DEF Commits
    <2>4. \A t \in q.cands : Gone(t) => Gone(t)'
      BY <2>3 DEF Commits, Gone
    <2> QED  BY <1>0, <1>1, <1>5, <2>1, <2>2, <2>3, <2>4 DEF Sound
  <1>6. q.pc = "reply" /\ q.op # "cleanup" => \A t \in q.cands : Gone(t)'
    <2>1. \A t \in q.cands : Gone(t) => Gone(t)'
      BY DEF Commits, Gone
    <2> QED  BY <1>0, <2>1 DEF Sound
  <1>7. q.pc = "commit" => q.new \notin Stored' /\ \A c \in Stored' : table'[c].parent # q.new
    BY <1>0, ConstantsAssumption DEF Commits, Sound, WellFormed
  <1> QED  BY <1>0, <1>1, <1>2, <1>3, <1>4, <1>5, <1>6, <1>7 DEF Sound, Rotating, Target, Gone

\* Drawing a token: it is in no row, no candidate list and no other request.
LEMMA CreateSound ==
    ASSUME IInv, TypeOK', NEW r \in Requests, CreateRefreshToken(r)
    PROVE  IInv'
  <1>0. /\ TypeOK /\ rq[r] \in Request /\ WellFormed(rq[r]) /\ Sound(rq[r]) /\ TableSound
        /\ rq[r].pc = "insert" /\ now \in Nat /\ rq[r].op \in {"login", "refresh"}
        /\ UNCHANGED <<table, now>>
    BY DEF IInv, TypeOK, CreateRefreshToken, WellFormed
  <1> PICK t \in Tokens \ minted :
          /\ minted' = minted \cup {t}
          /\ rq' = [rq EXCEPT ![r] =
                       [@ EXCEPT !.pc = "commit", !.new = t, !.at = now,
                                 !.fam = IF rq[r].op = "login" THEN t ELSE rq[r].fam]]
    BY DEF CreateRefreshToken
  <1> DEFINE fam == IF rq[r].op = "login" THEN t ELSE rq[r].fam
             q   == [rq[r] EXCEPT !.pc = "commit", !.new = t, !.at = now, !.fam = fam]
  <1>1. rq'[r] = q /\ \A s \in Requests \ {r} : rq'[s] = rq[s]
    BY <1>0 DEF TypeOK
  <1>f. rq[r].op = "refresh" => fam = rq[r].fam
    OBVIOUS
  <1> HIDE DEF fam
  <1>2. /\ q.pc = "commit" /\ q.op = rq[r].op /\ q.tok = rq[r].tok /\ q.hit = rq[r].hit
        /\ q.cands = {} /\ q.at = now /\ q.new = t
        /\ q.fam = fam /\ q.user = rq[r].user
    BY <1>0 DEF Request, Sound
  <1> HIDE DEF q
  <1>3. t \notin Stored /\ \A c \in Stored : table[c].parent # t
    BY <1>0, ConstantsAssumption DEF TableSound
  <1>4. q.op = "refresh" => q.tok \in Stored /\ table[q.tok].expires <= now + RefreshTTL
    BY <1>0, <1>2 DEF Sound, TableSound
  <1>5. Sound(q)
    BY <1>0, <1>2, <1>3, <1>4, <1>f DEF Sound, Rotating
  <1>6. ASSUME NEW s \in Requests
        PROVE  Sound(rq[s])'
    <2>1. Sound(rq'[s])
      BY <1>1, <1>5 DEF IInv
    <2>2. \A u \in minted : u \in minted'
      OBVIOUS
    <2> QED  BY <1>0, <2>1, <2>2 DEF Sound, Rotating, Stored, Target, Gone
  <1>7. ASSUME NEW s \in Requests \ {r}
        PROVE  Apart(q, rq[s]) /\ Apart(rq[s], q)
    <2>1. /\ Apart(rq[r], rq[s]) /\ Apart(rq[s], rq[r]) /\ Sound(rq[s])
          /\ rq[s].new # None => rq[s].new \in minted
          /\ rq[s].pc = "commit" => rq[s].new # None
      BY <1>0, ConstantsAssumption DEF IInv, TypeOK, WellFormed
    <2>2. t \notin rq[s].cands /\ (Rotating(rq[s]) => rq[s].tok # t)
      BY <2>1 DEF Sound
    <2>3. rq[s].pc = "commit" => rq[s].new # t
      BY <2>1
    <2>4. Rotating(q) => Rotating(rq[r])
      BY <1>0, <1>2 DEF Rotating
    <2> QED  BY <1>0, <1>2, <2>1, <2>2, <2>3, <2>4 DEF Apart, Sound
  <1>8. ASSUME NEW s1 \in Requests, NEW s2 \in Requests, s1 # s2
        PROVE  Apart(rq[s1], rq[s2])'
    <2>1. Apart(rq'[s1], rq'[s2])
      BY <1>1, <1>7, <1>8 DEF IInv
    <2> QED  BY <2>1 DEF Apart, Rotating
  <1>9. TableSound'
    <2>1. minted \subseteq minted'
      OBVIOUS
    <2> QED  BY <1>0, <2>1 DEF TableSound, SessionChain, AuditTrail, Stored
  <1> QED  BY <1>6, <1>8, <1>9 DEF IInv

\* The response and the clock: no row changes.
LEMMA RespondSound ==
    ASSUME IInv, TypeOK', NEW r \in Requests, Respond(r)
    PROVE  IInv'
  <1>1. Sound(Idle) /\ \A s \in Requests : Apart(Idle, rq[s]) /\ Apart(rq[s], Idle)
    BY IdleSound DEF IInv
  <1>2. rq' = [rq EXCEPT ![r] = Idle] /\ UNCHANGED <<table, minted, now>>
    BY DEF Respond, Deliver
  <1> QED  BY <1>1, <1>2, StepSound

LEMMA EarlyResponseSound ==
    ASSUME IInv, TypeOK', NEW r \in Requests, RespondBeforeCommit(r)
    PROVE  IInv'
  <1> DEFINE q == rq'[r]
  <1>1. TypeOK /\ Sound(rq[r]) /\ \A s \in Requests \ {r} : Apart(rq[r], rq[s]) /\ Apart(rq[s], rq[r])
    BY DEF IInv
  <1>2. rq' = [rq EXCEPT ![r] = q] /\ UNCHANGED <<table, minted, now>>
    BY <1>1, Answered
  <1>3. Sound(q)
    BY <1>1, Answered DEF Sound, Rotating, Target
  <1>4. \A s \in Requests \ {r} : Apart(q, rq[s]) /\ Apart(rq[s], q)
    BY <1>1, Answered DEF Apart, Rotating
  <1> HIDE DEF q
  <1> QED  BY <1>2, <1>3, <1>4, StepSound

LEMMA CrashSound ==
    ASSUME IInv, TypeOK', Crash
    PROVE  IInv'
  <1>1. /\ UNCHANGED <<table, minted, now>>
        /\ \A s \in Requests : rq'[s] = Idle
    BY DEF Crash
  <1>2. TableSound'
    BY <1>1 DEF IInv, TableSound, SessionChain, AuditTrail, Stored
  <1>3. \A s \in Requests : Sound(rq[s])'
    BY <1>1 DEF IInv, TypeOK, Sound, Idle, Rotating
  <1>4. \A s1, s2 \in Requests : Apart(rq[s1], rq[s2])'
    BY <1>1 DEF Apart, Idle, Rotating
  <1> QED  BY <1>2, <1>3, <1>4 DEF IInv

LEMMA TickSound ==
    ASSUME IInv, TypeOK', Tick
    PROVE  IInv'
  <1>1. UNCHANGED <<table, rq, minted>> /\ now' = now + 1 /\ now \in Nat
    BY DEF Tick, IInv, TypeOK
  <1>2. TableSound'
    <2>1. \A t \in Stored : table[t].expires \in Nat
      BY DEF IInv, TypeOK, Stored, Row
    <2>2. \A t \in Stored : table[t].expires <= now' + RefreshTTL
      BY <1>1, <2>1, ConstantsAssumption DEF IInv, TableSound
    <2> QED  BY <1>1, <2>2 DEF IInv, TableSound, SessionChain, AuditTrail, Stored
  <1>3. ASSUME NEW s \in Requests
        PROVE  Sound(rq[s])'
    <2>1. rq[s].at <= now' /\ Sound(rq[s])
      BY <1>1 DEF IInv, TypeOK, Sound, Request
    <2> QED  BY <1>1, <2>1 DEF Sound, Rotating, Stored, Target, Gone
  <1>4. \A s1, s2 \in Requests : s1 # s2 => Apart(rq[s1], rq[s2])'
    BY <1>1 DEF IInv, Apart, Rotating
  <1> QED  BY <1>2, <1>3, <1>4 DEF IInv

\* Requests that do not take part in a commit stay apart from the one that does, which
\* holds nothing any more.
LEMMA CommitApart ==
    ASSUME IInv, NEW r \in Requests, \A s \in Requests \ {r} : rq'[s] = rq[s],
           rq'[r].pc = "reply", rq'[r].hit = {}, rq'[r].cands \subseteq rq[r].cands
    PROVE  \A s1, s2 \in Requests : s1 # s2 => Apart(rq[s1], rq[s2])'
  <1> SUFFICES ASSUME NEW s1 \in Requests, NEW s2 \in Requests, s1 # s2
               PROVE  Apart(rq'[s1], rq'[s2])
    BY DEF Apart, Rotating
  <1>1. Apart(rq[s1], rq[s2])
    BY DEF IInv
  <1>2. CASE s1 = r
    BY <1>1, <1>2 DEF Apart, Rotating
  <1>3. CASE s2 = r
    BY <1>3 DEF Apart, Rotating
  <1>4. CASE s1 # r /\ s2 # r
    BY <1>1, <1>4
  <1> QED  BY <1>2, <1>3, <1>4

\* The commit of a login or a rotation: the new row extends the chain of its parent,
\* whose row, locked since the flush, is revoked and marked used in the same commit.
LEMMA CommitMintSound ==
    ASSUME IInv, TypeOK', NEW r \in Requests, CommitMint(r)
    PROVE  IInv'
  <1> DEFINE n == rq[r].new
  <1>0. /\ TypeOK /\ rq[r] \in Request /\ WellFormed(rq[r]) /\ Sound(rq[r]) /\ TableSound
        /\ rq[r].pc = "commit" /\ now \in Nat /\ UNCHANGED <<minted, now>>
        /\ rq[r].op \in {"login", "refresh"}
    BY DEF IInv, TypeOK, CommitMint, WellFormed
  <1>1. /\ Stored' = Stored \cup {n} /\ n \notin Stored /\ n \in minted
        /\ table'[n] = NewRow(r)
        /\ \A t \in Stored : table'[t] = Written(r, t)
    BY <1>0, ConstantsAssumption DEF CommitMint, Stored, Sound, WellFormed
  <1>2. /\ rq'[r] = [rq[r] EXCEPT !.pc = "reply", !.hit = {}, !.reply = "ok"]
        /\ \A s \in Requests \ {r} : rq'[s] = rq[s]
    BY <1>0 DEF CommitMint, TypeOK
  <1>3. /\ rq'[r].pc = "reply" /\ rq'[r].hit = {} /\ rq'[r].cands = {}
        /\ rq'[r].at = rq[r].at
    BY <1>0, <1>2 DEF Request, Sound
  <1>o. \/ rq[r].op = "login" /\ rq[r].hit = {} /\ rq[r].tok = None
        \/ /\ Rotating(rq[r]) /\ rq[r].hit = {rq[r].tok} /\ rq[r].tok \in Stored
           /\ rq[r].reason = "rotated"
           /\ table[rq[r].tok].family = rq[r].fam /\ table[rq[r].tok].user = rq[r].user
           /\ table[rq[r].tok].expires <= rq[r].at + RefreshTTL
    BY <1>0 DEF WellFormed, Sound, Rotating
  <1>4. ASSUME NEW s \in Requests \ {r}
        PROVE  Sound(rq[s])'
    <2>1. Apart(rq[s], rq[r]) /\ Apart(rq[r], rq[s]) /\ Sound(rq[s])
      BY DEF IInv
    <2>2. Commits(s, n)
      <3>1. \A t \in Stored : /\ table'[t].family = table[t].family
                              /\ table'[t].user = table[t].user
                              /\ table'[t].parent = table[t].parent
                              /\ table'[t].expires = table[t].expires
                              /\ table[t].revoked => table'[t].revoked
                              /\ t \notin rq[r].hit => table'[t] = table[t]
        BY <1>0, <1>1, WrittenRow
      <3>2. \A t \in rq[s].hit : t \in Stored /\ t \notin rq[r].hit
        BY <2>1 DEF Apart, Sound
      <3> QED  BY <1>1, <3>1, <3>2 DEF Commits
    <2>3. table'[n].parent = None \/ rq[s].pc # "commit" \/ table'[n].parent # rq[s].new
      BY <1>0, <1>1, <1>o, <2>1, NewRowType DEF Apart
    <2> QED  BY <1>0, <1>2, <2>1, <2>2, <2>3, OthersSound DEF Apart
  <1>5. Sound(rq[r])'
    BY <1>0, <1>3 DEF Sound, Rotating
  <1>6. TableSound'
    <2>1. NewRow(r).expires = rq[r].at + RefreshTTL /\ rq[r].at <= now /\ rq[r].at \in Nat
      BY <1>0, NewRowType DEF Sound, Request
    <2>2. Stored' \subseteq minted' /\ \A t \in Stored' : table'[t].parent \in minted' \cup {None}
      <3>1. rq[r].tok \in minted \cup {None}
        BY <1>0 DEF WellFormed
      <3> QED  BY <1>0, <1>1, <3>1, NewRowType, WrittenRow DEF TableSound
    <2>3. \A t \in Stored' : table'[t].expires <= now' + RefreshTTL
      BY <1>0, <1>1, <2>1, WrittenRow, ConstantsAssumption DEF TableSound
    <2>4. SessionChain'
      <3> SUFFICES ASSUME NEW c \in Stored', table'[c].parent \in Stored'
                   PROVE  /\ table'[table'[c].parent].revoked
                          /\ table'[table'[c].parent].used
                          /\ table'[c].family = table'[table'[c].parent].family
                          /\ table'[c].user = table'[table'[c].parent].user
                          /\ table'[table'[c].parent].expires <= table'[c].expires
        BY DEF SessionChain
      <3>0. \A t \in Stored :
               /\ table'[t].family = table[t].family /\ table'[t].user = table[t].user
               /\ table'[t].parent = table[t].parent /\ table'[t].expires = table[t].expires
               /\ table[t].revoked => table'[t].revoked
               /\ table[t].used => table'[t].used
               /\ t \in rq[r].hit /\ rq[r].reason = "rotated" =>
                     table'[t].revoked /\ table'[t].used
        BY <1>0, <1>1, WrittenRow
      <3>1. CASE c = n
        <4>1. table'[c].parent = rq[r].tok
          BY <1>0, <1>1, <3>1, NewRowType
        <4>2. rq[r].tok # None
          BY <1>0, <4>1, ConstantsAssumption DEF TypeOK, Stored
        <4>3. rq[r].tok \in Stored /\ rq[r].tok \in rq[r].hit /\ rq[r].reason = "rotated"
          BY <1>o, <4>2
        <4>4. /\ table'[n].family = rq[r].fam /\ table'[n].user = rq[r].user
              /\ table'[n].expires = rq[r].at + RefreshTTL
          BY <1>0, <1>1, NewRowType
        <4> QED  BY <1>o, <3>0, <3>1, <4>1, <4>2, <4>3, <4>4
      <3>2. CASE c # n
        <4>1. c \in Stored /\ table'[c].parent = table[c].parent
          BY <1>0, <1>1, <3>2, WrittenRow
        <4>2. table[c].parent \in Stored
          BY <1>0, <1>1, <4>1 DEF Sound
        <4> QED  BY <1>0, <3>0, <4>1, <4>2 DEF TableSound, SessionChain
      <3> QED  BY <3>1, <3>2
    <2>5. AuditTrail'
      <3> SUFFICES ASSUME NEW t \in Stored'
                   PROVE  /\ table'[t].used <=> table'[t].reason = "rotated"
                          /\ table'[t].revoked <=> table'[t].reason # None
                          /\ table'[t].reason # "expired"
        BY DEF AuditTrail
      <3>n. None \notin Reasons
        BY ConstantsAssumption
      <3>1. CASE t = n
        BY <1>0, <1>1, <3>1, <3>n, NewRowType DEF Reasons
      <3>2. CASE t # n /\ t \in rq[r].hit
        <4>1. t \in Stored /\ rq[r].reason = "rotated"
          BY <1>0, <1>1, <1>o, <3>2 DEF Sound
        <4>2. table'[t].revoked /\ table'[t].used /\ table'[t].reason = "rotated"
          BY <1>0, <1>1, <3>2, <4>1, WrittenRow
        <4> QED  BY <3>n, <4>2 DEF Reasons
      <3>3. CASE t # n /\ t \notin rq[r].hit
        <4>1. t \in Stored /\ table'[t] = table[t]
          BY <1>0, <1>1, <3>3, WrittenRow
        <4> QED  BY <1>0, <4>1 DEF TableSound, AuditTrail
      <3> QED  BY <3>1, <3>2, <3>3
    <2> QED  BY <2>2, <2>3, <2>4, <2>5 DEF TableSound
  <1>7. \A s1, s2 \in Requests : s1 # s2 => Apart(rq[s1], rq[s2])'
    BY <1>2, <1>3, CommitApart
  <1> QED  BY <1>4, <1>5, <1>6, <1>7 DEF IInv

\* The commit of a bulk statement.  A revocation gives each row it hit the reason of
\* its statement; a purge removes rows nobody else has locked, and a chain that has
\* lost an ancestor is still a chain.
LEMMA CommitBulkSound ==
    ASSUME IInv, TypeOK', NEW r \in Requests, CommitBulk(r)
    PROVE  IInv'
  <1>0. /\ TypeOK /\ rq[r] \in Request /\ WellFormed(rq[r]) /\ Sound(rq[r]) /\ TableSound
        /\ rq[r].pc = "update" /\ rq[r].todo = {} /\ now \in Nat /\ UNCHANGED <<minted, now>>
    BY DEF IInv, TypeOK, CommitBulk
  <1>n. None \notin Tokens /\ None \notin Reasons
    BY ConstantsAssumption
  <1>1. /\ Stored' = IF rq[r].op = "cleanup" THEN Stored \ rq[r].hit ELSE Stored
        /\ rq[r].op = "cleanup" => \A t \in Stored' : table'[t] = table[t]
        /\ rq[r].op # "cleanup" => \A t \in Stored : table'[t] = Written(r, t)
    BY DEF CommitBulk, Stored
  <1>2. \A s \in Requests \ {r} : rq'[s] = rq[s]
    BY DEF CommitBulk, IInv, TypeOK
  <1>3. /\ rq'[r].pc = "reply" /\ rq'[r].hit = {} /\ rq'[r].at = 0 /\ rq'[r].op = rq[r].op
        /\ rq'[r].cands \subseteq rq[r].cands
    BY <1>0 DEF CommitBulk, TypeOK, Request
  <1>w. rq[r].op # "cleanup" =>
           /\ rq[r].reason \in {"replay_attack", "logout"}
           /\ \A t \in rq[r].hit : t \in Stored /\ ~table[t].revoked
    BY <1>0 DEF Sound
  <1>k. \A t \in Stored \cap Stored' :
           /\ table'[t].family = table[t].family /\ table'[t].user = table[t].user
           /\ table'[t].parent = table[t].parent /\ table'[t].expires = table[t].expires
           /\ table[t].revoked => table'[t].revoked
           /\ table'[t].used = table[t].used
           /\ t \notin rq[r].hit => table'[t] = table[t]
           /\ t \in rq[r].hit => table'[t].revoked /\ table'[t].reason = rq[r].reason
    <2>1. CASE rq[r].op = "cleanup"
      BY <1>1, <2>1
    <2>2. CASE rq[r].op # "cleanup"
      <3>1. rq[r].reason # "rotated"
        BY <1>w, <2>2
      <3> QED  BY <1>0, <1>1, <2>2, <3>1, WrittenRow
    <2> QED  BY <2>1, <2>2
  <1>4. ASSUME NEW s \in Requests \ {r}
        PROVE  Sound(rq[s])'
    <2>1. Apart(rq[s], rq[r]) /\ Sound(rq[s]) /\ rq[s] \in Request /\ WellFormed(rq[s])
      BY DEF IInv, TypeOK
    <2>2. Commits(s, None)
      <3>1. \A t \in rq[s].hit : t \in Stored /\ t \notin rq[r].hit
        BY <2>1 DEF Apart, Sound
      <3>2. Stored' \subseteq Stored /\ Stored \ Stored' \subseteq rq[r].hit
        BY <1>1
      <3> QED  BY <1>k, <3>1, <3>2 DEF Commits
    <2>3. None \notin rq[s].cands /\ None \notin Stored'
      BY <1>0, <1>1, <1>n, <2>1 DEF Request, TypeOK, Stored
    <2>4. /\ Rotating(rq[s]) => rq[s].tok # None
          /\ rq[s].pc = "commit" => rq[s].new # None
      BY <1>n, <2>1 DEF WellFormed, Rotating
    <2> QED  BY <1>0, <1>2, <2>2, <2>3, <2>4, OthersSound
  <1>5. Sound(rq[r])'
    <2>1. rq[r].op # "cleanup" => \A t \in rq[r].cands : Gone(t)'
      BY <1>0, <1>1, <1>k DEF Sound, Gone
    <2> QED  BY <1>0, <1>3, <2>1 DEF Sound, Rotating
  <1>6. TableSound'
    <2>1. /\ Stored' \subseteq minted' /\ \A t \in Stored' : t \in Stored
          /\ \A t \in Stored' : table'[t].parent \in minted' \cup {None}
          /\ \A t \in Stored' : table'[t].expires <= now' + RefreshTTL
      BY <1>0, <1>1, <1>k DEF TableSound
    <2>2. SessionChain'
      BY <1>0, <1>k, <2>1 DEF TableSound, SessionChain
    <2>3. AuditTrail'
      <3> SUFFICES ASSUME NEW t \in Stored'
                   PROVE  /\ table'[t].used <=> table'[t].reason = "rotated"
                          /\ table'[t].revoked <=> table'[t].reason # None
                          /\ table'[t].reason # "expired"
        BY DEF AuditTrail
      <3>1. /\ table[t].used <=> table[t].reason = "rotated"
            /\ table[t].revoked <=> table[t].reason # None
            /\ table[t].reason # "expired"
        BY <1>0, <2>1 DEF TableSound, AuditTrail
      <3>2. CASE t \in rq[r].hit
        <4>1. rq[r].op # "cleanup"
          BY <1>1, <3>2
        <4>2. /\ ~table[t].revoked /\ table'[t].revoked
              /\ table'[t].reason \in {"replay_attack", "logout"}
              /\ table'[t].used = table[t].used
          BY <1>w, <1>k, <2>1, <3>2, <4>1
        <4> QED  BY <1>n, <3>1, <4>2 DEF Reasons
      <3>3. CASE t \notin rq[r].hit
        BY <1>k, <2>1, <3>1, <3>3
      <3> QED  BY <3>2, <3>3
    <2> QED  BY <2>1, <2>2, <2>3 DEF TableSound
  <1>7. \A s1, s2 \in Requests : s1 # s2 => Apart(rq[s1], rq[s2])'
    BY <1>2, <1>3, CommitApart
  <1> QED  BY <1>4, <1>5, <1>6, <1>7 DEF IInv

LEMMA InitSound == Init => IInv
  <1> SUFFICES ASSUME Init
               PROVE  IInv
    OBVIOUS
  <1>1. TypeOK
    BY InitType
  <1>2. Stored = {}
    BY DEF Init, Stored
  <1>3. \A r \in Requests : rq[r] = Idle
    BY DEF Init
  <1>4. TableSound
    BY <1>2 DEF TableSound, SessionChain, AuditTrail
  <1> QED  BY <1>1, <1>3, <1>4, IdleSound DEF IInv

LEMMA NextSound ==
    ASSUME IInv, [Next]_vars
    PROVE  IInv'
  <1>0. TypeOK'
    BY NextType DEF IInv
  <1>1. CASE Next
    BY <1>0, <1>1, NextCases, ArrivalSound, HarmlessStepSound, SelectValidSound,
       RevokeSingleSound, MatchSound, VisitSound, CreateSound, CommitMintSound,
       CommitBulkSound, RespondSound, EarlyResponseSound, CrashSound, TickSound
  <1>2. CASE UNCHANGED vars
    BY <1>0, <1>2 DEF vars, IInv, TableSound, SessionChain, AuditTrail, Stored, Sound,
                      Apart, Rotating, Target, Gone
  <1> QED  BY <1>1, <1>2

\* The inductive invariant holds in every reachable state.
THEOREM Invariance == Spec => []IInv
  BY InitSound, NextSound, PTL DEF Spec

\* Rotation builds chains: one owner and one family from a session's first token to its
\* last, each ancestor still stored revoked and used, however rotations, replays,
\* logouts, purges and crashes interleave.
THEOREM ChainsHold == Spec => []SessionChain
  <1>1. IInv => SessionChain
    BY DEF IInv, TableSound
  <1> QED  BY <1>1, Invariance, PTL

\* revoked_reason and used_at agree in every row, and none says "expired".
THEOREM AuditTrailHolds == Spec => []AuditTrail
  <1>1. IInv => AuditTrail
    BY DEF IInv, TableSound
  <1> QED  BY <1>1, Invariance, PTL

\* Once the transaction of a logout or of a replay is over without having been rolled
\* back, no row its statement matched is live, whether the answer of the logout left
\* before the commit or after it.
THEOREM StatementsCover == Spec => []StatementCovers
  <1>1. IInv => StatementCovers
    BY DEF IInv, Sound, Gone, StatementCovers
  <1> QED  BY <1>1, Invariance, PTL

\* A member of a cycle of waiting transactions holds a row while it waits for another,
\* so it runs a bulk statement: logins and rotations never lose to the deadlock detector.
THEOREM DeadlocksAreBulk == Spec => []OnlyBulkDeadlocks
  <1>1. ASSUME IInv, NEW r \in Requests, Deadlocked(r)
        PROVE  rq[r].pc = "update"
    <2> PICK S \in SUBSET Requests :
            /\ r \in S
            /\ \E next \in [S -> S] :
                  /\ {next[s] : s \in S} = S
                  /\ \A s \in S : Blocked(s) /\ WaitsFor(s, next[s])
      BY <1>1 DEF Deadlocked
    <2>1. PICK s \in S : WaitsFor(s, r)
      OBVIOUS
    <2>2. rq[r].hit # {}
      BY <2>1 DEF WaitsFor
    <2>3. rq[r].pc \in {"update", "insert", "commit", "rollback"}
      BY <1>1, <2>2 DEF IInv, Sound
    <2>4. rq[r].pc \in {"revoke", "expire", "update"}
      BY DEF Blocked
    <2> QED  BY <2>3, <2>4
  <1>2. IInv => OnlyBulkDeadlocks
    BY <1>1 DEF OnlyBulkDeadlocks
  <1> QED  BY <1>2, Invariance, PTL

-----------------------------------------------------------------------------
(* A dead session stays dead: a property of steps, from type correctness alone.  *)

\* A step of one request that leaves the rows alone revives no session, unless the
\* request takes up the rotation of one.
LEMMA DeadStep ==
    ASSUME TypeOK, NEW f, SessionDead(f), NEW r \in Requests, NEW q,
           rq' = [rq EXCEPT ![r] = q],
           q.pc \in {"revoke", "insert", "commit"} => q.fam # f,
           UNCHANGED table, minted \subseteq minted'
    PROVE  SessionDead(f)'
  <1>1. rq'[r] = q /\ \A s \in Requests \ {r} : rq'[s] = rq[s]
    BY DEF TypeOK
  <1> QED  BY <1>1 DEF SessionDead, Stored

\* A commit writes no live row of a dead session.
LEMMA DeadCommit ==
    ASSUME TypeOK, NEW f \in Tokens, SessionDead(f), NEW r \in Requests,
           CommitMint(r) \/ CommitBulk(r)
    PROVE  SessionDead(f)'
  <1>1. \A t \in Stored' : table'[t].family = f => table'[t].revoked
    <2>1. CASE CommitMint(r)
      <3>1. NewRow(r).family = rq[r].fam /\ rq[r].fam # f
        BY <2>1, NewRowType DEF CommitMint, SessionDead
      <3> QED  BY <2>1, <3>1, WrittenRow DEF CommitMint, SessionDead, Stored
    <2>2. CASE CommitBulk(r)
      BY <2>2, WrittenRow DEF CommitBulk, SessionDead, Stored
    <2> QED  BY <2>1, <2>2
  <1>2. /\ rq'[r].pc = "reply" /\ minted' = minted
        /\ \A s \in Requests \ {r} : rq'[s] = rq[s]
    <2>1. rq[r] \in Request /\ rq \in [Requests -> Request]
      BY DEF TypeOK
    <2>2. CASE CommitMint(r)
      BY <2>1, <2>2 DEF CommitMint, Request
    <2>3. CASE CommitBulk(r)
      BY <2>1, <2>3 DEF CommitBulk, Request
    <2> QED  BY <2>2, <2>3
  <1> QED  BY <1>1, <1>2 DEF SessionDead

\* Drawing a token: a login's is new, so no session that was started bears its name.
LEMMA DeadCreate ==
    ASSUME TypeOK, NEW f \in Tokens, SessionDead(f), NEW r \in Requests,
           CreateRefreshToken(r)
    PROVE  SessionDead(f)'
  <1> PICK t \in Tokens \ minted :
          /\ minted' = minted \cup {t}
          /\ rq' = [rq EXCEPT ![r] =
                       [@ EXCEPT !.pc = "commit", !.new = t, !.at = now,
                                 !.fam = IF rq[r].op = "login" THEN t ELSE rq[r].fam]]
    BY DEF CreateRefreshToken
  <1> DEFINE fam == IF rq[r].op = "login" THEN t ELSE rq[r].fam
             q   == [rq[r] EXCEPT !.pc = "commit", !.new = t, !.at = now, !.fam = fam]
  <1>1. rq[r] \in Request /\ rq[r].pc = "insert" /\ UNCHANGED table
    BY DEF TypeOK, CreateRefreshToken
  <1>2. fam # f
    BY <1>1 DEF SessionDead
  <1>3. rq' = [rq EXCEPT ![r] = q] /\ minted \subseteq minted'
    BY <1>1 DEF TypeOK
  <1> HIDE DEF fam
  <1>4. q.fam = fam
    BY <1>1 DEF Request
  <1> HIDE DEF q
  <1> QED  BY <1>1, <1>2, <1>3, <1>4, DeadStep

\* Arrivals, reads, refusals and failures.  Reading a valid row is the only step that
\* takes up a rotation, and its session has that live row.
LEMMA DeadQuiet ==
    ASSUME TypeOK, NEW f \in Tokens, SessionDead(f), NEW r \in Requests,
           \/ Arrivals(r)
           \/ SelectMissing(r) \/ SelectRevoked(r) \/ SelectExpired(r) \/ SelectValid(r)
           \/ RevokeSingle(r) \/ RevokeVanished(r) \/ RollbackExpired(r)
           \/ Match(r) \/ Visit(r) \/ LoseResponse(r) \/ Fail(r) \/ DeadlockVictim(r)
           \/ Respond(r)
    PROVE  SessionDead(f)'
  <1>0. rq[r] \in Request /\ f # None
    BY ConstantsAssumption DEF TypeOK
  <1>s. ASSUME NEW q, Step(r, q) \/ Arrive(r, q),
               q.pc \in {"revoke", "insert", "commit"} => q.fam # f
        PROVE  SessionDead(f)'
    BY <1>s, DeadStep DEF Step, Arrive
  <1>1. ASSUME Arrivals(r)
        PROVE  SessionDead(f)'
    <2>1. ASSUME NEW u \in Users, Login(r, u)
          PROVE  \E q : Arrive(r, q) /\ q.fam = None
      <3> DEFINE q == [Idle EXCEPT !.op = "login", !.pc = "insert", !.user = u]
      <3>1. Arrive(r, q) /\ q.fam = None
        BY <2>1 DEF Login, Idle
      <3> QED  BY <3>1
    <2>2. ASSUME NEW t \in Tokens, Refresh(r, t)
          PROVE  \E q : Arrive(r, q) /\ q.fam = None
      <3> DEFINE q == [Idle EXCEPT !.op = "refresh", !.pc = "select", !.tok = t]
      <3>1. Arrive(r, q) /\ q.fam = None
        BY <2>2 DEF Refresh, Idle
      <3> QED  BY <3>1
    <2>3. ASSUME NEW u \in Users, NEW t \in Tokens, Logout(r, u, t)
          PROVE  \E q : Arrive(r, q) /\ q.fam = None
      <3> DEFINE q == [Idle EXCEPT !.op = "logout", !.pc = "match", !.user = u,
                                   !.tok = t, !.reason = "logout"]
      <3>1. Arrive(r, q) /\ q.fam = None
        BY <2>3 DEF Logout, Idle
      <3> QED  BY <3>1
    <2>4. ASSUME NEW u \in Users, LogoutAll(r, u)
          PROVE  \E q : Arrive(r, q) /\ q.fam = None
      <3> DEFINE q == [Idle EXCEPT !.op = "logout_all", !.pc = "match", !.user = u,
                                   !.reason = "logout"]
      <3>1. Arrive(r, q) /\ q.fam = None
        BY <2>4 DEF LogoutAll, Idle
      <3> QED  BY <3>1
    <2>5. ASSUME NEW u \in Users, LogoutOmitted(r, u)
          PROVE  \E q : Arrive(r, q) /\ q.fam = None
      <3> DEFINE q == [Idle EXCEPT !.op = "logout_omitted", !.pc = "reply", !.user = u,
                                   !.reply = "unprocessable"]
      <3>1. Arrive(r, q) /\ q.fam = None
        BY <2>5 DEF LogoutOmitted, Idle
      <3> QED  BY <3>1
    <2>6. ASSUME Cleanup(r)
          PROVE  \E q : Arrive(r, q) /\ q.fam = None
      <3> DEFINE q == [Idle EXCEPT !.op = "cleanup", !.pc = "match", !.at = now]
      <3>1. Arrive(r, q) /\ q.fam = None
        BY <2>6 DEF Cleanup, Idle
      <3> QED  BY <3>1
    <2>7. \E q : Arrive(r, q) /\ q.fam = None
      BY <1>1, <2>1, <2>2, <2>3, <2>4, <2>5, <2>6 DEF Arrivals
    <2> QED  BY <1>0, <1>s, <2>7
  <1>2. ASSUME \/ SelectMissing(r) \/ RollbackExpired(r) \/ RevokeVanished(r)
               \/ Fail(r) \/ DeadlockVictim(r) \/ LoseResponse(r)
        PROVE  SessionDead(f)'
    <2>1. \/ \E answer : Step(r, Refused(rq[r], answer))
          \/ Step(r, Failed(rq[r]))
          \/ Step(r, Idle)
      BY <1>2 DEF SelectMissing, RollbackExpired, RevokeVanished, Fail, DeadlockVictim,
                  LoseResponse
    <2>2. /\ \A answer : Refused(rq[r], answer).pc = "reply"
          /\ Failed(rq[r]).pc = "reply" /\ Idle.pc = "idle"
      BY DEF Refused, Failed, Idle
    <2> QED  BY <1>s, <2>1, <2>2
  <1>3. ASSUME SelectRevoked(r) \/ SelectExpired(r) \/ Match(r)
        PROVE  SessionDead(f)'
    <2>1. ASSUME NEW pc \in {"match", "expire", "update"}, NEW q,
                 Step(r, q), q.pc = pc
          PROVE  SessionDead(f)'
      BY <1>s, <2>1
    <2> DEFINE matched == {t \in Stored : Where(r, t)}
               revoked == [rq[r] EXCEPT !.pc = "match", !.fam = table[rq[r].tok].family,
                                        !.reason = "replay_attack"]
               expired == [rq[r] EXCEPT !.pc = "expire", !.reason = "expired"]
               match   == [rq[r] EXCEPT !.pc = "update", !.cands = matched, !.todo = matched]
    <2>2. revoked.pc = "match" /\ expired.pc = "expire" /\ match.pc = "update"
      BY <1>0 DEF Request
    <2>3. Step(r, revoked) \/ Step(r, expired) \/ Step(r, match)
      BY <1>3 DEF SelectRevoked, SelectExpired, Match
    <2> HIDE DEF revoked, expired, match
    <2> QED  BY <2>1, <2>2, <2>3
  <1>4. ASSUME SelectValid(r)
        PROVE  SessionDead(f)'
    <2> DEFINE q == [rq[r] EXCEPT !.pc = "revoke", !.fam = table[rq[r].tok].family,
                                  !.user = table[rq[r].tok].user, !.reason = "rotated"]
    <2>1. Step(r, q) /\ q.fam = table[rq[r].tok].family
      BY <1>0, <1>4 DEF SelectValid, Request
    <2>2. table[rq[r].tok].family # f
      BY <1>4 DEF SelectValid, SessionDead
    <2> HIDE DEF q
    <2> QED  BY <1>s, <2>1, <2>2
  <1>5. ASSUME RevokeSingle(r)
        PROVE  SessionDead(f)'
    <2> DEFINE pc == IF rq[r].pc = "revoke" THEN "insert" ELSE "rollback"
               q  == [rq[r] EXCEPT !.pc = pc, !.hit = {rq[r].tok}]
    <2>1. Step(r, q) /\ (pc \in {"revoke", "insert", "commit"} => rq[r].pc = "revoke")
      BY <1>5 DEF RevokeSingle
    <2> HIDE DEF pc
    <2>2. q.pc = pc /\ q.fam = rq[r].fam
      BY <1>0 DEF Request
    <2> HIDE DEF q
    <2> QED  BY <1>s, <2>1, <2>2 DEF SessionDead
  <1>6. ASSUME Visit(r)
        PROVE  SessionDead(f)'
    <2> PICK t \in rq[r].todo :
            Step(r, [rq[r] EXCEPT !.todo = @ \ {t},
                                  !.hit  = IF Where(r, t) THEN @ \cup {t} ELSE @])
      BY <1>6 DEF Visit
    <2> DEFINE hit == IF Where(r, t) THEN rq[r].hit \cup {t} ELSE rq[r].hit
               q == [rq[r] EXCEPT !.todo = rq[r].todo \ {t}, !.hit = hit]
    <2>1. Step(r, q)
      BY <1>0 DEF Request
    <2> HIDE DEF hit
    <2>2. q.pc = "update"
      BY <1>0, <1>6 DEF Visit, Request
    <2> HIDE DEF q
    <2> QED  BY <1>s, <2>1, <2>2
  <1>7. ASSUME Respond(r)
        PROVE  SessionDead(f)'
    <2>1. Idle.pc = "idle"
      BY DEF Idle
    <2> QED  BY <1>7, <2>1, DeadStep DEF Respond, Deliver
  <1> QED  BY <1>1, <1>2, <1>3, <1>4, <1>5, <1>6, <1>7

\* No step revives a dead session.
LEMMA DeadNext ==
    ASSUME TypeOK, [Next]_vars, NEW f \in Tokens, SessionDead(f)
    PROVE  SessionDead(f)'
  <1>1. ASSUME NEW r \in Requests, RespondBeforeCommit(r)
        PROVE  SessionDead(f)'
    BY <1>1 DEF RespondBeforeCommit, Deliver, SessionDead, Stored
  <1>2. ASSUME Crash
        PROVE  SessionDead(f)'
    BY <1>2 DEF Crash, Idle, SessionDead, Stored
  <1>3. ASSUME Tick \/ UNCHANGED vars
        PROVE  SessionDead(f)'
    BY <1>3 DEF Tick, vars, SessionDead, Stored
  <1> QED  BY <1>1, <1>2, <1>3, NextCases, DeadQuiet, DeadCreate, DeadCommit

\* Once no row of a session is live and no rotation of it is in flight, no request,
\* fault or passing of time gives it a live row again (rotate_refresh_token).
THEOREM DeadStaysDead == Spec => DeadSessionStaysDead
  <1>1. TypeOK /\ [Next]_vars =>
           [\A f \in Tokens : SessionDead(f) => SessionDead(f)']_vars
    BY DeadNext
  <1> QED  BY <1>1, TypeCorrect, PTL DEF Spec, DeadSessionStaysDead

=============================================================================
