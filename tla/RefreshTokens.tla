---------------------------- MODULE RefreshTokens ----------------------------
(***************************************************************************)
(* Refresh-token sessions: app/services/refresh_token_service.py, the      *)
(* refresh and logout halves of app/services/auth_service.py, their        *)
(* endpoints, and the database session get_db that wraps each request.     *)
(*                                                                         *)
(* A request runs in one PostgreSQL transaction at READ COMMITTED (the     *)
(* engine sets no isolation level).  table is the committed content of     *)
(* public.refresh_tokens; what a transaction has written but not committed *)
(* is in its request record.  Each await of the code that reaches the      *)
(* database is an action, so requests interleave between any two of them.  *)
(*                                                                         *)
(* A raw token, its SHA-256 hash and the row stored under that hash share  *)
(* one name.  A family_id, a fresh UUID per login, is named after the      *)
(* login's first token.                                                    *)
(***************************************************************************)
EXTENDS Integers

CONSTANTS
    Tokens,         \* the raw tokens generate_raw_token can return
    Users,          \* users of any tenant: user ids are UUIDs, unique across tenants
    Requests,       \* slots for requests and jobs in progress at the same time
    None,           \* the absence of a value
    RefreshTTL,     \* lifetime of a refresh token
    AccessTTL,      \* lifetime of an access token (JWT)
    MaxTime,        \* bound on the clock
    ResponseFirst   \* TRUE: the response leaves before get_db commits (FastAPI >= 0.118)

Reasons == {"rotated", "logout", "replay_attack", "expired"}

Replies == {"ok", "not_found", "expired", "replay", "unprocessable", "error"}

ASSUME ConstantsAssumption ==
    /\ None \notin Tokens \cup Users \cup Reasons \cup Replies
    /\ RefreshTTL \in Nat /\ AccessTTL \in Nat /\ MaxTime \in Nat
    /\ ResponseFirst \in BOOLEAN

VARIABLES
    table,          \* committed rows of refresh_tokens, a function on the stored tokens
    rq,             \* for each slot, the request running in it
    minted,         \* tokens generated so far
    delivered,      \* when each token some client has received expires
    accessUntil,    \* for each user, when the last access token a client received expires
    now             \* the clock

vars == <<table, rq, minted, delivered, accessUntil, now>>

Row == [family  : Tokens,
        user    : Users,
        parent  : Tokens \cup {None},
        revoked : BOOLEAN,
        reason  : Reasons \cup {None},
        used    : BOOLEAN,
        expires : Nat]

Ops == {"none", "login", "refresh", "logout", "logout_all", "logout_omitted", "cleanup"}
Pcs == {"idle", "select", "revoke", "expire", "rollback", "insert", "commit",
        "match", "update", "reply"}

(***************************************************************************)
(* op     : which handler runs;  pc : where it is                          *)
(* user   : the caller (login, logout) or the owner of the row it read     *)
(* tok    : the refresh token presented;  fam : the family of its row      *)
(* reason : the revoked_reason it writes                                   *)
(* at     : the time it took: of the new token, or the purge's cutoff      *)
(* cands  : the rows its UPDATE or DELETE matched in the snapshot          *)
(* todo   : those of them it has not visited yet                           *)
(* hit    : the rows it has written, and holds the row locks of            *)
(* new    : the token it inserted;  reply : the outcome it answers with,   *)
(*          or has answered with before its commit                         *)
(***************************************************************************)
Request == [op     : Ops,
            pc     : Pcs,
            user   : Users \cup {None},
            tok    : Tokens \cup {None},
            fam    : Tokens \cup {None},
            reason : Reasons \cup {None},
            at     : Nat,
            cands  : SUBSET Tokens,
            todo   : SUBSET Tokens,
            hit    : SUBSET Tokens,
            new    : Tokens \cup {None},
            reply  : Replies \cup {None}]

Idle == [op |-> "none", pc |-> "idle", user |-> None, tok |-> None, fam |-> None,
         reason |-> None, at |-> 0, cands |-> {}, todo |-> {}, hit |-> {},
         new |-> None, reply |-> None]

Init ==
    /\ table = [t \in {} |-> None]
    /\ rq = [r \in Requests |-> Idle]
    /\ minted = {}
    /\ delivered = [t \in {} |-> 0]
    /\ accessUntil = [u \in Users |-> 0]
    /\ now = 0

-----------------------------------------------------------------------------
(* Rows and locks                                                          *)

Stored == DOMAIN table
Delivered == DOMAIN delivered

is_expired(t) == now > table[t].expires

\* A row written by an uncommitted transaction blocks every other writer of it.
LockedByOther(r, t) == \E q \in Requests \ {r} : t \in rq[q].hit

\* Mutant: logout no longer compares the owner.
Where_anyOwner(r, t) ==
    /\ t \in Stored
    /\ \/ rq[r].op = "refresh"    /\ table[t].family = rq[r].fam /\ ~table[t].revoked
       \/ rq[r].op = "logout"     /\ t = rq[r].tok /\ ~table[t].revoked
       \/ rq[r].op = "logout_all" /\ table[t].user = rq[r].user /\ ~table[t].revoked
       \/ rq[r].op = "cleanup"    /\ table[t].expires < rq[r].at

\* Mutant: the purge takes the tokens that expire at its cutoff.
Where_purgeEarly(r, t) ==
    /\ t \in Stored
    /\ \/ rq[r].op = "refresh"    /\ table[t].family = rq[r].fam /\ ~table[t].revoked
       \/ rq[r].op = "logout"     /\ t = rq[r].tok /\ table[t].user = rq[r].user
                                  /\ ~table[t].revoked
       \/ rq[r].op = "logout_all" /\ table[t].user = rq[r].user /\ ~table[t].revoked
       \/ rq[r].op = "cleanup"    /\ table[t].expires <= rq[r].at

\* Mutant: the global logout looks for the tokens that are already revoked.
Where_inverted(r, t) ==
    /\ t \in Stored
    /\ \/ rq[r].op = "refresh"    /\ table[t].family = rq[r].fam /\ ~table[t].revoked
       \/ rq[r].op = "logout"     /\ t = rq[r].tok /\ table[t].user = rq[r].user
                                  /\ ~table[t].revoked
       \/ rq[r].op = "logout_all" /\ table[t].user = rq[r].user /\ table[t].revoked
       \/ rq[r].op = "cleanup"    /\ table[t].expires < rq[r].at

\* The WHERE clause of r's UPDATE or DELETE, on the last committed version of t.
Where(r, t) ==
    /\ t \in Stored
    /\ \/ rq[r].op = "refresh"    /\ table[t].family = rq[r].fam /\ ~table[t].revoked
       \/ rq[r].op = "logout"     /\ t = rq[r].tok /\ table[t].user = rq[r].user
                                  /\ ~table[t].revoked
       \/ rq[r].op = "logout_all" /\ table[t].user = rq[r].user /\ ~table[t].revoked
       \/ rq[r].op = "cleanup"    /\ table[t].expires < rq[r].at

\* Mutant: used_at is not written.
Written_noUsed(r, t) ==
    IF t \in rq[r].hit
    THEN [table[t] EXCEPT !.revoked = TRUE, !.reason = rq[r].reason]
    ELSE table[t]

\* What r's transaction turns the row of t into, if it wrote it.
Written(r, t) ==
    IF t \in rq[r].hit
    THEN [table[t] EXCEPT !.revoked = TRUE,
                          !.reason  = rq[r].reason,
                          !.used    = @ \/ rq[r].reason = "rotated"]
    ELSE table[t]

\* The row create_refresh_token adds: a login's has no parent and a family of its own.
NewRow(r) == [family |-> rq[r].fam, user |-> rq[r].user, parent |-> rq[r].tok,
              revoked |-> FALSE, reason |-> None, used |-> FALSE,
              expires |-> rq[r].at + RefreshTTL]

-----------------------------------------------------------------------------
(* Requests arriving                                                       *)

Arrive(r, q) ==
    /\ rq[r].pc = "idle"
    /\ rq' = [rq EXCEPT ![r] = q]
    /\ UNCHANGED <<table, minted, delivered, accessUntil, now>>

HasAccess(u) == now < accessUntil[u]

\* login_user reaches create_refresh_token: credentials and tenant were accepted.
Login(r, u) ==
    Arrive(r, [Idle EXCEPT !.op = "login", !.pc = "insert", !.user = u])

\* POST /auth/refresh with a token a client holds, old or new, its own or copied.
Refresh(r, t) ==
    /\ t \in Delivered
    /\ Arrive(r, [Idle EXCEPT !.op = "refresh", !.pc = "select", !.tok = t])

\* POST /auth/logout with a refresh token: UPDATE of that row if it is u's and active.
Logout(r, u, t) ==
    /\ HasAccess(u)
    /\ t \in Delivered
    /\ Arrive(r, [Idle EXCEPT !.op = "logout", !.pc = "match", !.user = u,
                              !.tok = t, !.reason = "logout"])

\* POST /auth/logout with an empty refresh_token: revoke_all_user_tokens.
LogoutAll(r, u) ==
    /\ HasAccess(u)
    /\ Arrive(r, [Idle EXCEPT !.op = "logout_all", !.pc = "match", !.user = u,
                              !.reason = "logout"])

\* POST /auth/logout without refresh_token: LogoutRequest requires the field, 422.
LogoutOmitted(r, u) ==
    /\ HasAccess(u)
    /\ Arrive(r, [Idle EXCEPT !.op = "logout_omitted", !.pc = "reply", !.user = u,
                              !.reply = "unprocessable"])

\* The scheduled purge: cutoff taken, DELETE about to start.
Cleanup(r) ==
    Arrive(r, [Idle EXCEPT !.op = "cleanup", !.pc = "match", !.at = now])

-----------------------------------------------------------------------------
(* rotate_refresh_token                                                    *)

\* The request record of r becomes q; nothing is committed.
Step(r, q) ==
    /\ rq' = [rq EXCEPT ![r] = q]
    /\ UNCHANGED <<table, minted, delivered, accessUntil, now>>

\* The answer to a token that is not accepted: the transaction wrote nothing.
Refused(q, answer) == [Idle EXCEPT !.op = q.op, !.pc = "reply", !.tok = q.tok,
                                   !.reply = answer]

SelectMissing(r) ==
    /\ rq[r].pc = "select"
    /\ rq[r].tok \notin Stored
    /\ Step(r, Refused(rq[r], "not_found"))

\* The row read is revoked: invalidate the family it names.
SelectRevoked(r) ==
    /\ rq[r].pc = "select"
    /\ rq[r].tok \in Stored
    /\ table[rq[r].tok].revoked
    /\ Step(r, [rq[r] EXCEPT !.pc = "match", !.fam = table[rq[r].tok].family,
                             !.reason = "replay_attack"])

SelectExpired(r) ==
    /\ rq[r].pc = "select"
    /\ rq[r].tok \in Stored
    /\ ~table[rq[r].tok].revoked
    /\ is_expired(rq[r].tok)
    /\ Step(r, [rq[r] EXCEPT !.pc = "expire", !.reason = "expired"])

\* Mutant: is_revoked is not looked at.
SelectValid_revokedToo(r) ==
    /\ rq[r].pc = "select"
    /\ rq[r].tok \in Stored
    /\ ~is_expired(rq[r].tok)
    /\ Step(r, [rq[r] EXCEPT !.pc = "revoke", !.fam = table[rq[r].tok].family,
                             !.user = table[rq[r].tok].user, !.reason = "rotated"])

\* Mutant: the read locks the parent's row.
SelectValid_lockParent(r) ==
    /\ rq[r].pc = "select"
    /\ rq[r].tok \in Stored
    /\ ~table[rq[r].tok].revoked
    /\ ~is_expired(rq[r].tok)
    /\ ~LockedByOther(r, table[rq[r].tok].parent)
    /\ Step(r, [rq[r] EXCEPT !.pc = "revoke", !.fam = table[rq[r].tok].family,
                             !.user = table[rq[r].tok].user, !.reason = "rotated",
                             !.hit = {table[rq[r].tok].parent} \cap Stored])

\* Mutant: the owner is not carried over to the new token.
SelectValid_noUser(r) ==
    /\ rq[r].pc = "select"
    /\ rq[r].tok \in Stored
    /\ ~table[rq[r].tok].revoked
    /\ ~is_expired(rq[r].tok)
    /\ Step(r, [rq[r] EXCEPT !.pc = "revoke", !.fam = table[rq[r].tok].family,
                             !.reason = "rotated"])

\* From here on the handler trusts the row it has read.
SelectValid(r) ==
    /\ rq[r].pc = "select"
    /\ rq[r].tok \in Stored
    /\ ~table[rq[r].tok].revoked
    /\ ~is_expired(rq[r].tok)
    /\ Step(r, [rq[r] EXCEPT !.pc = "revoke", !.fam = table[rq[r].tok].family,
                             !.user = table[rq[r].tok].user, !.reason = "rotated"])

\* Mutant: the old row is not updated.
RevokeSingle_forgotten(r) ==
    /\ rq[r].pc \in {"revoke", "expire"}
    /\ ~LockedByOther(r, rq[r].tok)
    /\ rq[r].tok \in Stored
    /\ Step(r, [rq[r] EXCEPT !.pc = IF @ = "revoke" THEN "insert" ELSE "rollback"])

\* _revoke_single's flush, UPDATE ... WHERE id: waits for the row lock, and does
\* not look at is_revoked again.
RevokeSingle(r) ==
    /\ rq[r].pc \in {"revoke", "expire"}
    /\ ~LockedByOther(r, rq[r].tok)
    /\ rq[r].tok \in Stored
    /\ Step(r, [rq[r] EXCEPT !.pc = IF @ = "revoke" THEN "insert" ELSE "rollback",
                             !.hit = {rq[r].tok}])

\* An exception nobody catches: get_db rolls back and the answer is a 500.
Failed(q) == [Idle EXCEPT !.op = q.op, !.pc = "reply", !.reply = "error"]

\* The row was purged since it was read: the flush matches no row (StaleDataError).
RevokeVanished(r) ==
    /\ rq[r].pc \in {"revoke", "expire"}
    /\ rq[r].tok \notin Stored
    /\ Step(r, Failed(rq[r]))

\* TOKEN_EXPIRED is raised: get_db rolls back, the flushed revocation with it.
RollbackExpired(r) ==
    /\ rq[r].pc = "rollback"
    /\ Step(r, Refused(rq[r], "expired"))

\* Mutant: rotation forgets family_id and starts a family of its own.
CreateRefreshToken_newFamily(r) ==
    /\ rq[r].pc = "insert"
    /\ \E t \in Tokens \ minted :
          /\ minted' = minted \cup {t}
          /\ rq' = [rq EXCEPT ![r] = [@ EXCEPT !.pc = "commit", !.new = t, !.at = now,
                                              !.fam = t]]
    /\ UNCHANGED <<table, delivered, accessUntil, now>>

\* Mutant: a login may join a session its user already has.
CreateRefreshToken_sharedFamily(r) ==
    /\ rq[r].pc = "insert"
    /\ \E t \in Tokens \ minted :
       \E f \in {t} \cup {table[c].family : c \in {c \in Stored : table[c].user = rq[r].user}} :
          /\ minted' = minted \cup {t}
          /\ rq' = [rq EXCEPT ![r] =
                       [@ EXCEPT !.pc = "commit", !.new = t, !.at = now,
                                 !.fam = IF rq[r].op = "login" THEN f ELSE rq[r].fam]]
    /\ UNCHANGED <<table, delivered, accessUntil, now>>

\* create_refresh_token, for a login (family_id None) or a rotation.
CreateRefreshToken(r) ==
    /\ rq[r].pc = "insert"
    /\ \E t \in Tokens \ minted :
          /\ minted' = minted \cup {t}
          /\ rq' = [rq EXCEPT ![r] =
                       [@ EXCEPT !.pc = "commit", !.new = t, !.at = now,
                                 !.fam = IF rq[r].op = "login" THEN t ELSE rq[r].fam]]
    /\ UNCHANGED <<table, delivered, accessUntil, now>>

\* Mutant: the transaction is closed without a commit.
CommitMint_forgotten(r) ==
    /\ rq[r].pc = "commit"
    /\ Step(r, [rq[r] EXCEPT !.pc = "reply", !.hit = {}, !.reply = "ok"])

\* get_db commits a login or a rotation.
CommitMint(r) ==
    /\ rq[r].pc = "commit"
    /\ table' = [t \in Stored \cup {rq[r].new} |->
                    IF t = rq[r].new THEN NewRow(r) ELSE Written(r, t)]
    /\ rq' = [rq EXCEPT ![r] = [@ EXCEPT !.pc = "reply", !.hit = {}, !.reply = "ok"]]
    /\ UNCHANGED <<minted, delivered, accessUntil, now>>

-----------------------------------------------------------------------------
(* _invalidate_family, revoke_all_user_tokens, logout of one token, purge  *)

\* The statement starts: its snapshot decides which rows it will visit.
Match(r) ==
    /\ rq[r].pc = "match"
    /\ LET matched == {t \in Stored : Where(r, t)}
       IN  Step(r, [rq[r] EXCEPT !.pc = "update", !.cands = matched, !.todo = matched])

\* One row: wait for its lock, then check the WHERE clause again on its last version.
Visit(r) ==
    /\ rq[r].pc = "update"
    /\ \E t \in rq[r].todo :
          /\ ~LockedByOther(r, t)
          /\ Step(r, [rq[r] EXCEPT !.todo = @ \ {t},
                                   !.hit  = IF Where(r, t) THEN @ \cup {t} ELSE @])

\* Mutant: no commit before REPLAY_ATTACK is raised, so get_db rolls back.
CommitBulk_replayRolledBack(r) ==
    /\ rq[r].pc = "update"
    /\ rq[r].todo = {}
    /\ table' = IF rq[r].op = "cleanup"
                THEN [t \in Stored \ rq[r].hit |-> table[t]]
                ELSE IF rq[r].op = "refresh" THEN table
                ELSE [t \in Stored |-> Written(r, t)]
    /\ rq' = [rq EXCEPT ![r] =
                 [@ EXCEPT !.pc = "reply", !.hit = {}, !.at = 0,
                           !.cands = IF rq[r].op = "cleanup" THEN {} ELSE rq[r].cands,
                           !.reply = IF rq[r].op = "refresh" THEN "replay" ELSE "ok"]]
    /\ UNCHANGED <<minted, delivered, accessUntil, now>>

\* For a replay this is rotate_refresh_token's own commit, made before it raises.
CommitBulk(r) ==
    /\ rq[r].pc = "update"
    /\ rq[r].todo = {}
    /\ table' = IF rq[r].op = "cleanup"
                THEN [t \in Stored \ rq[r].hit |-> table[t]]
                ELSE [t \in Stored |-> Written(r, t)]
    /\ rq' = [rq EXCEPT ![r] =
                 [@ EXCEPT !.pc = "reply", !.hit = {}, !.at = 0,
                           !.cands = IF rq[r].op = "cleanup" THEN {} ELSE rq[r].cands,
                           !.reply = IF rq[r].op = "refresh" THEN "replay" ELSE "ok"]]
    /\ UNCHANGED <<minted, delivered, accessUntil, now>>

-----------------------------------------------------------------------------
(* Responses and faults                                                    *)

\* A client receives the pair of tokens r's transaction made.
Deliver(r) ==
    /\ delivered' = [t \in Delivered \cup {rq[r].new} |->
                        IF t = rq[r].new THEN rq[r].at + RefreshTTL ELSE delivered[t]]
    /\ LET exp == rq[r].at + AccessTTL
       IN  accessUntil' = [accessUntil EXCEPT ![rq[r].user] = IF exp > @ THEN exp ELSE @]
    /\ UNCHANGED <<table, minted, now>>

Respond(r) ==
    /\ rq[r].pc = "reply"
    /\ rq' = [rq EXCEPT ![r] = Idle]
    /\ IF rq[r].new # None /\ ~ResponseFirst
       THEN Deliver(r)
       ELSE UNCHANGED <<table, minted, delivered, accessUntil, now>>

\* The handler has returned its answer, and get_db is to commit.  A replay or an expired
\* token raises instead: its answer is made after get_db has rolled back.
Returned(q) ==
    \/ q.pc = "commit"
    \/ q.pc = "update" /\ q.todo = {} /\ q.op \in {"logout", "logout_all"}

\* With FastAPI >= 0.118 the exit code of a dependency runs after the response: of a
\* login, a rotation or a logout.
RespondBeforeCommit(r) ==
    /\ ResponseFirst
    /\ Returned(rq[r]) /\ rq[r].reply = None
    /\ rq' = [rq EXCEPT ![r].reply = "ok"]
    /\ IF rq[r].new # None
       THEN Deliver(r)
       ELSE UNCHANGED <<table, minted, delivered, accessUntil, now>>

\* The answer is lost on the way: the client still holds only what it had.
LoseResponse(r) ==
    /\ rq[r].pc = "reply"
    /\ Step(r, Idle)

\* Mutant: get_db neither rolls back nor closes, so the connection keeps the row locks.
Fail_leftOpen(r) ==
    /\ rq[r].pc \notin {"idle", "reply"}
    /\ Step(r, [Idle EXCEPT !.hit = rq[r].hit])

\* The database fails the transaction.
Fail(r) ==
    /\ rq[r].pc \notin {"idle", "reply"}
    /\ Step(r, Failed(rq[r]))

\* r cannot go on: another transaction holds a row it waits for.
WaitsFor(r, q) ==
    /\ q # r
    /\ \/ rq[r].pc \in {"revoke", "expire"} /\ rq[r].tok \in rq[q].hit
       \/ rq[r].pc = "update" /\ rq[r].todo \cap rq[q].hit # {}

Blocked(r) ==
    \/ rq[r].pc \in {"revoke", "expire"} /\ LockedByOther(r, rq[r].tok)
    \/ rq[r].pc = "update" /\ rq[r].todo # {} /\ \A t \in rq[r].todo : LockedByOther(r, t)

\* r is in a cycle of transactions, each waiting for a row the next one has written.
Deadlocked(r) ==
    \E S \in SUBSET Requests :
        /\ r \in S
        /\ \E next \in [S -> S] :
              /\ {next[s] : s \in S} = S
              /\ \A s \in S : Blocked(s) /\ WaitsFor(s, next[s])

\* PostgreSQL's deadlock detector aborts a transaction of the cycle.
DeadlockVictim(r) ==
    /\ Deadlocked(r)
    /\ Step(r, Failed(rq[r]))

\* The server process dies: open transactions roll back, nobody is answered.
Crash ==
    /\ rq' = [r \in Requests |-> Idle]
    /\ UNCHANGED <<table, minted, delivered, accessUntil, now>>

Tick ==
    /\ now < MaxTime
    /\ now' = now + 1
    /\ UNCHANGED <<table, rq, minted, delivered, accessUntil>>

-----------------------------------------------------------------------------
Arrivals(r) ==
    \/ \E u \in Users : Login(r, u)
    \/ \E t \in Tokens : Refresh(r, t)
    \/ \E u \in Users, t \in Tokens : Logout(r, u, t)
    \/ \E u \in Users : LogoutAll(r, u)
    \/ \E u \in Users : LogoutOmitted(r, u)
    \/ Cleanup(r)

Progress(r) ==
    \/ SelectMissing(r)
    \/ SelectRevoked(r)
    \/ SelectExpired(r)
    \/ SelectValid(r)
    \/ RevokeSingle(r)
    \/ RevokeVanished(r)
    \/ RollbackExpired(r)
    \/ CreateRefreshToken(r)
    \/ CommitMint(r)
    \/ Match(r)
    \/ Visit(r)
    \/ CommitBulk(r)
    \/ Respond(r)

Faults(r) ==
    \/ RespondBeforeCommit(r)
    \/ LoseResponse(r)
    \/ Fail(r)
    \/ DeadlockVictim(r)

Next ==
    \/ \E r \in Requests : Arrivals(r) \/ Progress(r) \/ Faults(r)
    \/ Crash
    \/ Tick

Spec == Init /\ [][Next]_vars

(***************************************************************************)
(* Fairness.  The event loop runs every coroutine that is ready, and       *)
(* PostgreSQL answers every statement, wakes those who wait for a row in   *)
(* the order they came, and breaks deadlocks.  Nothing obliges a client to *)
(* send a request or a fault to happen.  The third conjunct belongs to the *)
(* bound on Tokens: with none left, an insert fails.                       *)
(***************************************************************************)
Fairness ==
    \A r \in Requests :
        /\ WF_vars(Progress(r))
        /\ SF_vars(RevokeSingle(r)) /\ SF_vars(Visit(r))
        /\ WF_vars(rq[r].pc = "insert" /\ minted = Tokens /\ Fail(r))
        /\ WF_vars(DeadlockVictim(r))

FairSpec == Spec /\ Fairness
-----------------------------------------------------------------------------
(* Invariants                                                              *)

\* The transaction of q has read a valid token and will rotate it.
Rotating(q) == q.op = "refresh" /\ q.pc \in {"revoke", "insert", "commit"}

\* What a request knows at each point of its handler.
WellFormed(q) ==
    /\ q.op \in {"login", "logout", "logout_all"} /\ q.pc # "reply" => q.user \in Users
    /\ q.op \in {"refresh", "logout"} /\ q.pc # "reply" => q.tok \in Tokens
    /\ q.op \in {"refresh", "logout"} => q.tok \in minted \cup {None}
    /\ Rotating(q) => q.user \in Users /\ q.fam \in Tokens /\ q.reason = "rotated"
    /\ q.pc \in {"select", "revoke", "expire", "rollback"} => q.op = "refresh"
    /\ q.pc \in {"insert", "commit"} => q.op \in {"login", "refresh"}
    /\ q.op = "login" => q.tok = None /\ q.hit = {}
    /\ q.pc = "commit" => q.new \in Tokens /\ q.fam \in Tokens
    /\ q.new # None => q.user \in Users /\ q.new \in minted

\* Every variable has its type, and a request carries what its handler has read or
\* been given by the time it needs it (rotate_refresh_token, create_refresh_token).
TypeOK ==
    /\ DOMAIN table \subseteq Tokens
    /\ table = [t \in DOMAIN table |-> table[t]]
    /\ \A t \in DOMAIN table : table[t] \in Row
    /\ rq \in [Requests -> Request]
    /\ minted \subseteq Tokens
    /\ Delivered \subseteq minted
    /\ delivered \in [Delivered -> Nat]
    /\ accessUntil \in [Users -> Nat]
    /\ now \in Nat
    /\ \A r \in Requests : WellFormed(rq[r])

\* A token made by rotation belongs to its parent's session and owner, its parent
\* is revoked and marked used, and it does not expire before its parent, however
\* requests interleave and wherever they fail (parent_token_hash, family_id).
SessionChain ==
    \A c \in Stored : table[c].parent \in Stored =>
        LET p == table[c].parent
        IN  /\ table[p].revoked /\ table[p].used
            /\ table[c].family = table[p].family
            /\ table[c].user = table[p].user
            /\ table[p].expires <= table[c].expires

\* f was started, has no live row, and no transaction is about to give it one.
SessionDead(f) ==
    /\ f \in minted
    /\ \A t \in Stored : table[t].family = f => table[t].revoked
    /\ \A r \in Requests : rq[r].pc \in {"revoke", "insert", "commit"} => rq[r].fam # f

\* Once a session has no live token and no rotation of it is in flight, nothing any
\* client sends brings it back: a new login is needed (rotate_refresh_token).
DeadSessionStaysDead ==
    [][\A f \in Tokens : SessionDead(f) => SessionDead(f)']_vars

\* Once the transaction of a logout or of a replay is over and was not rolled back, every
\* row the UPDATE matched is revoked on disk or purged, whatever raced with it and although
\* a replay ends in an exception that makes get_db roll back.
StatementCovers ==
    \A r \in Requests :
        rq[r].pc = "reply" /\ rq[r].reply \in {"ok", "replay"} /\ rq[r].op # "cleanup" =>
            \A t \in rq[r].cands : t \in Stored => table[t].revoked

\* The rows a commit of r may revoke: of the presented token's session, or r's own.
\* The presented token may have been purged since its family was read.
Reach(r) ==
    {t \in Stored : \/ /\ rq[r].op = "refresh"
                       /\ IF rq[r].tok \in Stored
                          THEN table[t].family = table[rq[r].tok].family
                          ELSE table[t].family = rq[r].fam
                    \/ /\ rq[r].op \in {"logout", "logout_all"}
                       /\ table[t].user = rq[r].user}

\* A step that revokes rows is one request's commit, and touches no session but the
\* presented token's (refresh, replay) and no user but the caller (logout).
BlastRadius ==
    [][\E r \in Requests \cup {None} :
          {t \in Stored \cap Stored' : ~table[t].revoked /\ table'[t].revoked}
            \subseteq IF r \in Requests THEN Reach(r) ELSE {}]_vars

\* A token a client has received is in the table, with the lifetime it was issued with,
\* until that is over: get_db commits before the response leaves (FastAPI before 0.118),
\* and the purge takes nothing a moment too early.
DeliveredIsDurable ==
    \A t \in Delivered :
        IF t \in Stored THEN table[t].expires = delivered[t] ELSE now > delivered[t]

\* revoked_reason and used_at tell the same story on disk: used means rotated, an
\* unrevoked row has no reason, and no row ever says "expired" (get_db undoes it).
AuditTrail ==
    \A t \in Stored :
        /\ table[t].used <=> table[t].reason = "rotated"
        /\ table[t].revoked <=> table[t].reason # None
        /\ table[t].reason # "expired"

\* The deadlock detector never costs a client its login or its rotation: only a
\* statement over several rows holds one while it waits for another.
OnlyBulkDeadlocks ==
    \A r \in Requests : Deadlocked(r) => rq[r].pc = "update"

-----------------------------------------------------------------------------
(* What the documentation says of a session                                *)

Live(t) == t \in Stored /\ ~table[t].revoked /\ ~is_expired(t)

\* "Il refresh token presentato viene immediatamente revocato": a token buys at
\* most one successor (endpoints/auth.py, rotate_refresh_token).
SingleUse ==
    \A c, d \in Stored :
        table[c].parent # None /\ table[c].parent = table[d].parent => c = d

\* After the replay answer no token of the session is usable ("Tutta la family di
\* token viene invalidata").
ReplayEndsSession ==
    \A r \in Requests : rq[r].pc = "reply" /\ rq[r].reply = "replay" =>
        \A t \in Stored : Live(t) => table[t].family # rq[r].fam

\* When a global logout is answered none of the sessions it was asked to end is usable
\* ("logout globale: revoca tutte le sessioni attive dell'utente").  It is answered before
\* its commit with FastAPI >= 0.118.
GlobalLogoutEndsSessions ==
    \A r \in Requests :
        rq[r].op = "logout_all" /\ rq[r].reply = "ok" =>
            \A t \in rq[r].cands, c \in Stored :
                t \in Stored /\ table[t].family = table[c].family => ~Live(c)

\* The session a client holds is one token: at no time can two tokens of a session both
\* be refreshed, so that a copied token and its successor never both work ("family").
OneLiveToken ==
    \A c, d \in Stored :
        /\ table[c].family = table[d].family
        /\ ~table[c].revoked /\ ~table[d].revoked
        => c = d

(***************************************************************************)
(* The overlaps of requests the code does not exclude, and under which     *)
(* alone the contract above can break as long as answers follow commits:   *)
(* two rotations of one token, a rotation in the session a replay is       *)
(* invalidating, a rotation for the user whose sessions a global logout    *)
(* is ending.                                                              *)
(***************************************************************************)

OneRotation ==
    \A r, s \in Requests :
        r # s /\ Rotating(rq[r]) /\ Rotating(rq[s]) => rq[r].tok # rq[s].tok

QuietReplay ==
    \A r, s \in Requests :
        r # s /\ rq[r].op = "refresh" /\ rq[r].pc = "update" /\ Rotating(rq[s]) =>
            rq[s].fam # rq[r].fam

QuietLogout ==
    \A r, s \in Requests :
        r # s /\ rq[r].op = "logout_all" /\ rq[r].pc = "update" /\ Rotating(rq[s]) =>
            rq[s].user # rq[r].user

\* "Revoca ordinata": a token refused as expired is revoked in the table.
ExpiredIsRevoked ==
    \A r \in Requests : rq[r].pc = "reply" /\ rq[r].reply = "expired" =>
        (rq[r].tok \in Stored => table[rq[r].tok].revoked)

-----------------------------------------------------------------------------
(* Liveness                                                                *)

\* Every request and every purge is over some day, so that a slot is idle again and
\* again (the same as busy ~> idle, and cheaper for TLC): no lock wait lasts, no deadlock
\* stays, and a purge never leaves a rotation without a row to wait for.
EveryRequestEnds ==
    \A r \in Requests : []<>(rq[r].pc = "idle")
=============================================================================
