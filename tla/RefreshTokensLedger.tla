------------------------- MODULE RefreshTokensLedger -------------------------
(* RefreshTokens seen as a TokenLedger: rows without their reasons, and of *)
(* each request only the token it is about to make.                        *)
EXTENDS RefreshTokens

entriesBar ==
    [t \in Stored |-> [session |-> table[t].family, owner |-> table[t].user,
                       live |-> ~table[t].revoked, expires |-> table[t].expires]]

\* The claim of a login starts when its row is about to be made, that of a rotation
\* when the row it read was valid.
claimBar(r) ==
    IF Rotating(rq[r]) \/ (rq[r].op = "login" /\ rq[r].pc \in {"insert", "commit"})
    THEN [owner |-> rq[r].user, session |-> rq[r].fam, from |-> rq[r].tok,
          to |-> rq[r].new, at |-> rq[r].at]
    ELSE [owner |-> None, session |-> None, from |-> None, to |-> None, at |-> 0]

claimsBar == [r \in Requests |-> claimBar(r)]

Ledger == INSTANCE TokenLedger WITH
              TTL <- RefreshTTL, entries <- entriesBar, claims <- claimsBar,
              drawn <- minted, time <- now

\* Whatever the interleaving of statements, lock waits, commits, failures and
\* crashes, the token table behaves as the ledger: each step of the code is a step
\* of the ledger or leaves it alone.
ImplementsLedger == Ledger!Spec
=============================================================================
