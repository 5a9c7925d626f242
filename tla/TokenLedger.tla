----------------------------- MODULE TokenLedger -----------------------------
(***************************************************************************)
(* What the refresh-token store promises under any load: a ledger of       *)
(* tokens, without statements, locks, replies or reasons.                  *)
(*                                                                         *)
(* A request stakes a claim, a new session for a user or the rotation of a *)
(* live token; it draws a token nobody has had; then it enters the token   *)
(* in the ledger and ends the one it rotates, in one step.  Live tokens of *)
(* one session or of one owner can be ended together.  Ended tokens stay   *)
(* ended, nothing leaves the ledger before it expires, and every token has *)
(* the session and the owner of the token it was made from.                *)
(*                                                                         *)
(* A claim is not exclusive, and ending a token does not withdraw a claim  *)
(* on it: the store promises no more than that (see the violation runs of  *)
(* RefreshTokens).                                                         *)
(***************************************************************************)
EXTENDS Integers

CONSTANTS Tokens, Users, Requests, None, TTL

VARIABLES
    entries,    \* the tokens in the ledger: session, owner, live, expires
    claims,     \* each request's claim, or NoClaim
    drawn,      \* tokens drawn so far
    time

vars == <<entries, claims, drawn, time>>

\* from : the token rotated, None for a new session;  to : the token drawn for it
NoClaim == [owner |-> None, session |-> None, from |-> None, to |-> None, at |-> 0]

Init ==
    /\ entries = [t \in {} |-> None]
    /\ claims = [r \in Requests |-> NoClaim]
    /\ drawn = {}
    /\ time = 0

Entered == DOMAIN entries

\* A user asks for a new session, or a token that is live and in time is presented.
Claim(r, u, t) ==
    /\ claims[r] = NoClaim
    /\ IF t = None
       THEN claims' = [claims EXCEPT ![r] = [NoClaim EXCEPT !.owner = u]]
       ELSE /\ t \in Entered
            /\ entries[t].live /\ entries[t].owner = u /\ time <= entries[t].expires
            /\ claims' = [claims EXCEPT ![r] = [NoClaim EXCEPT !.owner = u, !.from = t,
                                                   !.session = entries[t].session]]
    /\ UNCHANGED <<entries, drawn, time>>

Draw(r, t) ==
    /\ claims[r] # NoClaim /\ claims[r].to = None
    /\ t \notin drawn
    /\ drawn' = drawn \cup {t}
    /\ LET session == IF claims[r].session = None THEN t ELSE claims[r].session IN
       claims' = [claims EXCEPT ![r] = [@ EXCEPT !.to = t, !.at = time,
                                                 !.session = session]]
    /\ UNCHANGED <<entries, time>>

Enter(r) ==
    /\ claims[r].to # None
    /\ claims[r].from # None => claims[r].from \in Entered
    /\ entries' = [t \in Entered \cup {claims[r].to} |->
                      IF t = claims[r].to
                      THEN [session |-> claims[r].session, owner |-> claims[r].owner,
                            live |-> TRUE, expires |-> claims[r].at + TTL]
                      ELSE [entries[t] EXCEPT !.live = @ /\ t # claims[r].from]]
    /\ claims' = [claims EXCEPT ![r] = NoClaim]
    /\ UNCHANGED <<drawn, time>>

\* Requests fail, alone or together.
Withdraw(R) ==
    /\ claims' = [r \in Requests |-> IF r \in R THEN NoClaim ELSE claims[r]]
    /\ UNCHANGED <<entries, drawn, time>>

\* Logout of a token or of its owner, or invalidation of a session.
End(S) ==
    /\ S # {} /\ S \subseteq Entered
    /\ \/ \A s, t \in S : entries[s].session = entries[t].session
       \/ \A s, t \in S : entries[s].owner = entries[t].owner
    /\ entries' = [t \in Entered |-> [entries[t] EXCEPT !.live = @ /\ t \notin S]]
    /\ UNCHANGED <<claims, drawn, time>>

Purge(S) ==
    /\ S # {} /\ S \subseteq Entered
    /\ \A t \in S : entries[t].expires < time
    /\ entries' = [t \in Entered \ S |-> entries[t]]
    /\ UNCHANGED <<claims, drawn, time>>

Tick ==
    /\ time' = time + 1
    /\ UNCHANGED <<entries, claims, drawn>>

Next ==
    \/ \E r \in Requests, u \in Users, t \in Tokens \cup {None} : Claim(r, u, t)
    \/ \E r \in Requests, t \in Tokens : Draw(r, t)
    \/ \E r \in Requests : Enter(r)
    \/ \E R \in SUBSET Requests : Withdraw(R)
    \/ \E S \in SUBSET Tokens : End(S) \/ Purge(S)
    \/ Tick

Spec == Init /\ [][Next]_vars
=============================================================================
