------------------------------ MODULE MCAccounts ------------------------------
(***************************************************************************)
(* Small instances of Accounts for model checking.  The behaviours         *)
(* explored are those of AccountsSpec in one of two scopes, a bound on     *)
(* what is combined: in "plans" no registration or login arrives, in       *)
(* "accounts" tenants are created and activated or deactivated by one      *)
(* request at a time, no PATCH names a plan and no slug is too long.       *)
(***************************************************************************)
EXTENDS AccountsDirectory, TLC

VARIABLE scope

Body(slug, subdomain, plan) == [slug |-> slug, subdomain |-> subdomain, plan |-> plan]
Patch(plan, active) == [plan |-> plan, is_active |-> active]

A    == <<"a", "-", "b">>
B    == <<"a", "-", "c">>
Long == <<"a", "-", "b", "c">>

\* With NameLimit 9 the first two fall into one schema, and each has a subdomain that
\* somebody else has as slug.  The third is too long for db_schema when ColumnLimit is 10.
ThreeBodies == {Body(A, B, "free"), Body(B, A, "free"), Body(Long, B, "free")}

\* Two upgrades, one of which also deactivates; a deactivation; a reactivation.
FourPatches == {Patch("pro", None), Patch("enterprise", FALSE),
                Patch(None, FALSE), Patch(None, TRUE)}

InScope ==
    IF scope = "plans"
    THEN \A r \in Requests : calls[r].pc = "idle"
    ELSE /\ \A r, s \in Requests : r = s \/ "none" \in {rq[r].op, rq[s].op}
         /\ \A r \in Requests :
               /\ calls[r].slug # Long /\ (rq[r].op = "create" => rq[r].row.slug # Long)
               /\ rq[r].patch # None => rq[r].patch.plan = None

MCInit == AccountsInit /\ scope \in {"plans", "accounts"}
MCNext == AccountsNext /\ UNCHANGED scope /\ InScope'
MCSpec == MCInit /\ [][MCNext]_<<allVars, scope>>

Symmetry == Permutations(TenantIds) \cup Permutations(Requests) \cup Permutations(UserIds)
=============================================================================
