---------------------------- MODULE MCRoleCatalog ----------------------------
(***************************************************************************)
(* Small catalogues for the model checking of RoleCatalog.  The behaviours *)
(* explored are those of Spec in one of three scopes, a bound on what is   *)
(* combined: in "roles" roles are created and the clock stands still, in   *)
(* "claims" only grants, logins and time pass, in "policies" policies are  *)
(* written for the system roles and one that may not exist.                *)
(***************************************************************************)
EXTENDS RoleCatalog, TLC

VARIABLE scope

Role(name, list) == [name |-> name, codenames |-> list]

TasksRead  == <<"tasks", "read">>
TasksWrite == <<"tasks", "write">>

\* "tasks:read,*", one codename with a comma in it.
WithComma == <<"tasks", "read,*">>

SplitAtCommas(c) == IF c = WithComma THEN {TasksRead, Star} ELSE {c}

\* A role of two permissions, a list whose first entry has a comma and whose second has
\* no colon, a second "admin".
SomeRoles == {Role("editor", <<TasksRead, TasksWrite>>),
              Role("broken", <<WithComma, <<"tasks">>>>),
              Role("admin",  <<>>)}

ReadPair == {Pair(TasksRead)}

\* Codenames of one to three segments, wildcards in every place.
Universe == UNION {[1..n -> {"*", "tasks", "read"}] : n \in 1..3}

InScope ==
    LET ops == {rq[r].op : r \in Requests}
        creating == {"create_role", "create_admin_role"}
    IN  CASE scope = "roles"    -> now = 0 /\ "policy" \notin ops
          [] scope = "claims"   -> ops \cap (creating \cup {"policy"}) = {}
          [] scope = "policies" -> now = 0 /\ ops \subseteq {"none", "login", "policy"}

MCInit == Init /\ scope \in {"roles", "claims", "policies"}
MCNext == Next /\ UNCHANGED scope /\ InScope'
MCSpec == MCInit /\ [][MCNext]_<<vars, scope>>

Symmetry == Permutations(Users) \cup Permutations(Requests) \cup
            Permutations(RoleIds \ {AdminId, ViewerId})
=============================================================================
