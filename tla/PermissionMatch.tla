--------------------------- MODULE PermissionMatch ---------------------------
(***************************************************************************)
(* _has_permission of app/services/rbac.py: what a list of permissions     *)
(* allows, and the codenames create_permission and create_admin_role make. *)
(*                                                                         *)
(* A permission is a string; what the matching sees of it is where its     *)
(* colons are, so it is the non-empty sequence of the segments between     *)
(* them: "tasks:read" is <<"tasks", "read">>, "*" is <<"*">>, and a second *)
(* colon stays in the action, "a:b:c" is resource "a", action "b:c".       *)
(***************************************************************************)
EXTENDS Naturals, Sequences

CONSTANT Segments       \* strings without a colon

ASSUME SegmentsAssumption == "*" \in Segments

Codenames == Seq(Segments) \ {<<>>}

Star == <<"*">>

HasColon(c) == Len(c) > 1       \* ":" in c
Resource(c) == <<Head(c)>>      \* c.split(":", 1)[0]
Action(c)   == Tail(c)          \* c.split(":", 1)[1]

\* codename = f"{resource}:{action}"
Codename(resource, action) == resource \o action

\* Mutant: the wildcard is looked for in what is required.
Allows_swapped(perm, required) ==
    \/ perm = Star
    \/ /\ HasColon(perm) /\ HasColon(required)
       /\ Resource(required) \in {Resource(perm), Star}
       /\ Action(perm) \in {Action(required), Star}
    \/ /\ ~(HasColon(perm) /\ HasColon(required))
       /\ perm = required

\* One turn of the loop: does perm alone allow required?
Allows(perm, required) ==
    \/ perm = Star
    \/ /\ HasColon(perm) /\ HasColon(required)
       /\ Resource(perm) \in {Resource(required), Star}
       /\ Action(perm) \in {Action(required), Star}
    \/ /\ ~(HasColon(perm) /\ HasColon(required))
       /\ perm = required

\* The loop returns at the first permission that allows it.
has_permission(permissions, required) ==
    \E i \in 1..Len(permissions) : Allows(permissions[i], required)

-----------------------------------------------------------------------------
(* The reference: the table of the docstring read as a language.  A        *)
(* permission stands for the codenames one gets by filling in its stars.   *)

Fill(part, values) == IF part = Star THEN values ELSE {part}

StandsFor(perm, universe) ==
    IF perm = Star THEN universe
    ELSE IF ~HasColon(perm) THEN {perm}
    ELSE LET pairs == {c \in universe : HasColon(c)}
         IN  {Codename(r, a) : r \in Fill(Resource(perm), {Resource(c) : c \in pairs}),
                               a \in Fill(Action(perm), {Action(c) : c \in pairs})}
=============================================================================
