------------------------------ MODULE Directory ------------------------------
(***************************************************************************)
(* What the tables of tenants and accounts promise under any load: a       *)
(* directory written one entry at a time, without statements, locks,       *)
(* snapshots, answers or schemas.                                          *)
(*                                                                         *)
(* A tenant is entered under names nobody else has, and has its system     *)
(* roles from the start.  Its limits always come with its plan.  An        *)
(* account is entered once for an email of a tenant, with a role of that   *)
(* tenant or none.  A login leaves one mark, on one account, and only a    *)
(* mark makes a session, at most one.  Nothing is ever taken out.          *)
(*                                                                         *)
(* An amendment gives each column it names the value it asks for or leaves *)
(* the column alone: the service does not promise that a PATCH that        *)
(* overlaps another one takes effect, only that it does nothing else.      *)
(***************************************************************************)
CONSTANTS
    TenantIds, UserIds, Emails, None,
    Logins,             \* the logins there may be
    Orders,             \* of tenants: slug, subdomain, plan
    Patches,            \* amendments: plan, is_active, or None
    Limits,             \* of each plan
    SystemRoleNames

VARIABLES
    entries,    \* the tenants: slug, subdomain, plan, limits, active
    accounts,   \* tenant, email, post, active
    marks,      \* what logins have left: login, user, tenant
    sessions    \* the marks that have made a session

vars == <<entries, accounts, marks, sessions>>

Init ==
    /\ entries = [t \in {} |-> None]
    /\ accounts = [u \in {} |-> None]
    /\ marks = {}
    /\ sessions = {}

Entered == DOMAIN entries
Enrolled == DOMAIN accounts

Posts(t) == [tenant : {t}, name : SystemRoleNames]

Enter(t, order) ==
    /\ t \notin Entered
    /\ \A s \in Entered : /\ entries[s].slug # order.slug
                          /\ entries[s].subdomain # order.subdomain
    /\ entries' = [s \in Entered \cup {t} |->
                      IF s = t
                      THEN [slug |-> order.slug, subdomain |-> order.subdomain,
                            plan |-> order.plan, limits |-> Limits[order.plan], active |-> TRUE]
                      ELSE entries[s]]
    /\ UNCHANGED <<accounts, marks, sessions>>

Amend(t, patch) ==
    /\ \E plan \in {entries[t].plan, patch.plan} \ {None},
          active \in {entries[t].active, patch.is_active} \ {None} :
          entries' = [entries EXCEPT ![t] =
              [slug |-> entries[t].slug, subdomain |-> entries[t].subdomain,
               plan |-> plan, limits |-> Limits[plan], active |-> active]]
    /\ UNCHANGED <<accounts, marks, sessions>>

Enroll(u, t, email, post) ==
    /\ u \notin Enrolled
    /\ \A v \in Enrolled : ~(accounts[v].tenant = t /\ accounts[v].email = email)
    /\ accounts' = [v \in Enrolled \cup {u} |->
                       IF v = u
                       THEN [tenant |-> t, email |-> email, post |-> post, active |-> TRUE]
                       ELSE accounts[v]]
    /\ UNCHANGED <<entries, marks, sessions>>

Suspend(u) ==
    /\ accounts' = [accounts EXCEPT ![u].active = FALSE]
    /\ UNCHANGED <<entries, marks, sessions>>

Mark(login, u) ==
    /\ \A m \in marks : m.login # login
    /\ marks' = marks \cup {[login |-> login, user |-> u, tenant |-> accounts[u].tenant]}
    /\ UNCHANGED <<entries, accounts, sessions>>

Admit(m) ==
    /\ m \in marks \ sessions
    /\ sessions' = sessions \cup {m}
    /\ UNCHANGED <<entries, accounts, marks>>

Next ==
    \/ \E t \in Entered, patch \in Patches : Amend(t, patch)
    \/ \E t \in TenantIds, order \in Orders : Enter(t, order)
    \/ \E u \in Enrolled : Suspend(u) \/ \E login \in Logins : Mark(login, u)
    \/ \E u \in UserIds, t \in Entered, email \in Emails :
          \E post \in Posts(t) \cup {None} : Enroll(u, t, email, post)
    \/ \E m \in marks : Admit(m)

Spec == Init /\ [][Next]_vars
=============================================================================
