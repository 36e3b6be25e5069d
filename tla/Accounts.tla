------------------------------ MODULE Accounts ------------------------------
(***************************************************************************)
(* The rows of advisor_user and the rules web/auth.py (UserStore) applies   *)
(* to them: the role order, who counts as an active administrator, when     *)
(* set_role refuses, what it writes, and what a sign-in writes.             *)
(*                                                                          *)
(* Queue names are members of Group.  The comma-joined, case-insensitive    *)
(* text column assignment_groups is the set of the queues it names; the     *)
(* empty set is the NULL column.                                            *)
(***************************************************************************)
EXTENDS Naturals, FiniteSets

CONSTANTS User,   \* the accounts (usernames) of the service
          Group   \* the assignment groups the service tracks

Role         == {"VIEWER", "LEAD", "ADMIN"}
RoleSource   == {"MANUAL", "REQUEST"}
GroupsSource == {"MANUAL", "SERVICENOW"}

Account == [role : Role, scope : SUBSET Group, active : BOOLEAN,
            roleSource : RoleSource, groupsSource : GroupsSource]

\* The order a request is compared in: "rank rather than string compare".
Rank == [VIEWER |-> 0, LEAD |-> 1, ADMIN |-> 2]

-----------------------------------------------------------------------------
(* UserStore.active_admins and set_role.                                    *)

ActiveAdmins(acc) == {u \in User : acc[u].active /\ acc[u].role = "ADMIN"}

\* Mutant: the account about to lose the role counts as the one that remains.
SetRoleRefusedNone(acc, u, role) ==
    acc[u].role = "ADMIN" /\ role # "ADMIN" /\ ActiveAdmins(acc) = {}

\* set_role raises rather than take ADMIN from the only active administrator.
SetRoleRefused(acc, u, role) ==
    /\ acc[u].role = "ADMIN"
    /\ role # "ADMIN"
    /\ ActiveAdmins(acc) \ {u} = {}

\* The UPDATE of set_role: role, scope and role_source.  groups_source is not
\* among the columns it writes.
RoleSet(acc, u, role, scope, source) ==
    [acc EXCEPT ![u] = [@ EXCEPT !.role = role, !.scope = scope, !.roleSource = source]]

\* admin_user_active refuses to deactivate oneself or the only administrator.
DeactivationRefused(acc, actor, u) ==
    \/ u = actor
    \/ /\ acc[u].role = "ADMIN"
       /\ ActiveAdmins(acc) \ {u} = {}

\* jit_upsert on an existing row: the scope is replaced when re-deriving is on,
\* something was derived, and the scope was derived in the first place.
SignedIn(acc, u, refresh, derived) ==
    IF refresh /\ derived # {} /\ acc[u].groupsSource = "SERVICENOW"
    THEN [acc EXCEPT ![u].scope = derived]
    ELSE acc

=============================================================================
