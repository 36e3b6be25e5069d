-------------------------- MODULE AccountReconcile --------------------------
(***************************************************************************)
(* The job that deactivates the accounts of people Keycloak no longer knows *)
(* (scheduler/jobs.py, reconcile_users), beside the users page and          *)
(* `run.py grant`, which write the same rows.                               *)
(*                                                                          *)
(* The job reads the accounts, asks Keycloak about each of them, reads the  *)
(* administrators, and deactivates one account after the other: minutes in  *)
(* which roles and accounts change under it.  Keycloak may be down, or the  *)
(* realm renamed, so that nobody is found.                                  *)
(*                                                                          *)
(* An account is its role and whether it is active; scopes, and             *)
(* last_seen_idp_at, which nothing here reads, are left out, and so is the  *)
(* dry run, which writes nothing else.  A read sees what was last committed. *)
(***************************************************************************)
EXTENDS Accounts

CONSTANTS
    Oidc,       \* accounts with auth_source 'OIDC'; the others are local
    Job,        \* the scheduled job, and `run.py sync-users`
    Editor,     \* who writes accounts by hand: the event loop, `run.py grant`
    Page,       \* the event loop, which runs one body at a time
    Ceiling,    \* auth.reconcile.max_deactivate_pct
    Roles,      \* the roles in use
    MaxEvents   \* bound on edits, departures, returns, outages, errors

\* Accounts are numbered in the order of their usernames (order_by='username').
ASSUME UserAssumption ==
    User \subseteq Nat \ {0} /\ IsFiniteSet(User) /\ Oidc \subseteq User
ASSUME WriterAssumption ==
    Page \in Editor /\ Editor \cap Job = {} /\ Roles \subseteq Role
ASSUME BoundAssumption == Ceiling \in 0..99 /\ MaxEvents \in Nat

VARIABLES
    account,   \* advisor_user
    present,   \* who is enabled in Keycloak
    idp,       \* how Keycloak answers
    job,       \* the run in flight of each job
    edit,      \* the role or the activation about to be written by hand
    events,    \* edits, departures, returns, outages, errors so far
    stale,     \* history: writers whose reading somebody has written over
    steady     \* history: runs that Keycloak answered, while nothing changed there

vars == <<account, present, idp, job, edit, events, stale, steady>>

Person == [role : Role, active : BOOLEAN]

\* `admin' is whose role read ADMIN with the accounts, `admins' the names read later.
Run == [phase : {"idle", "looking", "closing"},
        checked : SUBSET User, admin : SUBSET User, todo : SUBSET User,
        gone : SUBSET User, admins : SUBSET User]

Edit == [kind : {"none", "role", "active"}, user : User \cup {0}, role : Role,
         active : BOOLEAN]

NoRun == [phase |-> "idle", checked |-> {}, admin |-> {}, todo |-> {},
          gone |-> {}, admins |-> {}]

NoEdit == [kind |-> "none", user |-> 0, role |-> "VIEWER", active |-> FALSE]

TypeOK ==
    /\ account \in [User -> Person]
    /\ present \subseteq Oidc
    /\ idp \in {"up", "down", "renamed"}
    /\ job \in [Job -> Run]
    /\ edit \in [Editor -> Edit]
    /\ events \in 0..MaxEvents
    /\ stale \subseteq Job \cup Editor
    /\ steady \subseteq Job

Init ==
    /\ account \in [User -> [role : Roles, active : BOOLEAN]]
    /\ ActiveAdmins(account) # {}
    /\ present \in SUBSET Oidc
    /\ idp \in {"up", "down", "renamed"}
    /\ job = [j \in Job |-> NoRun]
    /\ edit = [e \in Editor |-> NoEdit]
    /\ events = 0 /\ stale = {} /\ steady = {}

Event == events < MaxEvents /\ events' = events + 1

Active == {u \in User : account[u].active}

\* The first name of a list ordered by username (of none, if S is empty).
First(S) == {u \in S : \A v \in S : u <= v}

InFlight == {j \in Job : job[j].phase # "idle"} \cup {e \in Editor : edit[e].kind # "none"}

\* x writes: what the others in flight have read may no longer be so.
Writes(x) == stale' = (stale \cup (InFlight \ {x})) \cap InFlight'

\* The history of what is over is forgotten.
Forget == stale' = stale \cap InFlight' /\ steady' = steady \cap InFlight'

-----------------------------------------------------------------------------
(* reconcile_users.                                                         *)

\* No active single sign-on account: the run is over.
StartForNobody(j) ==
    /\ job[j].phase = "idle" /\ Active \cap Oidc = {}
    /\ UNCHANGED vars

\* Active single sign-on accounts.
Start(j) ==
    /\ job[j].phase = "idle" /\ Active \cap Oidc # {}
    /\ job' = [job EXCEPT ![j] =
                 [NoRun EXCEPT !.phase = "looking", !.checked = Active \cap Oidc,
                               !.todo = Active \cap Oidc,
                               !.admin = ActiveAdmins(account) \cap Oidc]]
    /\ steady' = steady \cup {j}
    /\ UNCHANGED <<account, present, idp, edit, events, stale>>

\* The next account to ask about.
Asked(j, u) == job[j].phase = "looking" /\ u \in First(job[j].todo)

Looked(j, u, gone) ==
    job' = [job EXCEPT ![j].todo = @ \ {u}, ![j].gone = gone]

\* find_by_external_id or find_user, and is_active.
LookUp(j, u) ==
    /\ Asked(j, u) /\ idp # "down"
    /\ Looked(j, u, IF idp = "up" /\ u \in present THEN job[j].gone ELSE job[j].gone \cup {u})
    /\ UNCHANGED <<account, present, idp, edit, events, stale, steady>>

\* KeycloakError: always while Keycloak is down, now and then otherwise.
LookUpFails(j, u) ==
    /\ Asked(j, u)
    /\ \/ idp = "down" /\ UNCHANGED <<events, steady>>
       \/ idp # "down" /\ Event /\ steady' = steady \ {j}
    /\ Looked(j, u, job[j].gone)
    /\ UNCHANGED <<account, present, idp, edit, stale>>

\* Mutant: the share is taken of all accounts, not of those checked.
BeyondCeilingOfAll(j) == 100 * Cardinality(job[j].gone) > Ceiling * Cardinality(User)

BeyondCeiling(j) ==
    100 * Cardinality(job[j].gone) > Ceiling * Cardinality(job[j].checked)

\* Everybody was asked about: nothing to do, refused, or the administrators are read.
Judge(j) ==
    /\ job[j].phase = "looking" /\ job[j].todo = {}
    /\ job' = [job EXCEPT ![j] =
                 IF job[j].gone = {} \/ BeyondCeiling(j) THEN NoRun
                 ELSE [job[j] EXCEPT !.phase = "closing", !.admins = ActiveAdmins(account)]]
    /\ UNCHANGED <<account, present, idp, edit, events>>
    /\ Forget

\* The next account that is gone.
Leaver(j, u) == job[j].phase = "closing" /\ u \in First(job[j].gone)

\* Mutants: nobody remains is the last one, or the role of the leaver is not looked at.
NoAdmin(j, u)       == u \in job[j].admin /\ job[j].admins = {}
AnybodyLast(j, u)   == Cardinality(job[j].admins) <= 1

\* "is gone from Keycloak but is the only active administrator"
OnlyAdmin(j, u) == u \in job[j].admin /\ Cardinality(job[j].admins) <= 1

\* On to the next account, or the end.
Onwards(j, u, admins) ==
    job' = [job EXCEPT ![j] = IF job[j].gone = {u} THEN NoRun
                              ELSE [job[j] EXCEPT !.gone = job[j].gone \ {u},
                                                  !.admins = admins]]

\* Mutant: who was closed goes on counting as an administrator.
CloseUncounted(j, u) ==
    /\ Leaver(j, u) /\ ~OnlyAdmin(j, u)
    /\ account' = [account EXCEPT ![u].active = FALSE]
    /\ Onwards(j, u, job[j].admins)
    /\ UNCHANGED <<present, idp, edit, events>>
    /\ Writes(j) /\ steady' = steady \cap InFlight'

Close(j, u) ==
    /\ Leaver(j, u) /\ ~OnlyAdmin(j, u)
    /\ account' = [account EXCEPT ![u].active = FALSE]
    /\ Onwards(j, u, job[j].admins \ {u})
    /\ UNCHANGED <<present, idp, edit, events>>
    /\ Writes(j) /\ steady' = steady \cap InFlight'

Spare(j, u) ==
    /\ Leaver(j, u) /\ OnlyAdmin(j, u)
    /\ Onwards(j, u, job[j].admins)
    /\ UNCHANGED <<account, present, idp, edit, events>>
    /\ Forget

\* An error nothing in the job catches, or the process stops: what is closed stays closed.
CutOff(j) ==
    /\ job[j].phase # "idle" /\ Event
    /\ job' = [job EXCEPT ![j] = NoRun]
    /\ UNCHANGED <<account, present, idp, edit>>
    /\ Forget

-----------------------------------------------------------------------------
(* The users page and `run.py grant`: the guards, then the UPDATE.          *)

Checked(e, kind, u, role, active) ==
    /\ Event
    /\ edit' = [edit EXCEPT ![e] = [kind |-> kind, user |-> u, role |-> role,
                                    active |-> active]]
    /\ UNCHANGED <<account, present, idp, job, stale, steady>>

\* set_role.
CheckRole(e, u, role) ==
    /\ edit[e].kind = "none" /\ ~SetRoleRefused(account, u, role)
    /\ Checked(e, "role", u, role, FALSE)

\* admin_user_active, by an administrator who is active when it is authorised.
CheckActive(actor, u, active) ==
    /\ edit[Page].kind = "none" /\ actor \in ActiveAdmins(account)
    /\ active \/ ~DeactivationRefused(account, actor, u)
    /\ Checked(Page, "active", u, "VIEWER", active)

Written(e) ==
    IF edit[e].kind = "role" THEN [account EXCEPT ![edit[e].user].role = edit[e].role]
                             ELSE [account EXCEPT ![edit[e].user].active = edit[e].active]

Write(e) ==
    /\ edit[e].kind # "none"
    /\ account' = Written(e)
    /\ edit' = [edit EXCEPT ![e] = NoEdit]
    /\ UNCHANGED <<present, idp, job, events, steady>>
    /\ Writes(e)

-----------------------------------------------------------------------------
(* Keycloak.                                                                *)

\* Somebody leaves, is disabled, or comes back.
PeopleChange ==
    /\ Event
    /\ \E u \in Oidc : present' = IF u \in present THEN present \ {u} ELSE present \cup {u}
    /\ steady' = {}
    /\ UNCHANGED <<account, idp, job, edit, stale>>

\* An outage or a renamed realm, or the end of it.
KeycloakChanges ==
    /\ Event
    /\ idp' \in {"up", "down", "renamed"} \ {idp}
    /\ steady' = {}
    /\ UNCHANGED <<account, present, job, edit, stale>>

Continue(j) ==
    \/ Judge(j)
    \/ \E u \in User : LookUp(j, u) \/ LookUpFails(j, u) \/ Close(j, u) \/ Spare(j, u)

Next ==
    \/ \E j \in Job : StartForNobody(j) \/ Start(j) \/ Continue(j) \/ CutOff(j)
    \/ \E e \in Editor, u \in User, r \in Roles : CheckRole(e, u, r)
    \/ \E actor, u \in User, b \in BOOLEAN : CheckActive(actor, u, b)
    \/ \E e \in Editor : Write(e)
    \/ PeopleChange \/ KeycloakChanges

Spec == Init /\ [][Next]_vars

\* The job is started every morning and runs on; nobody has to edit accounts.
Fairness == \A j \in Job : WF_vars(Start(j)) /\ WF_vars(Continue(j))

FairSpec == Spec /\ Fairness

-----------------------------------------------------------------------------
(* Properties.                                                              *)

\* A writer over whose reading nobody has written never takes the last administrator:
\* the rules of set_role, of the users page and of the job agree, however the job's own
\* reads and writes are spread over its run.
LastAdministratorIsSpared ==
    [][\A x \in (Job \cup Editor) \ stale :
          /\ IF x \in Job THEN \E u \in User : Close(x, u) ELSE Write(x)
          /\ ActiveAdmins(account) # {}
          => ActiveAdmins(account') # {}]_vars

\* A run in which no single lookup failed, and nothing changed at Keycloak, closes nobody
\* who can sign in: neither an outage nor a renamed realm empties the desk.
OutageClosesNobody ==
    [][\A j \in steady, u \in User : Close(j, u) => u \notin present]_vars

\* Somebody the next runs may close: gone for good, few enough with the others who are
\* gone, and not the only administrator left.
MayGo(u) ==
    /\ u \in Oidc \ present /\ idp = "up"
    /\ 100 * Cardinality((Active \cap Oidc) \ present) <= Ceiling * Cardinality(Active \cap Oidc)
    /\ ActiveAdmins(account) \ (Oidc \ present) # {}

\* A leaver is closed, again if somebody activates the account again, instead of being
\* mailed "indefinitely" (docstring).
LeaversGo == \A u \in Oidc : <>[]MayGo(u) => []<>~account[u].active

\* "The last active administrator is never deactivated" (docstring).
LastAdministratorStays ==
    [][\A j \in Job, u \in User :
          Close(j, u) /\ ActiveAdmins(account) # {} => ActiveAdmins(account') # {}]_vars

-----------------------------------------------------------------------------
(* The strengthening the action properties rest on.                         *)

\* What a run may still do is within what it read, and what it read is so unless
\* somebody has written since.
RunHolds(j) ==
    /\ job[j].todo \cup job[j].gone \subseteq job[j].checked
    /\ job[j].phase # "idle" => job[j].checked # {}
    /\ job[j].phase = "closing" => job[j].todo = {} /\ job[j].gone # {}
    /\ job[j].phase # "idle" /\ j \notin stale =>
          \A u \in job[j].todo \cup job[j].gone : u \in job[j].admin <=> u \in ActiveAdmins(account)
    /\ job[j].phase = "closing" /\ j \notin stale => job[j].admins = ActiveAdmins(account)

\* How a steady run has found Keycloak: all there as they are, nobody, or silent.
RunIsTrue(j) ==
    /\ job[j].phase = "looking" =>
          /\ idp = "up"      => job[j].gone \cap present = {}
          /\ idp = "renamed" => job[j].todo \cup job[j].gone = job[j].checked
          /\ idp = "down"    => job[j].gone = {}
    /\ job[j].phase = "closing" => job[j].gone \cap present = {}

\* A write that was checked, and not overtaken, leaves an administrator.
EditHolds(e) ==
    edit[e].kind # "none" /\ e \notin stale /\ ActiveAdmins(account) # {} =>
        ActiveAdmins(Written(e)) # {}

IInv ==
    /\ TypeOK
    /\ \A j \in Job : RunHolds(j)
    /\ \A j \in steady : RunIsTrue(j)
    /\ \A e \in Editor : EditHolds(e)

=============================================================================
