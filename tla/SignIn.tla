------------------------------- MODULE SignIn -------------------------------
(***************************************************************************)
(* Whose account a sign-in ends in: accounts that administrators create by  *)
(* hand and that single sign-on provisions, links and refreshes (the        *)
(* callback of web/app.py with UserStore.jit_upsert of web/auth.py), while  *)
(* people get other names at the identity provider, and the sessions they   *)
(* hold (SessionManager).                                                   *)
(*                                                                          *)
(* Callbacks run in threads: each is a sequence of statements, and those of *)
(* others and the pages of administrators come in between.  What is verified *)
(* of a token before that is module SigningKeys'; roles and what requests   *)
(* grant are AccessRequests'.  jit_provisioning is on.                      *)
(***************************************************************************)
EXTENDS Naturals, FiniteSets, FiniteSetsExt

CONSTANTS
    Person, Name, NoName, Nobody,
    FirstName,      \* by person, the name at the provider when the story begins
    Known,          \* who has signed in before it
    Tab, UsedBy,    \* browsers, and by browser the person who uses it
    Tracked,        \* known_assignment_groups
    SaneLimit,      \* SANE_MEMBERSHIP_LIMIT
    DefaultGroups,  \* auth.oidc.default_viewer_groups
    RefreshScope,        \* auth.oidc.refresh_scope_on_login
    MaxAge,         \* session_max_age_seconds, in ticks
    Floor,          \* the least an issued session lasts
    IdpLasts,       \* what the provider's own session may have left
    Memberships,    \* bound: what ServiceNow may say of a person
    MaxEvents       \* bound on renames, accounts, deactivations and failures

VARIABLES
    account,   \* advisor_user, by name (uq_user)
    called,    \* by person, the name at the identity provider
    member,    \* by person, the groups in ServiceNow
    job,       \* by browser, the callback at work
    session,   \* by browser, its session cookie
    events,
    past       \* history: names given up, people renamed before they had an account, and by
               \* person the groups of the answers that were plausible

vars == <<account, called, member, job, session, events, past>>

NoAccount == [there |-> FALSE, holder |-> Nobody]
NoSession == [name |-> NoName, left |-> 0, idp |-> 0, age |-> 0]
AtRest    == [at |-> "rest", name |-> NoName, groups |-> {}, source |-> "MANUAL", row |-> NoName,
              derived |-> FALSE]

\* What jit_upsert inserts.
Provisioned(p, groups, source) ==
    [there |-> TRUE, holder |-> p, subject |-> p, active |-> TRUE, local |-> FALSE,
     groups |-> groups, source |-> source]

Happens == events < MaxEvents /\ events' = events + 1

Plausible(groups) == IF Cardinality(groups) <= SaneLimit THEN groups ELSE {}

Accounts(p) == {n \in Name : account[n].holder = p}

-----------------------------------------------------------------------------
(* The identity provider, ServiceNow and the administrators.                *)

\* A name is handed on only when no sign-in under it is under way.
Rename(p) ==
    /\ Happens
    /\ \E n \in Name \ {called[q] : q \in Person} :
         /\ \A t \in Tab : UsedBy[t] = p \/ job[t].name = n => job[t] = AtRest
         /\ called' = [called EXCEPT ![p] = n]
    /\ past' = [past EXCEPT !.names = @ \cup {called[p]},
                            !.strays = IF \E n \in Accounts(p) : account[n].subject = p THEN @
                                       ELSE @ \cup {p}]
    /\ UNCHANGED <<account, member, job, session>>

Joins(p) ==
    /\ Happens
    /\ \E groups \in Memberships \ {member[p]} :
         /\ member' = [member EXCEPT ![p] = groups]
         /\ past' = [past EXCEPT !.groups[p] = @ \cup Plausible(groups)]
    /\ UNCHANGED <<account, called, job, session>>

\* A local account for somebody who has none yet, under the name they are called.
Create(p) ==
    /\ Happens /\ Accounts(p) = {} /\ ~account[called[p]].there
    /\ account' = [account EXCEPT ![called[p]] =
                      [there |-> TRUE, holder |-> p, subject |-> Nobody, active |-> TRUE,
                       local |-> TRUE, groups |-> {}, source |-> "MANUAL"]]
    /\ UNCHANGED <<called, member, job, session, past>>

SetActive(n) ==
    /\ Happens /\ account[n].there
    /\ account' = [account EXCEPT ![n].active = ~@]
    /\ UNCHANGED <<called, member, job, session, past>>

-----------------------------------------------------------------------------
(* Sessions.                                                                *)

\* Mutant: the ceiling alone decides.
MaxAgeAlone(idp) == MaxAge

\* SessionManager.issue: never longer than the provider's, never nothing.
Lasts(idp) == Max({Floor, Min({MaxAge, idp})})

\* require_user: a cookie in time, for an account that is active now.
Admitted(t) ==
    session[t].left > 0 /\ account[session[t].name].there /\ account[session[t].name].active

Less(n) == IF n = 0 THEN 0 ELSE n - 1

Tick ==
    /\ session' = [t \in Tab |->
                     IF session[t].left <= 1 THEN NoSession
                     ELSE [session[t] EXCEPT !.left = @ - 1, !.idp = Less(@), !.age = @ + 1]]
    /\ UNCHANGED <<account, called, member, job, events, past>>

\* authenticate: an active account with a password, of whoever knows it.
LocalLogin(t) ==
    /\ job[t] = AtRest
    /\ \E n \in Accounts(UsedBy[t]) :
         /\ account[n].active /\ account[n].local
         /\ session' = [session EXCEPT ![t] = [name |-> n, left |-> MaxAge, idp |-> MaxAge, age |-> 0]]
    /\ UNCHANGED <<account, called, member, job, events, past>>

Logout(t) ==
    /\ job[t] = AtRest /\ session[t] # NoSession
    /\ session' = [session EXCEPT ![t] = NoSession]
    /\ UNCHANGED <<account, called, member, job, events, past>>

-----------------------------------------------------------------------------
(* The callback.                                                            *)

Goes(t, at) == job' = [job EXCEPT ![t].at = at]

Callback(t) ==
    /\ job[t] = AtRest
    /\ job' = [job EXCEPT ![t] = [AtRest EXCEPT !.at = "scope", !.name = called[UsedBy[t]]]]
    /\ UNCHANGED <<account, called, member, session, events, past>>

\* assignment_groups_for: too many is somebody else's account; the tracked ones of the rest.
Derived(groups) == IF Cardinality(groups) > SaneLimit THEN {} ELSE groups \cap Tracked

\* _initial_scope: nothing learned, or no answer, is the configured default.
InitialScope(t) ==
    /\ job[t].at = "scope"
    /\ \/ /\ Derived(member[UsedBy[t]]) # {}
          /\ job' = [job EXCEPT ![t] = [@ EXCEPT !.at = "subject", !.source = "SERVICENOW",
                                                 !.groups = Derived(member[UsedBy[t]])]]
          /\ UNCHANGED events
       \/ /\ Derived(member[UsedBy[t]]) # {} => Happens
          /\ Derived(member[UsedBy[t]]) = {} => UNCHANGED events
          /\ job' = [job EXCEPT ![t] = [@ EXCEPT !.at = "subject", !.groups = DefaultGroups]]
    /\ UNCHANGED <<account, called, member, session, past>>

\* Mutant: an account is looked for by the name first.
NamedOrLinked(p, name) ==
    IF account[name].there THEN {name} ELSE {n \in Name : account[n].there /\ account[n].subject = p}

Linked(p, name) == {n \in Name : account[n].there /\ account[n].subject = p}

\* A row is read, and what its scope came from with it.
Reads(t, n, at) ==
    job' = [job EXCEPT ![t] = [@ EXCEPT !.at = at, !.row = n,
                                        !.derived = account[n].source = "SERVICENOW"]]

FindSubject(t) ==
    /\ job[t].at = "subject"
    /\ LET found == Linked(UsedBy[t], job[t].name)
       IN  IF found = {} THEN Goes(t, "name") ELSE \E n \in found : Reads(t, n, "update")
    /\ UNCHANGED <<account, called, member, session, events, past>>

\* A local account of that name, not linked to anybody, is adopted.
FindName(t) ==
    /\ job[t].at = "name"
    /\ LET n == job[t].name
       IN  IF account[n].there /\ account[n].subject = Nobody THEN Reads(t, n, "update")
           ELSE job' = [job EXCEPT ![t] = [@ EXCEPT !.at = "insert", !.row = n]]
    /\ UNCHANGED <<account, called, member, session, events, past>>

\* uq_external
Elsewhere(p, n) == \E m \in Name \ {n} : account[m].there /\ account[m].subject = p

Update(t) ==
    /\ job[t].at = "update" /\ ~Elsewhere(UsedBy[t], job[t].row)
    /\ LET n         == job[t].row
           refreshed == RefreshScope /\ job[t].groups # {} /\ job[t].derived
       IN  account' = [account EXCEPT ![n].subject = UsedBy[t],
                                      ![n].groups = IF refreshed THEN job[t].groups ELSE @]
    /\ Goes(t, "answer")
    /\ UNCHANGED <<called, member, session, events, past>>

Insert(t) ==
    /\ job[t].at = "insert" /\ ~account[job[t].name].there /\ ~Elsewhere(UsedBy[t], job[t].name)
    /\ account' = [account EXCEPT ![job[t].name] =
                      Provisioned(UsedBy[t], job[t].groups,
                                  IF job[t].groups = {} THEN "MANUAL" ELSE job[t].source)]
    /\ Goes(t, "answer")
    /\ UNCHANGED <<called, member, session, events, past>>

\* A row of that name, or of that person, is there meanwhile: the callback ends in an error.
Duplicate(t) ==
    /\ \/ job[t].at = "update" /\ Elsewhere(UsedBy[t], job[t].row)
       \/ job[t].at = "insert" /\ (account[job[t].name].there \/ Elsewhere(UsedBy[t], job[t].name))
    /\ job' = [job EXCEPT ![t] = AtRest]
    /\ UNCHANGED <<account, called, member, session, events, past>>

\* The row is read again; a disabled account gets a page that says so.
Answer(t) ==
    /\ job[t].at = "answer"
    /\ job' = [job EXCEPT ![t] = AtRest]
    /\ IF account[job[t].row].active
       THEN \E idp \in IdpLasts :
              session' = [session EXCEPT ![t] =
                             [name |-> job[t].row, left |-> Lasts(idp), idp |-> idp, age |-> 0]]
       ELSE UNCHANGED session
    /\ UNCHANGED <<account, called, member, events, past>>

Init ==
    /\ account = [n \in Name |->
                     IF \E p \in Known : FirstName[p] = n
                     THEN Provisioned(CHOOSE p \in Known : FirstName[p] = n, DefaultGroups, "MANUAL")
                     ELSE NoAccount]
    /\ called = FirstName
    /\ member \in [Person -> {CHOOSE groups \in Memberships : TRUE}]
    /\ job = [t \in Tab |-> AtRest]
    /\ session = [t \in Tab |-> NoSession]
    /\ events = 0
    /\ past = [names |-> {}, strays |-> {}, groups |-> [p \in Person |-> Plausible(member[p])]]

Next ==
    \/ Tick
    \/ \E p \in Person : Rename(p) \/ Joins(p) \/ Create(p)
    \/ \E n \in Name : SetActive(n)
    \/ \E t \in Tab :
         \/ LocalLogin(t) \/ Logout(t) \/ Callback(t) \/ InitialScope(t) \/ FindSubject(t)
         \/ FindName(t) \/ Update(t) \/ Insert(t) \/ Duplicate(t) \/ Answer(t)

-----------------------------------------------------------------------------
(* Properties.                                                              *)

\* Nobody ends up with two accounts, whatever they are called and however many browsers and
\* administrators are at it - "a upsert keyed on [a username] would create a second account"
\* - except who was renamed before the account made by hand was ever linked.
OneAccountEach == \A p \in Person \ past.strays : Cardinality(Accounts(p)) <= 1

\* A session is of an account of the person who holds it, and of no namesake before or after:
\* what was made for somebody else can only be theirs if a name was handed on unlinked.
OwnAccount ==
    \A t \in Tab : session[t] # NoSession =>
        \/ account[session[t].name].holder = UsedBy[t]
        \/ account[session[t].name].holder \in past.strays

\* No page is served beyond what the provider's own session lasted, nor the configured age,
\* but for the moments a sign-in is good for at least.
ProviderDecides ==
    \A t \in Tab : Admitted(t) =>
        session[t].age < MaxAge /\ (session[t].idp > 0 \/ session[t].age < Floor)

\* A scope shows nobody queues they were never a member of in ServiceNow, queues that are not
\* tracked, or those of a query that matched half the directory - besides the configured default.
DerivedFromMembership ==
    \A n \in Name : account[n].there =>
        account[n].groups \subseteq (past.groups[account[n].holder] \cap Tracked) \cup DefaultGroups

\* A linked account stays with its person, and a sign-in that fails is not for good: the
\* account is the person's by then - unless the name was somebody's before.
LinksStay ==
    [][/\ \A n \in Name :
            account[n].there /\ account[n].subject # Nobody => account'[n].subject = account[n].subject
       /\ \A t \in Tab :
            Duplicate(t) /\ job[t].name \notin past.names => account[job[t].name].holder = UsedBy[t]]_vars
=============================================================================
