------------------------------ MODULE Audience ------------------------------
(***************************************************************************)
(* Who is written to about a queue (delivery/dispatch.py), what the mailer  *)
(* makes of it (delivery/mailer.py), and who may see the queue on the board *)
(* (web/auth.py).                                                           *)
(*                                                                          *)
(* An account is [role, scope, active, mail]: scope is a set of queues,     *)
(* mail an address or NoMail.  Two accounts may share an address.           *)
(***************************************************************************)
CONSTANTS
    NoMail,  \* an account without an address
    NoQueue  \* an incident without an assignment group

\* Dispatcher._covers: an empty scope is every queue for an administrator, none for others.
Covers(a, queue) == IF a.scope = {} THEN a.role = "ADMIN" ELSE queue \in a.scope

\* UserStore.can_see_group, the rule of the board.
Unrestricted(a)       == a.role = "ADMIN"
CanSeeGroup(a, queue) == IF a.scope = {} THEN Unrestricted(a) ELSE queue \in a.scope

\* Active accounts of these roles with an address.
Deliverable(account, roles) ==
    {u \in DOMAIN account :
        account[u].active /\ account[u].role \in roles /\ account[u].mail # NoMail}

MailOf(account, users) == {account[u].mail : u \in users}

Admins(account) == MailOf(account, Deliverable(account, {"ADMIN"}))

\* Mutant: an account without a scope is one for every queue.
RecipientsUnscoped(account, queue, roles) ==
    MailOf(account, {u \in Deliverable(account, roles) :
                        account[u].scope = {} \/ queue \in account[u].scope})

RecipientsFor(account, queue, roles) ==
    MailOf(account, {u \in Deliverable(account, roles) : Covers(account[u], queue)})

\* The people of the queue, and administrators in copy; or the administrators themselves.
AudienceForGroup(account, queue, roles) ==
    LET to == RecipientsFor(account, queue, roles)
        cc == Admins(account)
    IN  IF to = {} THEN [to |-> cc, cc |-> {}, orphaned |-> TRUE]
                   ELSE [to |-> to, cc |-> cc \ to, orphaned |-> FALSE]

\* _agent_directory: the last account with an address that the name leads to.
AgentMail(account, names, agent) ==
    {account[u].mail : u \in {v \in DOMAIN account :
        account[v].active /\ account[v].mail # NoMail /\ agent \in names[v]}}

-----------------------------------------------------------------------------
(* Mailer.send: what becomes of a letter, under the settings of the moment. *)

Exempt(settings, runType) == runType \in settings.shadowExempt

Suppressed(settings, runType) ==
    \/ settings.shadow /\ ~Exempt(settings, runType)
    \/ ~settings.enabled

\* SKIPPED for want of an address, SUPPRESSED, and otherwise the relay decides.
Outcomes(settings, runType, to) ==
    IF to = {} THEN {"SKIPPED"}
    ELSE IF Suppressed(settings, runType) THEN {"SUPPRESSED"}
    ELSE {"SENT", "FAILED"}

=============================================================================
