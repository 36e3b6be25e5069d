--------------------------- MODULE AccessRequests ---------------------------
(***************************************************************************)
(* Self-service access requests (web/access.py), the account rows they end  *)
(* up changing (web/auth.py), and every other actor that reaches either     *)
(* table: the administrators' own pages, cancel, single sign-on, the        *)
(* nightly sweep, and `run.py grant` in another process.                    *)
(*                                                                          *)
(* The handlers that decide are `async def` routes: authorisation           *)
(* (require_user, require_admin) runs first and reads the account, the body *)
(* of the form is awaited, and then the rest runs on the event loop without *)
(* giving it up, so two bodies never interleave.  Each statement a body     *)
(* issues is nevertheless a transaction of its own, and worker threads, the *)
(* scheduler and the command line run between any two of them.  A body is   *)
(* therefore a sequence of steps (phase) and LoopFree keeps bodies apart.   *)
(*                                                                          *)
(* A request for a role is kept with what the guards read: who asked, the   *)
(* role, the queues, the status, who decided, and whether the deadline that *)
(* matters in that status (expiry when pending, cooldown when declined) has *)
(* passed.  Justification, notes and the mail sent about a request are left *)
(* out: no guard reads them.                                                *)
(***************************************************************************)
EXTENDS Accounts

CONSTANTS
    ReqId,           \* role_request ids; AUTO_INCREMENT hands out a fresh one
    NoUser,          \* decided_by of a row nobody has decided
    Cli,             \* a `run.py grant` command, in a process of its own
    AllowedTargets,  \* auth.role_requests.allowed_targets
    RefreshOnLogin,  \* auth.oidc.refresh_scope_on_login
    Kinds,           \* the kinds of request the clients of an instance send
    CliOn,           \* does anybody use the command line meanwhile?
    AdminRoles,      \* roles an administrator assigns by hand
    Selections,      \* the queue selections the forms are sent with
    MaxInFlight,     \* bound on the handlers in flight at once
    MaxCrashes       \* bound on restarts of the service

ASSUME NoUserAssumption == NoUser \notin User
ASSUME CliAssumption    == Cli \notin User
ASSUME TargetAssumption == AllowedTargets \subseteq Role \ {"ADMIN"}
ASSUME FlagAssumption   == RefreshOnLogin \in BOOLEAN /\ CliOn \in BOOLEAN
ASSUME BoundAssumption  == MaxCrashes \in Nat /\ MaxInFlight \in Nat
ASSUME FormAssumption   == AdminRoles \subseteq Role /\ Selections \subseteq SUBSET Group
ASSUME KindsAssumption  ==
    Kinds \subseteq {"request", "approve", "reject", "assign", "activate", "deactivate"}

VARIABLES
    account,   \* advisor_user
    request,   \* role_request
    op,        \* the handler each actor has in flight
    applied,   \* history: approved requests whose grant reached advisor_user
    crashes    \* restarts so far

vars == <<account, request, op, applied, crashes>>

Status   == {"NONE", "PENDING", "APPROVED", "REJECTED", "EXPIRED", "CANCELLED"}
Terminal == {"APPROVED", "REJECTED", "EXPIRED", "CANCELLED"}

Actor == User \cup {Cli}
Kind  == {"none", "request", "approve", "reject", "assign", "activate", "deactivate"}
Phase == {"idle", "posted", "checked", "scoped", "setting", "writing"}

Request == [user : User \cup {NoUser}, from : Role, to : Role, groups : SUBSET Group,
            status : Status, by : User \cup {NoUser}, granted : SUBSET Group,
            passed : BOOLEAN]

\* A handler: the claims it was authorised with, and what its form said.  `req'
\* is the request a decision is about; `target', `role' and `groups' what is asked
\* for or set; `scope' the assignment_groups about to be written.
Op == [phase : Phase, kind : Kind, claim : Role,
       req : ReqId \cup {NoUser}, target : User \cup {NoUser}, role : Role,
       groups : SUBSET Group, scope : SUBSET Group]

NoRequest == [user |-> NoUser, from |-> "VIEWER", to |-> "VIEWER", groups |-> {},
              status |-> "NONE", by |-> NoUser, granted |-> {}, passed |-> FALSE]

Idle == [phase |-> "idle", kind |-> "none", claim |-> "VIEWER", req |-> NoUser,
         target |-> NoUser, role |-> "VIEWER", groups |-> {}, scope |-> {}]

TypeOK ==
    /\ account \in [User -> Account]
    /\ request \in [ReqId -> Request]
    /\ op \in [Actor -> Op]
    /\ applied \subseteq ReqId
    /\ crashes \in 0..MaxCrashes

Init ==
    /\ account \in [User -> Account]
    /\ ActiveAdmins(account) # {}
    /\ \A u \in User : account[u].roleSource = "MANUAL"
    /\ request = [r \in ReqId |-> NoRequest]
    /\ op = [a \in Actor |-> Idle]
    /\ applied = {}
    /\ crashes = 0

-----------------------------------------------------------------------------
(* Authorisation, then the awaited form.                                    *)

\* No other body is on the event loop.
LoopFree == \A u \in User : op[u].phase \in {"idle", "posted"}

\* The bound on concurrency: fewer than MaxInFlight other handlers are in flight.
Room == Cardinality({a \in Actor : op[a].phase # "idle"}) < MaxInFlight

Signed(u) == op[u].phase = "idle" /\ Room /\ account[u].active

IsAdmin(u) == account[u].role = "ADMIN"

\* POST /profile/request-role, require_user.
PostRequest(u, t, G) ==
    /\ "request" \in Kinds /\ Signed(u)
    /\ op' = [op EXCEPT ![u] = [Idle EXCEPT !.phase = "posted", !.kind = "request",
                                            !.claim = account[u].role, !.role = t,
                                            !.groups = G]]
    /\ UNCHANGED <<account, request, applied, crashes>>

\* POST /admin/role-requests/{id}/approve and /reject, require_admin.
PostDecision(u, k, r, G) ==
    /\ k \in Kinds \cap {"approve", "reject"} /\ Signed(u) /\ IsAdmin(u)
    /\ request[r].status # "NONE"
    /\ op' = [op EXCEPT ![u] = [Idle EXCEPT !.phase = "posted", !.kind = k,
                                            !.claim = "ADMIN", !.req = r,
                                            !.groups = IF k = "approve" THEN G ELSE {}]]
    /\ UNCHANGED <<account, request, applied, crashes>>

\* POST /admin/users/{username}/role, require_admin.
PostAssign(u, v, t, G) ==
    /\ "assign" \in Kinds /\ Signed(u) /\ IsAdmin(u)
    /\ op' = [op EXCEPT ![u] = [Idle EXCEPT !.phase = "posted", !.kind = "assign",
                                            !.claim = "ADMIN", !.target = v,
                                            !.role = t, !.groups = G]]
    /\ UNCHANGED <<account, request, applied, crashes>>

\* POST /admin/users/{username}/active, require_admin.
PostActive(u, k, v) ==
    /\ k \in Kinds \cap {"activate", "deactivate"} /\ Signed(u) /\ IsAdmin(u)
    /\ op' = [op EXCEPT ![u] = [Idle EXCEPT !.phase = "posted", !.kind = k,
                                            !.claim = "ADMIN", !.target = v]]
    /\ UNCHANGED <<account, request, applied, crashes>>

\* `run.py grant`: no session, no event loop.
StartCli(v, t, G) ==
    /\ CliOn /\ op[Cli].phase = "idle" /\ Room
    /\ op' = [op EXCEPT ![Cli] = [Idle EXCEPT !.phase = "posted", !.kind = "assign",
                                              !.claim = "ADMIN", !.target = v,
                                              !.role = t, !.groups = G]]
    /\ UNCHANGED <<account, request, applied, crashes>>

Finish(a) == op' = [op EXCEPT ![a] = Idle]

-----------------------------------------------------------------------------
(* open_request.  The reads of the body (scope, cooldown) and its INSERT are *)
(* one step: a write in between could only make the stored delta overlap     *)
(* what is held by then, which the union in ResultingScope absorbs.          *)

Additive(u) == op[u].claim = op[u].role

\* The queues asked for that the account does not hold yet.
Missing(u) == op[u].groups \ account[u].scope

CoolingDown(u, t, G) ==
    \E r \in ReqId : /\ request[r].status = "REJECTED" /\ ~request[r].passed
                     /\ request[r].user = u /\ request[r].to = t
                     /\ request[r].groups \cap G # {}

\* uq_pending: the schema refuses a second PENDING row for the same user and role.
PendingKeyTaken(u, t) ==
    \E r \in ReqId : /\ request[r].status = "PENDING"
                     /\ request[r].user = u /\ request[r].to = t

\* Mutant: the refusal of a request for more queues from an administrator is forgotten.
AdmissibleToAdmin(u) ==
    /\ Additive(u) \/ op[u].role \in AllowedTargets
    /\ Rank[op[u].claim] <= Rank[op[u].role]
    /\ Missing(u) # {}
    /\ ~CoolingDown(u, op[u].role, Missing(u))

Admissible(u) ==
    /\ Additive(u) \/ op[u].role \in AllowedTargets
    /\ ~(Additive(u) /\ op[u].claim = "ADMIN")
    /\ Rank[op[u].claim] <= Rank[op[u].role]
    /\ Missing(u) # {}
    /\ ~CoolingDown(u, op[u].role, Missing(u))

OpenRequest(u) ==
    /\ op[u].phase = "posted" /\ op[u].kind = "request" /\ LoopFree
    /\ Finish(u)
    /\ \/ /\ Admissible(u) /\ ~PendingKeyTaken(u, op[u].role)
          /\ \E r \in ReqId :
                /\ request[r].status = "NONE"
                /\ request' = [request EXCEPT ![r] =
                      [NoRequest EXCEPT !.user = u, !.from = op[u].claim,
                                        !.to = op[u].role, !.groups = Missing(u),
                                        !.status = "PENDING"]]
       \/ /\ ~Admissible(u) \/ PendingKeyTaken(u, op[u].role)
          /\ UNCHANGED request
    /\ UNCHANGED <<account, applied, crashes>>

-----------------------------------------------------------------------------
(* approve and reject.                                                      *)

\* Mutants: a decision on one's own request, and on a disabled account.
RefuseInactiveOnly(u, r) == ~account[request[r].user].active
RefuseOwnOnly(u, r)      == request[r].user = u

RefuseDecision(u, r) ==
    \/ request[r].user = u
    \/ ~account[request[r].user].active

\* get() and _refuse_decision().  An empty selection grants what was asked for.
CheckDecision(u) ==
    /\ op[u].phase = "posted" /\ op[u].kind \in {"approve", "reject"} /\ LoopFree
    /\ LET r == op[u].req IN
         IF RefuseDecision(u, r)
         THEN Finish(u)
         ELSE op' = [op EXCEPT ![u].phase = "checked", ![u].target = request[r].user,
                               ![u].role = request[r].to,
                               ![u].groups = IF @ = {} THEN request[r].groups ELSE @]
    /\ UNCHANGED <<account, request, applied, crashes>>

\* Mutant: the granted queues replace the held ones whatever the role.
ResultingScopeReplaced(u) == op[u].groups

\* _resulting_scope: a union when the account already holds the role.
ResultingScope(u) ==
    IF account[op[u].target].role = op[u].role
    THEN account[op[u].target].scope \cup op[u].groups
    ELSE op[u].groups

ComputeScope(u) ==
    /\ op[u].phase = "checked" /\ op[u].kind = "approve"
    /\ op' = [op EXCEPT ![u].phase = "scoped", ![u].scope = ResultingScope(u)]
    /\ UNCHANGED <<account, request, applied, crashes>>

\* Mutant: an UPDATE without "AND status = 'PENDING'".
StillThere(r) == request[r].status # "NONE"

\* UPDATE ... WHERE id = %s AND status = 'PENDING': whoever finds no such row
\* has lost to another decision, a withdrawal or the sweep.
StillPending(r) == request[r].status = "PENDING"

\* Mutant: the rows the UPDATE changed are not counted, and a decision that lost goes
\* on to set_role.
ApproveUncounted(u) ==
    /\ op[u].phase = "scoped"
    /\ op' = [op EXCEPT ![u].phase = "setting"]
    /\ request' = IF StillPending(op[u].req)
                  THEN [request EXCEPT ![op[u].req].status = "APPROVED",
                                       ![op[u].req].by = u]
                  ELSE request
    /\ UNCHANGED <<account, applied, crashes>>

Approve(u) ==
    /\ op[u].phase = "scoped"
    /\ LET r == op[u].req IN
         IF StillPending(r)
         THEN /\ request' = [request EXCEPT ![r].status = "APPROVED", ![r].by = u,
                                            ![r].granted = op[u].groups,
                                            ![r].passed = FALSE]
              /\ op' = [op EXCEPT ![u].phase = "setting"]
         ELSE Finish(u) /\ UNCHANGED request
    /\ UNCHANGED <<account, applied, crashes>>

Reject(u) ==
    /\ op[u].phase = "checked" /\ op[u].kind = "reject"
    /\ LET r == op[u].req IN
         IF StillPending(r)
         THEN request' = [request EXCEPT ![r].status = "REJECTED", ![r].by = u,
                                         ![r].passed = FALSE]
         ELSE UNCHANGED request
    /\ Finish(u)
    /\ UNCHANGED <<account, applied, crashes>>

-----------------------------------------------------------------------------
(* set_role, reached from approve, from the users page and from the command *)
(* line: it reads the account and the active administrators, and then       *)
(* writes.  A refusal is a ValueError; approve does not catch it.           *)

\* Mutant: an approval stops at its UPDATE and never calls set_role.
ReadyToSetByHand(a) ==
    /\ op[a].phase = "posted" /\ op[a].kind = "assign"
    /\ a = Cli \/ LoopFree

ReadyToSet(a) ==
    \/ op[a].phase = "setting"
    \/ /\ op[a].phase = "posted" /\ op[a].kind = "assign"
       /\ a = Cli \/ LoopFree

CheckRole(a) ==
    /\ ReadyToSet(a)
    /\ IF SetRoleRefused(account, op[a].target, op[a].role)
       THEN Finish(a)
       ELSE op' = [op EXCEPT ![a].phase = "writing",
                             ![a].scope = IF op[a].kind = "assign" THEN op[a].groups ELSE @]
    /\ UNCHANGED <<account, request, applied, crashes>>

\* Mutant: role_source is written with the status instead of the source.
SourceOfStatus(kind) == IF kind = "approve" THEN "APPROVED" ELSE "MANUAL"

SourceOf(kind) == IF kind = "approve" THEN "REQUEST" ELSE "MANUAL"

WriteRole(a) ==
    /\ op[a].phase = "writing" /\ op[a].kind \in {"assign", "approve"}
    /\ account' = RoleSet(account, op[a].target, op[a].role, op[a].scope,
                          SourceOf(op[a].kind))
    /\ applied' = IF op[a].kind = "approve" THEN applied \cup {op[a].req} ELSE applied
    /\ Finish(a)
    /\ UNCHANGED <<request, crashes>>

-----------------------------------------------------------------------------
(* admin_user_active: the reads and their refusals, then the UPDATE.        *)

CheckActive(u) ==
    /\ op[u].phase = "posted" /\ op[u].kind \in {"activate", "deactivate"} /\ LoopFree
    /\ IF op[u].kind = "deactivate" /\ DeactivationRefused(account, u, op[u].target)
       THEN Finish(u)
       ELSE op' = [op EXCEPT ![u].phase = "writing"]
    /\ UNCHANGED <<account, request, applied, crashes>>

WriteActive(u) ==
    /\ op[u].phase = "writing" /\ op[u].kind \in {"activate", "deactivate"}
    /\ account' = [account EXCEPT ![op[u].target].active = (op[u].kind = "activate")]
    /\ Finish(u)
    /\ UNCHANGED <<request, applied, crashes>>

-----------------------------------------------------------------------------
(* The actors that are not on the event loop, and the passage of time.      *)

\* cancel(): a worker thread, one guarded UPDATE of one's own request.
Cancel(u, r) ==
    /\ account[u].active
    /\ request[r].user = u /\ StillPending(r)
    /\ request' = [request EXCEPT ![r].status = "CANCELLED"]
    /\ UNCHANGED <<account, op, applied, crashes>>

\* Mutant: expires_at compared the wrong way round.
NotYetDue == {r \in ReqId : request[r].status = "PENDING" /\ ~request[r].passed}

\* expire_stale(): the nightly sweep, one UPDATE over every overdue row.
Overdue == {r \in ReqId : request[r].status = "PENDING" /\ request[r].passed}

ExpireStale ==
    /\ Overdue # {}
    /\ request' = [r \in ReqId |-> IF r \in Overdue
                                   THEN [request[r] EXCEPT !.status = "EXPIRED"]
                                   ELSE request[r]]
    /\ UNCHANGED <<account, op, applied, crashes>>

\* expires_at, or the end of the cooldown, goes by.
TimePasses(r) ==
    /\ request[r].status \in {"PENDING", "REJECTED"} /\ ~request[r].passed
    /\ request' = [request EXCEPT ![r].passed = TRUE]
    /\ UNCHANGED <<account, op, applied, crashes>>

\* oidc_callback: jit_upsert on a worker thread.
SignIn(u, derived) ==
    /\ account' = SignedIn(account, u, RefreshOnLogin, derived)
    /\ UNCHANGED <<request, op, applied, crashes>>

\* The service stops and starts again: what was in flight is gone.
Restart ==
    /\ crashes < MaxCrashes
    /\ crashes' = crashes + 1
    /\ op' = [a \in Actor |-> IF a = Cli THEN op[a] ELSE Idle]
    /\ UNCHANGED <<account, request, applied>>

Post ==
    \/ \E u \in User, t \in Role, G \in Selections : PostRequest(u, t, G)
    \/ \E u \in User, k \in {"approve", "reject"}, r \in ReqId, G \in Selections :
          PostDecision(u, k, r, G)
    \/ \E u, v \in User, t \in AdminRoles, G \in Selections : PostAssign(u, v, t, G)
    \/ \E u, v \in User, k \in {"activate", "deactivate"} : PostActive(u, k, v)
    \/ \E v \in User, t \in AdminRoles, G \in Selections : StartCli(v, t, G)

Body(u) ==
    \/ OpenRequest(u) \/ CheckDecision(u) \/ ComputeScope(u) \/ Approve(u) \/ Reject(u)
    \/ CheckActive(u) \/ WriteActive(u)

SetRole(a) == CheckRole(a) \/ WriteRole(a)

Next ==
    \/ Post
    \/ \E u \in User : Body(u)
    \/ \E a \in Actor : SetRole(a)
    \/ \E u \in User, r \in ReqId : Cancel(u, r)
    \/ ExpireStale
    \/ \E r \in ReqId : TimePasses(r)
    \/ \E u \in User, derived \in SUBSET Group : SignIn(u, derived)
    \/ Restart

Spec == Init /\ [][Next]_vars

\* A handler that started runs on, the deadline of an open request comes, and the
\* scheduler runs the sweep every night.  Nobody has to click.
Fairness ==
    /\ \A u \in User : WF_vars(Body(u))
    /\ \A a \in Actor : WF_vars(SetRole(a))
    /\ \A r \in ReqId : WF_vars(TimePasses(r))
    /\ WF_vars(ExpireStale)

FairSpec == Spec /\ Fairness

-----------------------------------------------------------------------------
(* Properties.                                                              *)

Ledger == INSTANCE RequestLedger WITH
            ledger <- [r \in ReqId |-> [user |-> request[r].user, to |-> request[r].to,
                                       status |-> request[r].status,
                                       by |-> request[r].by]]

\* The table keeps its promise to the auditor through every interleaving of
\* approvals, declines, withdrawals, sweeps and restarts (access.py, schema.sql).
LedgerSpec == Ledger!Spec

\* A role that came by request is answered for: by an approved request of that
\* very person for that very role, decided by somebody else.  A losing decision
\* that reached set_role, or a self-approval, would leave a role without one.
RequestedRoleIsBacked ==
    \A u \in User : account[u].roleSource = "REQUEST" =>
        \E r \in ReqId : /\ request[r].status = "APPROVED"
                         /\ request[r].user = u
                         /\ request[r].to = account[u].role
                         /\ request[r].by \in User \ {u}

\* "The ceiling is deliberate": whatever claims a session carries, no chain of
\* requests and approvals makes anybody an administrator.
AdminIsNeverRequested ==
    \A u \in User : account[u].role = "ADMIN" => account[u].roleSource = "MANUAL"

\* Nothing the pages can do, in any order, leaves the service without an active
\* administrator (auth.py set_role, app.py admin_user_active).
AdministratorRemains == ActiveAdmins(account) # {}

\* The step in which u's approval reaches advisor_user.
GrantStep(u) == op[u].phase = "writing" /\ op[u].req \in applied' \ applied

\* "An approval that widens scope must never narrow it", for an account that holds
\* the role when the grant is written: it keeps every queue and gains the granted.
ApprovalWidens ==
    [][\A u \in User :
          LET t == op[u].target IN
          GrantStep(u) /\ account[t].role = op[u].role
             => account[t].scope \cup op[u].groups \subseteq account'[t].scope]_vars

\* An account disabled before the decision is never granted a role by it
\* (_refuse_decision), although the account is read several steps earlier.
GrantsReachActiveAccounts ==
    [][\A u \in User : GrantStep(u) => account[op[u].target].active]_vars

\* What an approval that is written may do to an account, whatever was decided, signed in or
\* assigned since it was read.
GrantsAreSound == ApprovalWidens /\ GrantsReachActiveAccounts

\* A scope that came with an approved request outlives a sign-in: steps that no
\* handler takes (op does not change) take no queue from such an account.
SignInKeepsGrantedScope ==
    [][\A u \in User :
          op' = op /\ account[u].roleSource = "REQUEST"
             => account[u].scope \subseteq account'[u].scope]_vars

\* No request stays open for ever, whether or not anybody looks at it.
EveryRequestCloses ==
    \A r \in ReqId : (request[r].status = "PENDING") ~> (request[r].status # "PENDING")

\* The strengthening the proofs need: a row is blank until it is opened and is never
\* for ADMIN; a body past its checks still describes the row it read; a body that
\* won the row is the decider the row names.
RowsWellFormed ==
    \A r \in ReqId :
        /\ request[r].status = "NONE" => request[r] = NoRequest
        /\ request[r].status # "NONE" => request[r].user \in User /\ request[r].to # "ADMIN"

Deciding(u) ==
    op[u].kind \in {"approve", "reject"} /\ op[u].phase \notin {"idle", "posted"}

Won(u) == op[u].kind = "approve" /\ op[u].phase \in {"setting", "writing"}

HandlersWellFormed ==
    \A a \in Actor :
        /\ op[a].phase = "checked" => op[a].kind \in {"approve", "reject"}
        /\ op[a].phase \in {"scoped", "setting"} => op[a].kind = "approve"
        /\ op[a].phase = "writing" => op[a].kind \in {"approve", "assign", "activate", "deactivate"}
        /\ op[a].kind \in {"assign", "activate", "deactivate"} => op[a].target \in User
        /\ op[a].kind \in {"approve", "reject"} =>
              /\ a \in User
              /\ op[a].req \in ReqId
              /\ request[op[a].req].status # "NONE"

DecisionsMatchRows ==
    \A u \in User :
        /\ Deciding(u) => /\ op[u].target = request[op[u].req].user
                          /\ op[u].role = request[op[u].req].to
                          /\ op[u].target # u
        /\ Won(u) => /\ request[op[u].req].status = "APPROVED"
                     /\ request[op[u].req].by = u

IInv == TypeOK /\ RowsWellFormed /\ HandlersWellFormed /\ DecisionsMatchRows

\* One body at a time past its authorisation: the event loop.
OneBody == \A u, w \in User : op[u].phase \notin {"idle", "posted"}
                              /\ op[w].phase \notin {"idle", "posted"} => u = w

\* With nobody on the command line, the check a body made still holds when it writes.
ChecksStillHold ==
    /\ op[Cli].phase = "idle"
    /\ \A u \in User : op[u].phase = "writing" =>
          /\ op[u].kind \in {"approve", "assign"} =>
                ~SetRoleRefused(account, op[u].target, op[u].role)
          /\ op[u].kind = "deactivate" => ~DeactivationRefused(account, u, op[u].target)

\* While the service stays up, an approval that won the row takes effect.  The
\* exception is an account that is an administrator by then: set_role may refuse to
\* demote it, and the row stays APPROVED.
ApprovalTakesEffect ==
    \A u, v \in User, r \in ReqId :
        (op[u].phase = "setting" /\ op[u].req = r /\ op[u].target = v)
            ~> (r \in applied \/ IsAdmin(v))

=============================================================================
