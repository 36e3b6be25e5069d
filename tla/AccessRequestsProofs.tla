------------------------ MODULE AccessRequestsProofs ------------------------
(***************************************************************************)
(* Proofs about AccessRequests, for every set of accounts, queues and       *)
(* requests and with everybody acting at once: handlers, worker threads,    *)
(* sweep, command line and restarts: first the invariant, then what it is   *)
(* for - every role that came by request is answered for, nobody becomes an *)
(* administrator by asking, the table implements the ledger of              *)
(* RequestLedger, the pages leave an administrator behind, and an approval  *)
(* grants what was asked to somebody who may have it.                       *)
(***************************************************************************)
EXTENDS AccessRequests, TLAPS

USE NoUserAssumption, CliAssumption, TargetAssumption, FlagAssumption,
    BoundAssumption, FormAssumption, KindsAssumption

\* The two constant rows are well typed, and ending a handler keeps op so.
LEMMA BlankTypes == Idle \in Op /\ NoRequest \in Request
BY DEF Idle, Op, Phase, Kind, Role, NoRequest, Request, Status

LEMMA FinishType ==
  ASSUME TypeOK, NEW a \in Actor, Finish(a)
  PROVE  op' \in [Actor -> Op]
BY BlankTypes DEF TypeOK, Finish

\* The fields of a handler and of a request row, by type.
LEMMA FieldTypes ==
  ASSUME TypeOK
  PROVE  /\ \A a \in Actor : /\ op[a] \in Op
                            /\ op[a].claim \in Role /\ op[a].role \in Role
                            /\ op[a].groups \subseteq Group /\ op[a].scope \subseteq Group
         /\ \A r \in ReqId : /\ request[r] \in Request
                            /\ request[r].user \in User \cup {NoUser}
                            /\ request[r].to \in Role /\ request[r].groups \subseteq Group
                            /\ request[r].status \in Status
BY DEF TypeOK, Op, Request

\* A handler record stays one when its step, its target or its scope is assigned.
LEMMA OpRetargeted ==
  ASSUME NEW o \in Op, NEW ph \in Phase, NEW u \in User, NEW t \in Role, NEW G \in SUBSET Group
  PROVE  [o EXCEPT !.phase = ph, !.target = u, !.role = t, !.groups = G] \in Op
BY DEF Op

LEMMA OpRescoped ==
  ASSUME NEW o \in Op, NEW ph \in Phase, NEW S \in SUBSET Group
  PROVE  [o EXCEPT !.phase = ph, !.scope = S] \in Op
BY DEF Op

LEMMA OpScoped ==
  ASSUME NEW o \in Op, NEW ph \in Phase, NEW S \in SUBSET Group
  PROVE  [o EXCEPT !.phase = ph, !.scope = S] \in Op
BY DEF Op

\* What a form puts in flight: a handler past its authorisation, and nothing else.
Posted(a, new) ==
    /\ op' = [op EXCEPT ![a] = new]
    /\ new.phase = "posted"
    /\ new.kind \in {"assign", "activate", "deactivate"} => new.target \in User
    /\ new.kind \in {"approve", "reject"} =>
          a \in User /\ new.req \in ReqId /\ request[new.req].status # "NONE"

LEMMA PostHandler ==
  ASSUME TypeOK, Post
  PROVE  /\ UNCHANGED <<account, request, applied, crashes>>
         /\ \E a \in Actor, new \in Op : Posted(a, new)
<1> USE DEF Op, Idle, Actor
<1>1. ASSUME NEW u \in User, NEW t \in Role, NEW G \in Selections, PostRequest(u, t, G)
      PROVE \E new \in Op : Posted(u, new)
  <2> DEFINE new == [Idle EXCEPT !.phase = "posted", !.kind = "request",
                                 !.claim = account[u].role, !.role = t, !.groups = G]
  <2>1. account[u].role \in Role
    BY DEF Account, TypeOK
  <2>2. new \in Op
    BY <2>1, FormAssumption DEF Phase, Kind, Role
  <2>3. Posted(u, new)
    BY <1>1 DEF PostRequest, Posted
  <2> QED BY <2>2, <2>3
<1>2. ASSUME NEW u \in User, NEW k \in {"approve", "reject"}, NEW r \in ReqId,
             NEW G \in Selections, PostDecision(u, k, r, G)
      PROVE \E new \in Op : Posted(u, new)
  <2> DEFINE new == [Idle EXCEPT !.phase = "posted", !.kind = k, !.claim = "ADMIN", !.req = r,
                                 !.groups = IF k = "approve" THEN G ELSE {}]
  <2>1. new \in Op
    BY FormAssumption DEF Phase, Kind, Role
  <2>2. Posted(u, new)
    BY <1>2 DEF PostDecision, Posted
  <2> QED BY <2>1, <2>2
<1>3. ASSUME NEW a \in Actor, NEW v \in User, NEW t \in AdminRoles, NEW G \in Selections,
             PostAssign(a, v, t, G) \/ (a = Cli /\ StartCli(v, t, G))
      PROVE \E new \in Op : Posted(a, new)
  <2> DEFINE new == [Idle EXCEPT !.phase = "posted", !.kind = "assign", !.claim = "ADMIN",
                                 !.target = v, !.role = t, !.groups = G]
  <2>1. new \in Op
    BY FormAssumption DEF Phase, Kind, Role
  <2>2. Posted(a, new)
    BY <1>3 DEF PostAssign, StartCli, Posted
  <2> QED BY <2>1, <2>2
<1>4. ASSUME NEW u \in User, NEW v \in User, NEW k \in {"activate", "deactivate"},
             PostActive(u, k, v)
      PROVE \E new \in Op : Posted(u, new)
  <2> DEFINE new == [Idle EXCEPT !.phase = "posted", !.kind = k, !.claim = "ADMIN",
                                 !.target = v]
  <2>1. new \in Op
    BY DEF Phase, Kind, Role
  <2>2. Posted(u, new)
    BY <1>4 DEF PostActive, Posted
  <2> QED BY <2>1, <2>2
<1>5. UNCHANGED <<account, request, applied, crashes>>
  BY DEF Post, PostRequest, PostDecision, PostAssign, PostActive, StartCli
<1> HIDE DEF Op, Idle
<1> QED BY <1>1, <1>2, <1>3, <1>4, <1>5 DEF Post

\* Authorising a request and taking its form in decides nothing.
LEMMA PostIInv ==
  ASSUME IInv, Post
  PROVE  IInv'
<1>1. TypeOK
  BY DEF IInv
<1>2. UNCHANGED <<account, request, applied, crashes>>
  BY <1>1, PostHandler
<1>3. PICK a \in Actor, new \in Op : Posted(a, new)
  BY <1>1, PostHandler
<1>4. TypeOK'
  BY <1>1, <1>2, <1>3 DEF TypeOK, Posted
<1>5. RowsWellFormed'
  BY <1>2 DEF IInv, RowsWellFormed
<1>6. HandlersWellFormed'
  BY <1>1, <1>2, <1>3 DEF IInv, HandlersWellFormed, TypeOK, Posted
<1>7. DecisionsMatchRows'
  BY <1>1, <1>2, <1>3 DEF IInv, DecisionsMatchRows, Deciding, Won, TypeOK, Actor, Posted
<1> QED BY <1>4, <1>5, <1>6, <1>7 DEF IInv

-----------------------------------------------------------------------------
(* Steps that only end a handler, or move it on, change no row.              *)

\* Ending a handler, whatever came of it, keeps what is known of the others.
LEMMA FinishIInv ==
  ASSUME IInv, NEW a \in Actor, Finish(a), UNCHANGED <<request, applied, crashes>>,
         account' \in [User -> Account]
  PROVE  IInv'
<1>1. TypeOK'
  BY FinishType DEF IInv, TypeOK
<1>2. RowsWellFormed'
  BY DEF IInv, RowsWellFormed
<1>3. HandlersWellFormed'
  BY DEF IInv, HandlersWellFormed, TypeOK, Finish, Idle
<1>4. DecisionsMatchRows'
  BY DEF IInv, DecisionsMatchRows, Deciding, Won, TypeOK, Actor, Finish, Idle
<1> QED BY <1>1, <1>2, <1>3, <1>4 DEF IInv

LEMMA CheckDecisionIInv ==
  ASSUME IInv, NEW u \in User, CheckDecision(u)
  PROVE  IInv'
<1> DEFINE r == op[u].req
           G == IF op[u].groups = {} THEN request[r].groups ELSE op[u].groups
           new == [op[u] EXCEPT !.phase = "checked", !.target = request[r].user,
                                !.role = request[r].to, !.groups = G]
<1>0. u \in Actor /\ UNCHANGED <<account, request, applied, crashes>>
  BY DEF CheckDecision, Actor
<1>1. CASE Finish(u)
  BY <1>0, <1>1, FinishIInv DEF IInv, TypeOK
<1>2. CASE ~RefuseDecision(u, r) /\ op' = [op EXCEPT ![u] = new]
  <2>1. r \in ReqId /\ request[r].status # "NONE" /\ op[u].kind \in {"approve", "reject"}
    BY <1>0 DEF CheckDecision, IInv, HandlersWellFormed
  <2>2. request[r].user \in User /\ request[r].user # u
    BY <1>2, <2>1 DEF IInv, RowsWellFormed, RefuseDecision
  <2>3. new \in Op
    <3>1. G \in SUBSET Group /\ request[r].user \in User /\ request[r].to \in Role
      BY <1>0, <2>1, <2>2, FieldTypes DEF IInv
    <3>2. op[u] \in Op
      BY <1>0, FieldTypes DEF IInv
    <3> HIDE DEF G, r
    <3> QED BY <3>1, <3>2, OpRetargeted DEF Phase
  <2>4. /\ new.phase = "checked" /\ new.kind = op[u].kind /\ new.req = r
        /\ new.target = request[r].user /\ new.role = request[r].to
    BY <1>0, FieldTypes DEF IInv, Op
  <2> HIDE DEF new, r
  <2>5. TypeOK'
    BY <1>0, <1>2, <2>3 DEF IInv, TypeOK
  <2>6. RowsWellFormed'
    BY <1>0 DEF IInv, RowsWellFormed
  <2>7. HandlersWellFormed'
    BY <1>0, <1>2, <2>1, <2>4 DEF IInv, HandlersWellFormed, TypeOK
  <2>8. DecisionsMatchRows'
    BY <1>0, <1>2, <2>2, <2>4 DEF IInv, DecisionsMatchRows, Deciding, Won, TypeOK, Actor
  <2> QED BY <2>5, <2>6, <2>7, <2>8 DEF IInv
<1>3. Finish(u) \/ (~RefuseDecision(u, r) /\ op' = [op EXCEPT ![u] = new])
  BY DEF CheckDecision
<1> QED BY <1>1, <1>2, <1>3

LEMMA ComputeScopeIInv ==
  ASSUME IInv, NEW u \in User, ComputeScope(u)
  PROVE  IInv'
<1> DEFINE new == [op[u] EXCEPT !.phase = "scoped", !.scope = ResultingScope(u)]
<1>0. u \in Actor /\ UNCHANGED <<account, request, applied, crashes>>
  BY DEF ComputeScope, Actor
<1>1. op' = [op EXCEPT ![u] = new] /\ op[u].phase = "checked" /\ op[u].kind = "approve"
  BY DEF ComputeScope
<1>2. op[u].target \in User
  BY <1>0, <1>1 DEF IInv, DecisionsMatchRows, Deciding, HandlersWellFormed, RowsWellFormed
<1>3. ResultingScope(u) \subseteq Group
  BY <1>0, <1>2, FieldTypes DEF IInv, ResultingScope, TypeOK, Account
<1>4. new \in Op
  <2>1. op[u] \in Op /\ "scoped" \in Phase
    BY <1>0, FieldTypes DEF IInv, Phase
  <2> QED BY <1>3, <2>1, OpRescoped
<1>5. /\ new.phase = "scoped" /\ new.kind = "approve" /\ new.req = op[u].req
      /\ new.target = op[u].target /\ new.role = op[u].role
  BY <1>0, <1>1, FieldTypes DEF IInv, Op
<1> HIDE DEF new
<1>6. TypeOK'
  BY <1>0, <1>1, <1>4 DEF IInv, TypeOK
<1>7. RowsWellFormed'
  BY <1>0 DEF IInv, RowsWellFormed
<1>8. HandlersWellFormed'
  BY <1>0, <1>1, <1>5 DEF IInv, HandlersWellFormed, TypeOK
<1>9. DecisionsMatchRows'
  BY <1>0, <1>1, <1>5 DEF IInv, DecisionsMatchRows, Deciding, Won, TypeOK, Actor
<1> QED BY <1>6, <1>7, <1>8, <1>9 DEF IInv

\* set_role's checks: refused, or on to the UPDATE.
LEMMA CheckRoleIInv ==
  ASSUME IInv, NEW a \in Actor, CheckRole(a)
  PROVE  IInv'
<1> DEFINE S == IF op[a].kind = "assign" THEN op[a].groups ELSE op[a].scope
           new == [op[a] EXCEPT !.phase = "writing", !.scope = S]
<1>0. UNCHANGED <<account, request, applied, crashes>>
  BY DEF CheckRole
<1>1. CASE Finish(a)
  BY <1>0, <1>1, FinishIInv DEF IInv, TypeOK
<1>2. CASE op' = [op EXCEPT ![a] = new]
  <2>1. \/ op[a].phase = "setting" /\ op[a].kind = "approve"
        \/ op[a].phase = "posted" /\ op[a].kind = "assign"
    BY DEF CheckRole, ReadyToSet, IInv, HandlersWellFormed
  <2>2. new \in Op
    <3>1. S \in SUBSET Group
      BY FieldTypes DEF IInv
    <3>2. op[a] \in Op
      BY FieldTypes DEF IInv
    <3> HIDE DEF S
    <3> QED BY <3>1, <3>2, OpScoped DEF Phase
  <2>3. /\ new.phase = "writing" /\ new.kind = op[a].kind /\ new.req = op[a].req
        /\ new.target = op[a].target /\ new.role = op[a].role
    BY FieldTypes DEF IInv, Op
  <2> HIDE DEF new
  <2>4. TypeOK'
    BY <1>0, <1>2, <2>2 DEF IInv, TypeOK
  <2>5. RowsWellFormed'
    BY <1>0 DEF IInv, RowsWellFormed
  <2>6. HandlersWellFormed'
    BY <1>0, <1>2, <2>1, <2>3 DEF IInv, HandlersWellFormed, TypeOK
  <2>7. DecisionsMatchRows'
    BY <1>0, <1>2, <2>1, <2>3
    DEF IInv, DecisionsMatchRows, Deciding, Won, TypeOK, Actor, HandlersWellFormed
  <2> QED BY <2>4, <2>5, <2>6, <2>7 DEF IInv
<1>3. Finish(a) \/ op' = [op EXCEPT ![a] = new]
  BY DEF CheckRole
<1> QED BY <1>1, <1>2, <1>3

LEMMA CheckActiveIInv ==
  ASSUME IInv, NEW u \in User, CheckActive(u)
  PROVE  IInv'
<1> DEFINE new == [op[u] EXCEPT !.phase = "writing"]
<1>0. u \in Actor /\ UNCHANGED <<account, request, applied, crashes>>
      /\ op[u].kind \in {"activate", "deactivate"}
  BY DEF CheckActive, Actor
<1>1. CASE Finish(u)
  BY <1>0, <1>1, FinishIInv DEF IInv, TypeOK
<1>2. CASE op' = [op EXCEPT ![u] = new]
  <2>1. new \in Op
    BY <1>0, FieldTypes DEF IInv, Op, Phase
  <2>2. new.phase = "writing" /\ new.kind = op[u].kind /\ new.target = op[u].target
    BY <1>0, FieldTypes DEF IInv, Op
  <2> HIDE DEF new
  <2>3. TypeOK'
    BY <1>0, <1>2, <2>1 DEF IInv, TypeOK
  <2>4. RowsWellFormed'
    BY <1>0 DEF IInv, RowsWellFormed
  <2>5. HandlersWellFormed'
    BY <1>0, <1>2, <2>2 DEF IInv, HandlersWellFormed, TypeOK
  <2>6. DecisionsMatchRows'
    BY <1>0, <1>2, <2>2 DEF IInv, DecisionsMatchRows, Deciding, Won, TypeOK, Actor
  <2> QED BY <2>3, <2>4, <2>5, <2>6 DEF IInv
<1>3. Finish(u) \/ op' = [op EXCEPT ![u] = new]
  BY DEF CheckActive
<1> QED BY <1>1, <1>2, <1>3

\* What set_role and the active flag write are account rows again.
LEMMA RoleSetType ==
  ASSUME NEW acc \in [User -> Account], NEW u \in User, NEW t \in Role,
         NEW S \in SUBSET Group, NEW src \in RoleSource
  PROVE  RoleSet(acc, u, t, S, src) \in [User -> Account]
<1> DEFINE new == [acc[u] EXCEPT !.role = t, !.scope = S, !.roleSource = src]
<1>0. \A x \in Account : [x EXCEPT !.role = t, !.scope = S, !.roleSource = src] \in Account
  BY DEF Account
<1>1. new \in Account
  BY <1>0
<1>2. RoleSet(acc, u, t, S, src) = [acc EXCEPT ![u] = new]
  BY DEF RoleSet
<1> HIDE DEF new
<1> QED BY <1>1, <1>2

LEMMA ActiveSetType ==
  ASSUME NEW acc \in [User -> Account], NEW u \in User, NEW b \in BOOLEAN
  PROVE  [acc EXCEPT ![u].active = b] \in [User -> Account]
<1> DEFINE new == [acc[u] EXCEPT !.active = b]
<1>1. new \in Account
  BY DEF Account
<1> QED BY <1>1

\* The two UPDATEs of advisor_user end their handler.
LEMMA WriteIInv ==
  ASSUME IInv, NEW a \in Actor, WriteRole(a) \/ (a \in User /\ WriteActive(a))
  PROVE  IInv'
<1>1. CASE WriteRole(a)
  <2>1. account' \in [User -> Account]
    <3>1. /\ op[a].role \in Role /\ op[a].scope \in SUBSET Group
          /\ SourceOf(op[a].kind) \in RoleSource
      BY FieldTypes DEF IInv, SourceOf, RoleSource
    <3>2. account' = RoleSet(account, op[a].target, op[a].role, op[a].scope,
                             SourceOf(op[a].kind))
      BY <1>1 DEF WriteRole
    <3>3. op[a].target \in User
      BY <1>1 DEF WriteRole, IInv, HandlersWellFormed, DecisionsMatchRows, Deciding,
                  RowsWellFormed
    <3> QED BY <3>1, <3>2, <3>3, RoleSetType DEF IInv, TypeOK
  <2>2. UNCHANGED <<request, crashes>> /\ Finish(a)
    BY <1>1 DEF WriteRole
  <2>3. applied' \subseteq ReqId
    BY <1>1 DEF WriteRole, IInv, TypeOK, HandlersWellFormed
  <2>4. TypeOK'
    BY <2>1, <2>2, <2>3, FinishType DEF IInv, TypeOK
  <2>5. RowsWellFormed'
    BY <2>2 DEF IInv, RowsWellFormed
  <2>6. HandlersWellFormed'
    BY <2>2 DEF IInv, HandlersWellFormed, TypeOK, Finish, Idle
  <2>7. DecisionsMatchRows'
    BY <2>2 DEF IInv, DecisionsMatchRows, Deciding, Won, TypeOK, Actor, Finish, Idle
  <2> QED BY <2>4, <2>5, <2>6, <2>7 DEF IInv
<1>2. CASE a \in User /\ WriteActive(a)
  <2>1. account' \in [User -> Account]
    <3>1. account' = [account EXCEPT ![op[a].target].active = (op[a].kind = "activate")]
      BY <1>2 DEF WriteActive
    <3>2. op[a].target \in User
      BY <1>2 DEF WriteActive, IInv, HandlersWellFormed
    <3>3. (op[a].kind = "activate") \in BOOLEAN
      OBVIOUS
    <3> QED BY <3>1, <3>2, <3>3, ActiveSetType DEF IInv, TypeOK
  <2> QED BY <1>2, <2>1, FinishIInv DEF WriteActive
<1> QED BY <1>1, <1>2

LEMMA SignInIInv ==
  ASSUME IInv, NEW u \in User, NEW derived \in SUBSET Group, SignIn(u, derived)
  PROVE  IInv'
<1>1. account' \in [User -> Account]
  BY DEF SignIn, SignedIn, IInv, TypeOK, Account
<1>2. UNCHANGED <<request, op, applied, crashes>>
  BY DEF SignIn
<1>3. TypeOK'
  BY <1>1, <1>2 DEF IInv, TypeOK
<1> QED BY <1>2, <1>3 DEF IInv, RowsWellFormed, HandlersWellFormed, DecisionsMatchRows,
                         Deciding, Won

LEMMA RestartIInv ==
  ASSUME IInv, Restart
  PROVE  IInv'
<1>1. TypeOK'
  BY BlankTypes DEF Restart, IInv, TypeOK
<1>2. RowsWellFormed'
  BY DEF Restart, IInv, RowsWellFormed
<1>3. HandlersWellFormed'
  BY DEF Restart, IInv, HandlersWellFormed, TypeOK, Actor, Idle
<1>4. DecisionsMatchRows'
  BY DEF Restart, DecisionsMatchRows, Deciding, Won, Actor, Idle
<1> QED BY <1>1, <1>2, <1>3, <1>4 DEF IInv

-----------------------------------------------------------------------------
(* Steps that change a request row.                                          *)

\* A row that is decided, withdrawn or swept goes from PENDING to a terminal status
\* and keeps its owner and its role; handlers that won another row are not disturbed.
LEMMA CloseIInv ==
  ASSUME IInv, NEW R \in SUBSET ReqId, \A r \in R : request[r].status = "PENDING",
         request' \in [ReqId -> Request],
         \A r \in ReqId \ R : request'[r] = request[r],
         \A r \in R : /\ request'[r].status \in Terminal
                      /\ request'[r].user = request[r].user
                      /\ request'[r].to = request[r].to,
         UNCHANGED <<account, op, applied, crashes>>
  PROVE  IInv'
<1>1. TypeOK'
  BY DEF IInv, TypeOK
<1>2. RowsWellFormed'
  BY DEF IInv, RowsWellFormed, Terminal
<1>3. HandlersWellFormed'
  BY DEF IInv, HandlersWellFormed, Terminal
<1>4. DecisionsMatchRows'
  BY DEF IInv, DecisionsMatchRows, HandlersWellFormed, Deciding, Won, Actor
<1> QED BY <1>1, <1>2, <1>3, <1>4 DEF IInv

LEMMA CancelIInv ==
  ASSUME IInv, NEW u \in User, NEW r \in ReqId, Cancel(u, r)
  PROVE  IInv'
<1> DEFINE new == [request[r] EXCEPT !.status = "CANCELLED"]
<1>1. request' = [request EXCEPT ![r] = new] /\ request[r].status = "PENDING"
      /\ UNCHANGED <<account, op, applied, crashes>>
  BY DEF Cancel, StillPending
<1>2. request[r] \in Request /\ request \in [ReqId -> Request]
  BY DEF IInv, TypeOK
<1>3. /\ new \in Request /\ new.status \in Terminal
      /\ new.user = request[r].user /\ new.to = request[r].to
  BY <1>2 DEF Request, Status, Terminal
<1> HIDE DEF new
<1> QED BY <1>1, <1>2, <1>3, CloseIInv, {r} \in SUBSET ReqId

LEMMA ExpireStaleIInv ==
  ASSUME IInv, ExpireStale
  PROVE  IInv'
<1> DEFINE new(r) == [request[r] EXCEPT !.status = "EXPIRED"]
<1>1. /\ request' = [r \in ReqId |-> IF r \in Overdue THEN new(r) ELSE request[r]]
      /\ UNCHANGED <<account, op, applied, crashes>>
  BY DEF ExpireStale
<1>2. Overdue \in SUBSET ReqId /\ \A r \in Overdue : request[r].status = "PENDING"
  BY DEF Overdue
<1>3. \A r \in ReqId : request[r] \in Request
  BY DEF IInv, TypeOK
<1>4. \A r \in ReqId : /\ new(r) \in Request /\ new(r).status \in Terminal
                       /\ new(r).user = request[r].user /\ new(r).to = request[r].to
  BY <1>3 DEF Request, Status, Terminal
<1> HIDE DEF new
<1>5. request' \in [ReqId -> Request]
  BY <1>1, <1>3, <1>4
<1> QED BY <1>1, <1>2, <1>4, <1>5, CloseIInv

LEMMA TimePassesIInv ==
  ASSUME IInv, NEW r \in ReqId, TimePasses(r)
  PROVE  IInv'
<1> DEFINE new == [request[r] EXCEPT !.passed = TRUE]
<1>1. request' = [request EXCEPT ![r] = new] /\ request[r].status # "NONE"
      /\ UNCHANGED <<account, op, applied, crashes>>
  BY DEF TimePasses
<1>2. request[r] \in Request /\ request \in [ReqId -> Request]
  BY DEF IInv, TypeOK
<1>3. /\ new \in Request /\ new.status = request[r].status /\ new.by = request[r].by
      /\ new.user = request[r].user /\ new.to = request[r].to
  BY <1>2 DEF Request
<1> HIDE DEF new
<1>4. TypeOK'
  BY <1>1, <1>2, <1>3 DEF IInv, TypeOK
<1>5. RowsWellFormed'
  BY <1>1, <1>2, <1>3 DEF IInv, RowsWellFormed
<1>6. HandlersWellFormed'
  BY <1>1, <1>2, <1>3 DEF IInv, HandlersWellFormed
<1>7. DecisionsMatchRows'
  BY <1>1, <1>2, <1>3
  DEF IInv, DecisionsMatchRows, HandlersWellFormed, Deciding, Won, Actor
<1> QED BY <1>4, <1>5, <1>6, <1>7 DEF IInv

LEMMA RejectIInv ==
  ASSUME IInv, NEW u \in User, Reject(u)
  PROVE  IInv'
<1> DEFINE r == op[u].req
           new == [request[r] EXCEPT !.status = "REJECTED", !.by = u, !.passed = FALSE]
<1>0. /\ u \in Actor /\ Finish(u) /\ UNCHANGED <<account, applied, crashes>>
      /\ r \in ReqId /\ TypeOK
  BY DEF Reject, Actor, IInv, HandlersWellFormed
<1>1. CASE UNCHANGED request
  BY <1>0, <1>1, FinishIInv DEF TypeOK
<1>2. CASE StillPending(r) /\ request' = [request EXCEPT ![r] = new]
  <2>1. request[r] \in Request
    BY <1>0 DEF TypeOK
  <2>2. /\ new \in Request /\ new.status = "REJECTED"
        /\ new.user = request[r].user /\ new.to = request[r].to
    BY <2>1 DEF Request, Status
  <2> HIDE DEF new, r
  <2>3. TypeOK'
    BY <1>0, <1>2, <2>2, FinishType DEF TypeOK
  <2>4. RowsWellFormed'
    BY <1>0, <1>2, <2>2 DEF IInv, RowsWellFormed, TypeOK, StillPending
  <2>5. HandlersWellFormed'
    BY <1>0, <1>2, <2>2 DEF IInv, HandlersWellFormed, TypeOK, Finish, Idle
  <2>6. DecisionsMatchRows'
    BY <1>0, <1>2, <2>2
    DEF IInv, DecisionsMatchRows, HandlersWellFormed, Deciding, Won, TypeOK, Actor,
        Finish, Idle, StillPending
  <2> QED BY <2>3, <2>4, <2>5, <2>6 DEF IInv
<1>3. UNCHANGED request \/ (StillPending(r) /\ request' = [request EXCEPT ![r] = new])
  BY DEF Reject
<1> QED BY <1>1, <1>2, <1>3

LEMMA ApproveIInv ==
  ASSUME IInv, NEW u \in User, Approve(u)
  PROVE  IInv'
<1> DEFINE r == op[u].req
           new == [request[r] EXCEPT !.status = "APPROVED", !.by = u,
                                     !.granted = op[u].groups, !.passed = FALSE]
           won == [op[u] EXCEPT !.phase = "setting"]
<1>0. /\ u \in Actor /\ UNCHANGED <<account, applied, crashes>>
      /\ op[u].phase = "scoped" /\ op[u].kind = "approve" /\ r \in ReqId /\ TypeOK
  BY DEF Approve, Actor, IInv, HandlersWellFormed
<1>1. CASE Finish(u) /\ UNCHANGED request
  BY <1>0, <1>1, FinishIInv DEF TypeOK
<1>2. CASE /\ StillPending(r) /\ request' = [request EXCEPT ![r] = new]
           /\ op' = [op EXCEPT ![u] = won]
  <2>1. request[r] \in Request /\ op[u] \in Op /\ op[u].groups \in SUBSET Group
    BY <1>0, FieldTypes DEF TypeOK
  <2>2. /\ new \in Request /\ new.status = "APPROVED" /\ new.by = u
        /\ new.user = request[r].user /\ new.to = request[r].to
    BY <2>1 DEF Request, Status
  <2>3. /\ won \in Op /\ won.phase = "setting" /\ won.kind = op[u].kind /\ won.req = r
        /\ won.target = op[u].target /\ won.role = op[u].role
    BY <2>1 DEF Op, Phase
  <2>4. request[r].status = "PENDING" /\ op[u].req = r
    BY <1>2 DEF StillPending
  <2> HIDE DEF new, won, r
  <2>5. TypeOK'
    BY <1>0, <1>2, <2>2, <2>3 DEF TypeOK
  <2>6. RowsWellFormed'
    BY <1>0, <1>2, <2>2, <2>4 DEF IInv, RowsWellFormed, TypeOK
  <2>7. HandlersWellFormed'
    BY <1>0, <1>2, <2>2, <2>3, <2>4 DEF IInv, HandlersWellFormed, TypeOK
  <2>8. DecisionsMatchRows'
    BY <1>0, <1>2, <2>2, <2>3, <2>4
    DEF IInv, DecisionsMatchRows, HandlersWellFormed, Deciding, Won, TypeOK, Actor
  <2> QED BY <2>5, <2>6, <2>7, <2>8 DEF IInv
<1>3. \/ Finish(u) /\ UNCHANGED request
      \/ /\ StillPending(r) /\ request' = [request EXCEPT ![r] = new]
         /\ op' = [op EXCEPT ![u] = won]
  BY DEF Approve
<1> QED BY <1>1, <1>2, <1>3

LEMMA OpenRequestIInv ==
  ASSUME IInv, NEW u \in User, OpenRequest(u)
  PROVE  IInv'
<1> DEFINE new == [NoRequest EXCEPT !.user = u, !.from = op[u].claim, !.to = op[u].role,
                                    !.groups = Missing(u), !.status = "PENDING"]
<1>0. /\ u \in Actor /\ Finish(u) /\ UNCHANGED <<account, applied, crashes>> /\ TypeOK
  BY DEF OpenRequest, Actor, IInv
<1>1. CASE UNCHANGED request
  BY <1>0, <1>1, FinishIInv DEF TypeOK
<1>2. ASSUME Admissible(u), NEW r \in ReqId, request[r].status = "NONE",
             request' = [request EXCEPT ![r] = new]
      PROVE  IInv'
  <2>1. op[u].claim \in Role /\ op[u].role \in Role /\ Missing(u) \in SUBSET Group
    BY <1>0, FieldTypes DEF Missing
  <2>2. op[u].role # "ADMIN"
    BY <1>2, TargetAssumption DEF Admissible, Additive
  <2>3. /\ new \in Request /\ new.status = "PENDING" /\ new.user = u
        /\ new.to = op[u].role
    BY <2>1 DEF NoRequest, Request, Status, Role
  <2> HIDE DEF new
  <2>4. TypeOK'
    BY <1>0, <1>2, <2>3, FinishType DEF TypeOK
  <2>5. RowsWellFormed'
    BY <1>0, <1>2, <2>2, <2>3 DEF IInv, RowsWellFormed, TypeOK
  <2>6. HandlersWellFormed'
    BY <1>0, <1>2, <2>3 DEF IInv, HandlersWellFormed, TypeOK, Finish, Idle
  <2>7. DecisionsMatchRows'
    BY <1>0, <1>2, <2>3
    DEF IInv, DecisionsMatchRows, HandlersWellFormed, Deciding, Won, TypeOK, Actor,
        Finish, Idle
  <2> QED BY <2>4, <2>5, <2>6, <2>7 DEF IInv
<1> QED BY <1>1, <1>2 DEF OpenRequest

-----------------------------------------------------------------------------

\* The strengthening holds in every reachable state, of the handlers, the rows they
\* decide on and everything the other actors do in between.
THEOREM Strengthening == Spec => []IInv
<1>1. Init => IInv
  <2> SUFFICES ASSUME Init PROVE IInv
    OBVIOUS
  <2>1. TypeOK
    BY BlankTypes DEF Init, TypeOK
  <2>2. RowsWellFormed /\ HandlersWellFormed /\ DecisionsMatchRows
    BY DEF Init, RowsWellFormed, HandlersWellFormed, DecisionsMatchRows, Deciding, Won,
           NoRequest, Idle, Actor
  <2> QED BY <2>1, <2>2 DEF IInv
<1>2. IInv /\ [Next]_vars => IInv'
  <2> SUFFICES ASSUME IInv, [Next]_vars PROVE IInv'
    OBVIOUS
  <2>1. ASSUME Post PROVE IInv'
    BY <2>1, PostIInv
  <2>2. ASSUME NEW u \in User, Body(u) PROVE IInv'
    BY <2>2, OpenRequestIInv, CheckDecisionIInv, ComputeScopeIInv, ApproveIInv, RejectIInv,
       CheckActiveIInv, WriteIInv DEF Body, Actor
  <2>3. ASSUME NEW a \in Actor, SetRole(a) PROVE IInv'
    BY <2>3, CheckRoleIInv, WriteIInv DEF SetRole
  <2>4. ASSUME NEW u \in User, NEW r \in ReqId, Cancel(u, r) PROVE IInv'
    BY <2>4, CancelIInv
  <2>5. ASSUME ExpireStale PROVE IInv'
    BY <2>5, ExpireStaleIInv
  <2>6. ASSUME NEW r \in ReqId, TimePasses(r) PROVE IInv'
    BY <2>6, TimePassesIInv
  <2>7. ASSUME NEW u \in User, NEW derived \in SUBSET Group, SignIn(u, derived) PROVE IInv'
    BY <2>7, SignInIInv
  <2>8. ASSUME Restart PROVE IInv'
    BY <2>8, RestartIInv
  <2>9. CASE UNCHANGED vars
    BY <2>9 DEF vars, IInv, TypeOK, RowsWellFormed, HandlersWellFormed, DecisionsMatchRows,
                Deciding, Won
  <2> QED BY <2>1, <2>2, <2>3, <2>4, <2>5, <2>6, <2>7, <2>8, <2>9 DEF Next
<1> QED BY <1>1, <1>2, PTL DEF Spec

\* The two tables and the handlers in flight keep their types.
THEOREM TypeCorrect == Spec => []TypeOK
<1>1. IInv => TypeOK
  BY DEF IInv
<1> QED BY <1>1, Strengthening, PTL


-----------------------------------------------------------------------------
(* What the module promises.                                                *)

\* The steps that write role_request.
LEMMA RequestSteps ==
  ASSUME IInv, [Next]_vars
  PROVE  \/ UNCHANGED request
         \/ \E u \in User : OpenRequest(u) \/ Approve(u) \/ Reject(u)
         \/ \E u \in User, r \in ReqId : Cancel(u, r)
         \/ ExpireStale
         \/ \E r \in ReqId : TimePasses(r)
BY PostHandler
DEF IInv, Next, Body, SetRole, CheckDecision, ComputeScope, CheckActive, WriteActive,
    CheckRole, WriteRole, SignIn, Restart, vars

\* A row that reads APPROVED keeps its owner, its role and its decider for good.
LEMMA ApprovedRowsStay ==
  ASSUME IInv, [Next]_vars, NEW r \in ReqId, request[r].status = "APPROVED"
  PROVE  /\ request'[r].status = "APPROVED" /\ request'[r].user = request[r].user
         /\ request'[r].to = request[r].to /\ request'[r].by = request[r].by
<1> DEFINE Kept == /\ request'[r].status = "APPROVED" /\ request'[r].user = request[r].user
                   /\ request'[r].to = request[r].to /\ request'[r].by = request[r].by
<1>0. request \in [ReqId -> Request] /\ request[r] \in Request
  BY DEF IInv, TypeOK
<1>1. CASE UNCHANGED request
  BY <1>1
<1>2. ASSUME NEW u \in User, OpenRequest(u) PROVE Kept
  BY <1>0, <1>2 DEF OpenRequest
<1>3. ASSUME NEW u \in User, Approve(u) \/ Reject(u) PROVE Kept
  BY <1>0, <1>3 DEF Approve, Reject, StillPending
<1>4. ASSUME NEW u \in User, NEW q \in ReqId, Cancel(u, q) PROVE Kept
  BY <1>0, <1>4 DEF Cancel, StillPending
<1>5. ASSUME ExpireStale PROVE Kept
  BY <1>0, <1>5 DEF ExpireStale, Overdue
<1>6. ASSUME NEW q \in ReqId, TimePasses(q) PROVE Kept
  BY <1>0, <1>6 DEF TimePasses
<1> QED BY <1>1, <1>2, <1>3, <1>4, <1>5, <1>6, RequestSteps

\* The steps that write advisor_user, and what each writes to one account w.
LEMMA AccountSteps ==
  ASSUME IInv, [Next]_vars, NEW w \in User
  PROVE  \/ /\ account'[w].role = account[w].role
            /\ account'[w].roleSource = account[w].roleSource
         \/ \E a \in Actor : /\ WriteRole(a) /\ op[a].target = w
                             /\ account'[w].role = op[a].role
                             /\ account'[w].roleSource = SourceOf(op[a].kind)
<1> DEFINE Same == /\ account'[w].role = account[w].role
                   /\ account'[w].roleSource = account[w].roleSource
<1>0. account \in [User -> Account] /\ \A x \in User : account[x] \in Account
  BY DEF IInv, TypeOK
<1>1. ASSUME NEW a \in Actor, WriteRole(a)
      PROVE Same \/ /\ op[a].target = w /\ account'[w].role = op[a].role
                    /\ account'[w].roleSource = SourceOf(op[a].kind)
  BY <1>0, <1>1 DEF WriteRole, RoleSet, Account
<1>2. ASSUME NEW u \in User, WriteActive(u) PROVE Same
  BY <1>0, <1>2 DEF WriteActive, Account
<1>3. ASSUME NEW u \in User, NEW derived \in SUBSET Group, SignIn(u, derived) PROVE Same
  BY <1>0, <1>3 DEF SignIn, SignedIn, Account
<1>4. \/ UNCHANGED account
      \/ \E a \in Actor : WriteRole(a)
      \/ \E u \in User : WriteActive(u)
      \/ \E u \in User, derived \in SUBSET Group : SignIn(u, derived)
  BY PostHandler
  DEF IInv, Next, Body, SetRole, OpenRequest, CheckDecision, ComputeScope, Approve, Reject,
      CheckActive, CheckRole, Cancel, ExpireStale, TimePasses, Restart, vars
<1> QED BY <1>1, <1>2, <1>3, <1>4

\* A body that reaches set_role from an approval has won a row of the account it
\* writes, for the role it writes, as somebody else.
LEMMA GrantIsBacked ==
  ASSUME IInv, NEW a \in Actor, WriteRole(a), SourceOf(op[a].kind) = "REQUEST"
  PROVE  LET r == op[a].req IN
         /\ r \in ReqId /\ a \in User
         /\ request[r].status = "APPROVED" /\ request[r].user = op[a].target
         /\ request[r].to = op[a].role /\ request[r].by \in User \ {op[a].target}
<1>1. op[a].kind = "approve" /\ op[a].phase = "writing"
  BY DEF SourceOf, WriteRole
<1>2. a \in User /\ op[a].req \in ReqId
  BY <1>1 DEF IInv, HandlersWellFormed
<1> QED BY <1>1, <1>2 DEF IInv, DecisionsMatchRows, Deciding, Won

\* Every role that came by request is backed by an approved request of that person
\* for that role, decided by somebody else (access.py approve, _refuse_decision).
THEOREM RequestedRolesAreBacked == Spec => []RequestedRoleIsBacked
<1>1. Init => RequestedRoleIsBacked
  BY DEF Init, RequestedRoleIsBacked
<1>2. IInv /\ RequestedRoleIsBacked /\ [Next]_vars => RequestedRoleIsBacked'
  <2> SUFFICES ASSUME IInv, RequestedRoleIsBacked, [Next]_vars,
                      NEW w \in User, account'[w].roleSource = "REQUEST"
               PROVE  \E r \in ReqId : /\ request'[r].status = "APPROVED"
                                       /\ request'[r].user = w
                                       /\ request'[r].to = account'[w].role
                                       /\ request'[r].by \in User \ {w}
    BY DEF RequestedRoleIsBacked
  <2> DEFINE Backed == \E r \in ReqId : /\ request[r].status = "APPROVED"
                                         /\ request[r].user = w
                                         /\ request[r].to = account'[w].role
                                         /\ request[r].by \in User \ {w}
  <2>1. Backed
    <3>1. CASE /\ account'[w].role = account[w].role
               /\ account'[w].roleSource = account[w].roleSource
      BY <3>1 DEF RequestedRoleIsBacked
    <3>2. ASSUME NEW a \in Actor, WriteRole(a), op[a].target = w,
                 account'[w].role = op[a].role,
                 account'[w].roleSource = SourceOf(op[a].kind)
          PROVE Backed
      BY <3>2, GrantIsBacked
    <3> QED BY <3>1, <3>2, AccountSteps
  <2> QED BY <2>1, ApprovedRowsStay
<1> QED BY <1>1, <1>2, Strengthening, PTL DEF Spec

\* No chain of requests and approvals makes anybody an administrator: the role of an
\* administrator was assigned by hand (access.py _REQUESTABLE).
THEOREM AdministratorsAreAssigned == Spec => []AdminIsNeverRequested
<1>1. IInv /\ RequestedRoleIsBacked => AdminIsNeverRequested
  BY DEF IInv, TypeOK, Account, RoleSource, RowsWellFormed, RequestedRoleIsBacked,
         AdminIsNeverRequested
<1> QED BY <1>1, Strengthening, RequestedRolesAreBacked, PTL

-----------------------------------------------------------------------------
(* role_request implements RequestLedger.                                   *)

L == [r \in ReqId |-> [user |-> request[r].user, to |-> request[r].to,
                       status |-> request[r].status, by |-> request[r].by]]

\* A step that leaves every row's owner, role, status and decider alone is no step
\* of the ledger.
LEMMA LedgerStutters ==
  ASSUME \A r \in ReqId : /\ request'[r].user = request[r].user
                          /\ request'[r].to = request[r].to
                          /\ request'[r].status = request[r].status
                          /\ request'[r].by = request[r].by
  PROVE  L' = L
BY DEF L

\* A step that assigns an open row's status and decider, somebody else than its owner,
\* is a decision of the ledger.
LEMMA LedgerRow ==
  ASSUME NEW r \in ReqId, NEW a, NEW s \in {"APPROVED", "REJECTED"},
         request[r].status = "PENDING", request[r].user # a,
         \A q \in ReqId \ {r} : request'[q] = request[q],
         request'[r].user = request[r].user, request'[r].to = request[r].to,
         request'[r].status = s, request'[r].by = a
  PROVE  Ledger!Decide(r, a, s)
BY DEF Ledger!Decide

LEMMA LedgerOpens ==
  ASSUME IInv, NEW u \in User, OpenRequest(u), request' # request
  PROVE  \E r \in ReqId, t \in Role : Ledger!Open(r, u, t)
<1>1. PICK r \in ReqId :
        /\ request[r].status = "NONE"
        /\ request' = [request EXCEPT ![r] =
              [NoRequest EXCEPT !.user = u, !.from = op[u].claim, !.to = op[u].role,
                                !.groups = Missing(u), !.status = "PENDING"]]
        /\ ~PendingKeyTaken(u, op[u].role)
  BY DEF OpenRequest
<1>2. op[u].role \in Role /\ request \in [ReqId -> Request]
  BY FieldTypes DEF IInv, TypeOK, Actor
<1>3. ~Ledger!HasOpen(u, op[u].role)
  BY <1>1 DEF Ledger!HasOpen, PendingKeyTaken
<1>4. L[r].status = "NONE"
  BY <1>1 DEF L
<1>5. L' = [L EXCEPT ![r] = [user |-> u, to |-> op[u].role, status |-> "PENDING",
                             by |-> NoUser]]
  BY <1>1, <1>2 DEF L, NoRequest
<1> QED BY <1>2, <1>3, <1>4, <1>5 DEF Ledger!Open, L

LEMMA LedgerDecides ==
  ASSUME IInv, NEW u \in User, Approve(u) \/ Reject(u), request' # request
  PROVE  \E r \in ReqId, s \in {"APPROVED", "REJECTED"} : Ledger!Decide(r, u, s)
<1>0. op[u].req \in ReqId
  BY DEF Approve, Reject, IInv, HandlersWellFormed, Actor
<1> PICK r \in ReqId : r = op[u].req
  BY <1>0
<1>1. request \in [ReqId -> Request] /\ request[r] \in Request
  BY DEF IInv, TypeOK
<1>2. request[r].user # u /\ request[r].status = "PENDING"
  BY DEF Approve, Reject, StillPending, IInv, HandlersWellFormed, DecisionsMatchRows,
         Deciding, Actor
<1>3. CASE Approve(u)
  <2>1. /\ \A q \in ReqId \ {r} : request'[q] = request[q]
        /\ request'[r].user = request[r].user /\ request'[r].to = request[r].to
        /\ request'[r].status = "APPROVED" /\ request'[r].by = u
    <3> DEFINE new == [request[r] EXCEPT !.status = "APPROVED", !.by = u,
                                              !.granted = op[u].groups, !.passed = FALSE]
    <3>1. request' = [request EXCEPT ![r] = new]
      BY <1>3 DEF Approve
    <3>2. /\ new.status = "APPROVED" /\ new.by = u
          /\ new.user = request[r].user /\ new.to = request[r].to
      BY <1>1 DEF Request
    <3> HIDE DEF new
    <3> QED BY <1>1, <3>1, <3>2
  <2>2. Ledger!Decide(r, u, "APPROVED")
    BY <1>2, <2>1, LedgerRow
  <2> QED BY <2>2
<1>4. CASE Reject(u)
  <2>1. /\ \A q \in ReqId \ {r} : request'[q] = request[q]
        /\ request'[r].user = request[r].user /\ request'[r].to = request[r].to
        /\ request'[r].status = "REJECTED" /\ request'[r].by = u
    <3> DEFINE new == [request[r] EXCEPT !.status = "REJECTED", !.by = u, !.passed = FALSE]
    <3>1. request' = [request EXCEPT ![r] = new]
      BY <1>4 DEF Reject
    <3>2. /\ new.status = "REJECTED" /\ new.by = u
          /\ new.user = request[r].user /\ new.to = request[r].to
      BY <1>1 DEF Request
    <3> HIDE DEF new
    <3> QED BY <1>1, <3>1, <3>2
  <2>2. Ledger!Decide(r, u, "REJECTED")
    BY <1>2, <2>1, LedgerRow
  <2> QED BY <2>2
<1> QED BY <1>3, <1>4

LEMMA LedgerWithdraws ==
  ASSUME IInv, NEW u \in User, NEW r \in ReqId, Cancel(u, r)
  PROVE  Ledger!Withdraw(r)
<1>1. request \in [ReqId -> Request] /\ request[r] \in Request
  BY DEF IInv, TypeOK
<1>2. L' = [L EXCEPT ![r] = [@ EXCEPT !.status = "CANCELLED"]]
  BY <1>1 DEF Cancel, L, Request
<1> QED BY <1>2 DEF Ledger!Withdraw, L, Cancel, StillPending

LEMMA LedgerExpires ==
  ASSUME IInv, ExpireStale
  PROVE  \E R \in SUBSET ReqId : Ledger!Expire(R)
<1>1. \A r \in ReqId : request[r] \in Request
  BY DEF IInv, TypeOK
<1>2. Overdue \in SUBSET ReqId /\ \A r \in Overdue : L[r].status = "PENDING"
  BY DEF Overdue, L
<1>3. L' = [r \in ReqId |-> IF r \in Overdue THEN [L[r] EXCEPT !.status = "EXPIRED"]
                                             ELSE L[r]]
  BY <1>1 DEF ExpireStale, L, Request
<1> QED BY <1>2, <1>3 DEF Ledger!Expire, L

\* The requests table keeps the ledger's promise to the auditor: opened once, one open
\* request per person and role, closed once and for good, never by its owner except
\* by withdrawing it (access.py, schema.sql uq_pending).
THEOREM ImplementsLedger == Spec => LedgerSpec
<1>1. Init => Ledger!Init
  BY DEF Init, Ledger!Init, Ledger!Blank, NoRequest
<1>2. IInv /\ [Next]_vars => [Ledger!Next]_L
  <2> SUFFICES ASSUME IInv, [Next]_vars PROVE Ledger!Next \/ L' = L
    OBVIOUS
  <2>1. CASE UNCHANGED request
    BY <2>1, LedgerStutters
  <2>2. ASSUME NEW u \in User, OpenRequest(u) PROVE Ledger!Next \/ L' = L
    BY <2>1, <2>2, LedgerOpens DEF Ledger!Next
  <2>3. ASSUME NEW u \in User, Approve(u) \/ Reject(u) PROVE Ledger!Next \/ L' = L
    BY <2>1, <2>3, LedgerDecides DEF Ledger!Next
  <2>4. ASSUME NEW u \in User, NEW r \in ReqId, Cancel(u, r) PROVE Ledger!Next
    BY <2>4, LedgerWithdraws DEF Ledger!Next
  <2>5. ASSUME ExpireStale PROVE Ledger!Next
    BY <2>5, LedgerExpires DEF Ledger!Next
  <2>6. ASSUME NEW r \in ReqId, TimePasses(r) PROVE L' = L
    <3>1. \A q \in ReqId : request[q] \in Request
      BY DEF IInv, TypeOK
    <3> QED BY <2>6, <3>1, LedgerStutters DEF TimePasses, Request, IInv, TypeOK
  <2>7. \/ UNCHANGED request
        \/ \E u \in User : OpenRequest(u) \/ Approve(u) \/ Reject(u)
        \/ \E u \in User, r \in ReqId : Cancel(u, r)
        \/ ExpireStale
        \/ \E r \in ReqId : TimePasses(r)
    BY RequestSteps
  <2> QED BY <2>1, <2>2, <2>3, <2>4, <2>5, <2>6, <2>7
<1> QED BY <1>1, <1>2, Strengthening, PTL DEF Spec, LedgerSpec, Ledger!Spec, L

-----------------------------------------------------------------------------
(* The event loop keeps a check and its UPDATE together.                    *)

\* With nobody on the command line, two bodies are never past their first step at
\* once, and what set_role or the active flag checked still holds at the UPDATE.
PagesInv == OneBody /\ ChecksStillHold /\ AdministratorRemains

\* Whoever set_role may write leaves an administrator behind.
LEMMA RoleSetKeepsAdmin ==
  ASSUME NEW acc \in [User -> Account], NEW u \in User, NEW t \in Role, NEW S, NEW src,
         ActiveAdmins(acc) # {}, ~SetRoleRefused(acc, u, t)
  PROVE  ActiveAdmins(RoleSet(acc, u, t, S, src)) # {}
<1> DEFINE new == RoleSet(acc, u, t, S, src)
<1>1. /\ \A w \in User \ {u} : new[w] = acc[w]
      /\ new[u].role = t /\ new[u].active = acc[u].active
  BY DEF RoleSet, Account
<1> HIDE DEF new
<1>2. ASSUME NEW w \in ActiveAdmins(acc), w # u PROVE w \in ActiveAdmins(new)
  BY <1>1, <1>2 DEF ActiveAdmins
<1>3. ASSUME ActiveAdmins(acc) = {u} PROVE u \in ActiveAdmins(new)
  BY <1>1, <1>3 DEF ActiveAdmins, SetRoleRefused
<1>4. ActiveAdmins(new) # {}
  BY <1>2, <1>3
<1> QED BY <1>4 DEF new

LEMMA ActiveSetKeepsAdmin ==
  ASSUME NEW acc \in [User -> Account], NEW actor \in User, NEW u \in User, NEW b \in BOOLEAN,
         ActiveAdmins(acc) # {}, b \/ ~DeactivationRefused(acc, actor, u)
  PROVE  ActiveAdmins([acc EXCEPT ![u].active = b]) # {}
<1> DEFINE new == [acc EXCEPT ![u].active = b]
<1>1. /\ \A w \in User \ {u} : new[w] = acc[w]
      /\ new[u].role = acc[u].role /\ new[u].active = b
  BY DEF Account
<1> HIDE DEF new
<1>2. ASSUME NEW w \in ActiveAdmins(acc), w # u PROVE w \in ActiveAdmins(new)
  BY <1>1, <1>2 DEF ActiveAdmins
<1>3. ASSUME ActiveAdmins(acc) = {u} PROVE u \in ActiveAdmins(new)
  BY <1>1, <1>3 DEF ActiveAdmins, DeactivationRefused
<1>4. ActiveAdmins(new) # {}
  BY <1>2, <1>3
<1> QED BY <1>4 DEF new

\* Which rows decide whether an administrator may go: roles and active flags.
SameRoles == \A w \in User : /\ account'[w].role = account[w].role
                             /\ account'[w].active = account[w].active

LEMMA SameRolesSameRefusals ==
  ASSUME SameRoles
  PROVE  /\ ActiveAdmins(account') = ActiveAdmins(account)
         /\ \A w \in User, t \in Role :
               SetRoleRefused(account', w, t) = SetRoleRefused(account, w, t)
         /\ \A u, w \in User :
               DeactivationRefused(account', u, w) = DeactivationRefused(account, u, w)
<1>1. ActiveAdmins(account') = ActiveAdmins(account)
  BY DEF SameRoles, ActiveAdmins
<1> QED BY <1>1 DEF SameRoles, SetRoleRefused, DeactivationRefused

\* A step either writes what a body checked, or checks, or concerns neither.
LEMMA PageSteps ==
  ASSUME IInv, [Next]_vars, CliOn = FALSE, op[Cli].phase = "idle"
  PROVE  /\ op'[Cli].phase = "idle"
         /\ \/ \E u \in User : WriteRole(u) \/ WriteActive(u)
            \/ \E u \in User : CheckRole(u) \/ CheckActive(u)
            \/ SameRoles /\ \A u \in User : op'[u].phase = "writing" => op'[u] = op[u]
<1> DEFINE Quiet == SameRoles /\ \A u \in User : op'[u].phase = "writing" => op'[u] = op[u]
<1>0. /\ op \in [Actor -> Op] /\ Cli \in Actor /\ \A u \in User : u \in Actor /\ u # Cli
      /\ account \in [User -> Account]
  BY CliAssumption DEF IInv, TypeOK, Actor
<1>1. ASSUME Post PROVE Quiet /\ op'[Cli].phase = "idle"
  <2>1. UNCHANGED account
    BY <1>1, PostHandler DEF IInv
  <2>2. op'[Cli] = op[Cli]
    BY <1>0, <1>1 DEF Post, PostRequest, PostDecision, PostAssign, PostActive, StartCli
  <2>3. \A u \in User : op'[u].phase = "writing" => op'[u] = op[u]
    BY <1>0, <1>1, PostHandler DEF IInv, Posted
  <2> QED BY <2>1, <2>2, <2>3 DEF SameRoles
<1>2. ASSUME NEW u \in User, Body(u)
      PROVE /\ Quiet \/ CheckActive(u) \/ WriteActive(u)
            /\ op'[Cli].phase = "idle"
  <2>1. op'[Cli] = op[Cli]
    BY <1>0, <1>2
    DEF Body, OpenRequest, CheckDecision, ComputeScope, Approve, Reject, CheckActive,
        WriteActive, Finish
  <2>2. CASE Finish(u) /\ UNCHANGED account
    BY <1>0, <2>2 DEF Finish, Idle, SameRoles
  <2>3. CASE CheckDecision(u) /\ ~Finish(u)
    <3> DEFINE r == op[u].req
               new == [op[u] EXCEPT !.phase = "checked", !.target = request[r].user,
                                    !.role = request[r].to,
                                    !.groups = IF @ = {} THEN request[r].groups ELSE @]
    <3>1. op' = [op EXCEPT ![u] = new] /\ UNCHANGED account
      BY <2>3 DEF CheckDecision
    <3>2. new.phase = "checked"
      BY <1>0, FieldTypes DEF IInv, Op
    <3> HIDE DEF new, r
    <3> QED BY <1>0, <3>1, <3>2 DEF SameRoles
  <2>4. CASE ComputeScope(u)
    BY <1>0, <2>4 DEF ComputeScope, SameRoles
  <2>5. CASE Approve(u) /\ ~Finish(u)
    <3> DEFINE won == [op[u] EXCEPT !.phase = "setting"]
    <3>1. op' = [op EXCEPT ![u] = won] /\ UNCHANGED account
      BY <2>5 DEF Approve
    <3>2. won.phase = "setting"
      BY <1>0, FieldTypes DEF IInv, Op
    <3> HIDE DEF won
    <3> QED BY <1>0, <3>1, <3>2 DEF SameRoles
  <2> QED
    BY <1>2, <2>1, <2>2, <2>3, <2>4, <2>5
    DEF Body, OpenRequest, CheckDecision, Approve, Reject
<1>3. ASSUME NEW a \in Actor, SetRole(a) PROVE a \in User /\ op'[Cli].phase = "idle"
  BY <1>0, <1>3 DEF SetRole, CheckRole, WriteRole, ReadyToSet, Finish, Actor
<1>4. ASSUME NEW u \in User, NEW derived \in SUBSET Group, SignIn(u, derived)
      PROVE Quiet /\ op'[Cli].phase = "idle"
  BY <1>0, <1>4 DEF SignIn, SignedIn, SameRoles, Account
<1>5. ASSUME Restart PROVE Quiet /\ op'[Cli].phase = "idle"
  BY <1>0, <1>5 DEF Restart, Idle, SameRoles
<1>6. ASSUME UNCHANGED <<account, op>> PROVE Quiet /\ op'[Cli].phase = "idle"
  BY <1>6 DEF SameRoles
<1>7. \/ Post \/ Restart \/ UNCHANGED <<account, op>>
      \/ \E u \in User : Body(u)
      \/ \E a \in Actor : SetRole(a)
      \/ \E u \in User, derived \in SUBSET Group : SignIn(u, derived)
  BY DEF Next, Cancel, ExpireStale, TimePasses, vars
<1> QED BY <1>1, <1>2, <1>3, <1>4, <1>5, <1>6, <1>7 DEF SetRole

\* A body leaves its first step only when no other is past it.
LEMMA BodyEnters ==
  ASSUME IInv, [Next]_vars, NEW u \in User, op'[u].phase \notin {"idle", "posted"}
  PROVE  \/ op[u].phase \notin {"idle", "posted"}
         \/ LoopFree /\ \A w \in User \ {u} : op'[w] = op[w]
<1>0. op \in [Actor -> Op] /\ \A w \in User : w \in Actor /\ w # Cli
  BY CliAssumption DEF IInv, TypeOK, Actor
<1> DEFINE Enters == \/ op[u].phase \notin {"idle", "posted"}
                     \/ LoopFree /\ \A w \in User \ {u} : op'[w] = op[w]
<1>1. ASSUME Post PROVE Enters
  <2>1. PICK a \in Actor, new \in Op : Posted(a, new)
    BY <1>1, PostHandler DEF IInv
  <2> QED BY <1>0, <2>1 DEF Posted
<1>2. ASSUME NEW x \in User, Body(x) PROVE Enters
  BY <1>0, <1>2
  DEF Body, OpenRequest, CheckDecision, ComputeScope, Approve, Reject, CheckActive,
      WriteActive, Finish, Idle
<1>3. ASSUME NEW a \in Actor, SetRole(a) PROVE Enters
  BY <1>0, <1>3 DEF SetRole, CheckRole, WriteRole, ReadyToSet, Finish, Idle
<1>4. ASSUME Restart PROVE Enters
  BY <1>0, <1>4 DEF Restart, Idle
<1>5. \/ Post \/ Restart \/ UNCHANGED op
      \/ \E x \in User : Body(x)
      \/ \E a \in Actor : SetRole(a)
  BY DEF Next, Cancel, ExpireStale, TimePasses, SignIn, vars
<1> QED BY <1>1, <1>2, <1>3, <1>4, <1>5

LEMMA PagesInvariant ==
  ASSUME CliOn = FALSE
  PROVE  Spec => []PagesInv
<1>1. Init => PagesInv
  BY DEF Init, PagesInv, OneBody, ChecksStillHold, AdministratorRemains, Idle, Actor
<1>2. IInv /\ PagesInv /\ [Next]_vars => PagesInv'
  <2> SUFFICES ASSUME IInv, PagesInv, [Next]_vars PROVE PagesInv'
    OBVIOUS
  <2>0. /\ op \in [Actor -> Op] /\ Cli \in Actor /\ \A u \in User : u \in Actor /\ u # Cli
        /\ account \in [User -> Account]
    BY CliAssumption DEF IInv, TypeOK, Actor
  <2>1. OneBody'
    BY BodyEnters DEF PagesInv, OneBody, LoopFree
  <2>2. op[Cli].phase = "idle" /\ op'[Cli].phase = "idle"
    BY PageSteps DEF PagesInv, ChecksStillHold
  <2>3. ASSUME NEW u \in User, WriteRole(u) \/ WriteActive(u)
        PROVE AdministratorRemains' /\ ChecksStillHold'
    <3>1. op[u].phase = "writing" /\ op' = [op EXCEPT ![u] = Idle]
      BY <2>3 DEF WriteRole, WriteActive, Finish
    <3>2. \A w \in User : op'[w].phase # "writing"
      BY <2>0, <3>1 DEF PagesInv, OneBody, Idle
    <3>3. CASE WriteRole(u)
      <4>1. op[u].target \in User /\ op[u].role \in Role
        BY <2>0, <3>3, FieldTypes DEF WriteRole, IInv, HandlersWellFormed,
           DecisionsMatchRows, Deciding, RowsWellFormed
      <4>2. ~SetRoleRefused(account, op[u].target, op[u].role)
        BY <3>3 DEF WriteRole, PagesInv, ChecksStillHold
      <4>3. AdministratorRemains'
        BY <2>0, <3>3, <4>1, <4>2, RoleSetKeepsAdmin
        DEF WriteRole, PagesInv, AdministratorRemains
      <4> QED BY <2>2, <3>2, <4>3 DEF ChecksStillHold
    <3>4. CASE WriteActive(u)
      <4>1. op[u].target \in User
        BY <2>0, <3>4 DEF WriteActive, IInv, HandlersWellFormed
      <4>2. op[u].kind = "activate" \/ ~DeactivationRefused(account, u, op[u].target)
        BY <3>4 DEF WriteActive, PagesInv, ChecksStillHold
      <4>3. AdministratorRemains'
        BY <2>0, <3>4, <4>1, <4>2, ActiveSetKeepsAdmin
        DEF WriteActive, PagesInv, AdministratorRemains
      <4> QED BY <2>2, <3>2, <4>3 DEF ChecksStillHold
    <3> QED BY <2>3, <3>3, <3>4
  <2>4. ASSUME NEW u \in User, CheckRole(u) \/ CheckActive(u)
        PROVE AdministratorRemains' /\ ChecksStillHold'
    <3>1. UNCHANGED account
      BY <2>4 DEF CheckRole, CheckActive
    <3>2. CASE op' = [op EXCEPT ![u] = Idle]
      BY <2>0, <2>2, <3>1, <3>2 DEF PagesInv, AdministratorRemains, ChecksStillHold, Idle
    <3>3. CASE CheckRole(u) /\ ~SetRoleRefused(account, op[u].target, op[u].role)
      BY <2>0, <2>2, <3>1, <3>3
      DEF CheckRole, ReadyToSet, PagesInv, AdministratorRemains, ChecksStillHold, IInv,
          HandlersWellFormed, Op
    <3>4. CASE CheckActive(u) /\ ~(op[u].kind = "deactivate"
                                  /\ DeactivationRefused(account, u, op[u].target))
      BY <2>0, <2>2, <3>1, <3>4
      DEF CheckActive, PagesInv, AdministratorRemains, ChecksStillHold, Op
    <3> QED BY <2>4, <3>2, <3>3, <3>4 DEF CheckRole, CheckActive, Finish
  <2>5. ASSUME SameRoles, \A u \in User : op'[u].phase = "writing" => op'[u] = op[u]
        PROVE AdministratorRemains' /\ ChecksStillHold'
    <3>1. \A u \in User : op[u].phase = "writing" /\ op[u].kind # "none"
                          => op[u].target \in User /\ op[u].role \in Role
      BY <2>0, FieldTypes DEF IInv, HandlersWellFormed, DecisionsMatchRows, Deciding,
         RowsWellFormed
    <3> QED BY <2>2, <2>5, <3>1, SameRolesSameRefusals
            DEF PagesInv, AdministratorRemains, ChecksStillHold
  <2> QED BY <2>1, <2>2, <2>3, <2>4, <2>5, PageSteps DEF PagesInv
<1> QED BY <1>1, <1>2, Strengthening, PTL DEF Spec

\* The pages, in any order and number, with sign-ins, sweeps and restarts between any
\* two statements, never leave the service without an administrator - as long as
\* nobody uses the command line (auth.py set_role, app.py admin_user_active).
THEOREM PagesKeepAnAdministrator ==
  ASSUME CliOn = FALSE
  PROVE  Spec => []AdministratorRemains
<1>1. PagesInv => AdministratorRemains
  BY DEF PagesInv
<1> QED BY <1>1, PagesInvariant, PTL

-----------------------------------------------------------------------------
(* An approval's grant is as sound when it is written as when it was read.  *)

Past(u) == op[u].phase \notin {"idle", "posted"}

\* What an approval past its checks knows of the account it decides about.
GrantHolds(u) ==
    op[u].kind = "approve" /\ Past(u) =>
        /\ account[op[u].target].active
        /\ op[u].phase # "checked" /\ account[op[u].target].role = op[u].role
             => account[op[u].target].scope \cup op[u].groups \subseteq op[u].scope

GrantsHold == \A u \in User : GrantHolds(u)

\* Nothing else writes an account while a body is past its authorisation.
LEMMA AccountsRest ==
  ASSUME PagesInv, NEW u \in User, Past(u), NEW x \in User, x # u
  PROVE  ~WriteRole(x) /\ ~WriteActive(x)
BY DEF PagesInv, OneBody, Past, WriteRole, WriteActive

LEMMA OwnStep ==
  ASSUME IInv, NEW u \in User, GrantHolds(u), Body(u) \/ SetRole(u)
  PROVE  GrantHolds(u)'
<1>0. /\ op \in [Actor -> Op] /\ u \in Actor /\ op[u] \in Op
      /\ account \in [User -> Account]
  BY DEF IInv, TypeOK, Actor
<1>1. CASE Finish(u)
  BY <1>0, <1>1 DEF Finish, Idle, GrantHolds, Past
<1>2. CASE CheckDecision(u) /\ ~Finish(u)
  <2> DEFINE r == op[u].req
             gs == IF op[u].groups = {} THEN request[r].groups ELSE op[u].groups
             new == [op[u] EXCEPT !.phase = "checked", !.target = request[r].user,
                                  !.role = request[r].to, !.groups = gs]
  <2>1. op' = [op EXCEPT ![u] = new] /\ UNCHANGED account
        /\ account[request[r].user].active
    BY <1>2 DEF CheckDecision, RefuseDecision
  <2>2. new.phase = "checked" /\ new.target = request[r].user
    BY <1>0 DEF Op
  <2> HIDE DEF new, r
  <2>3. op'[u] = new
    BY <1>0, <2>1
  <2> QED BY <2>1, <2>2, <2>3 DEF GrantHolds
<1>3. CASE ComputeScope(u)
  <2>1. op'[u].scope = ResultingScope(u) /\ op'[u].target = op[u].target
        /\ op'[u].role = op[u].role /\ op'[u].groups = op[u].groups
        /\ UNCHANGED account /\ op[u].kind = "approve" /\ Past(u)
    BY <1>0, <1>3 DEF ComputeScope, Op, Past
  <2> QED BY <2>1 DEF GrantHolds, ResultingScope
<1>4. CASE (Approve(u) \/ CheckRole(u)) /\ op[u].kind = "approve" /\ ~Finish(u)
  <2>1. op'[u].scope = op[u].scope /\ op'[u].target = op[u].target
        /\ op'[u].role = op[u].role /\ op'[u].groups = op[u].groups
        /\ UNCHANGED account /\ op[u].phase \in {"scoped", "setting"}
    BY <1>0, <1>4 DEF Approve, CheckRole, ReadyToSet, Op
  <2> QED BY <1>4, <2>1 DEF GrantHolds, Past
<1>5. CASE (CheckRole(u) \/ CheckActive(u)) /\ op[u].kind # "approve" /\ ~Finish(u)
  <2>1. op'[u].kind = op[u].kind
    BY <1>0, <1>5 DEF CheckRole, CheckActive, Op
  <2> QED BY <1>5, <2>1 DEF GrantHolds
<1> QED
  BY <1>1, <1>2, <1>3, <1>4, <1>5
  DEF Body, SetRole, OpenRequest, CheckDecision, Approve, Reject, CheckRole, CheckActive,
      WriteRole, WriteActive, IInv, HandlersWellFormed, Actor

LEMMA OthersStep ==
  ASSUME IInv, PagesInv, [Next]_vars, CliOn = FALSE, RefreshOnLogin = FALSE,
         NEW u \in User, Past(u)',
         ~Body(u), ~SetRole(u)
  PROVE  op'[u] = op[u] /\ UNCHANGED account
<1>0. /\ op \in [Actor -> Op] /\ u \in Actor /\ Cli \in Actor /\ u # Cli
      /\ \A w \in User : w \in Actor
      /\ account \in [User -> Account]
  BY CliAssumption DEF IInv, TypeOK, Actor
<1>1. ASSUME Post PROVE op'[u] = op[u] /\ UNCHANGED account
  <2>1. PICK a \in Actor, new \in Op : Posted(a, new)
    BY <1>1, PostHandler DEF IInv
  <2>2. UNCHANGED account
    BY <1>1, PostHandler DEF IInv
  <2> QED BY <1>0, <2>1, <2>2 DEF Posted, Past
<1>2. ASSUME NEW x \in User, Body(x) PROVE op'[u] = op[u] /\ UNCHANGED account
  <2>1. x # u
    BY <1>2
  <2>2. op'[u] = op[u]
    BY <1>0, <1>2, <2>1
    DEF Body, OpenRequest, CheckDecision, ComputeScope, Approve, Reject, CheckActive,
        WriteActive, Finish
  <2>3. ~WriteActive(x)
    BY <2>1, <2>2, AccountsRest DEF Past
  <2> QED BY <1>2, <2>2, <2>3
          DEF Body, OpenRequest, CheckDecision, ComputeScope, Approve, Reject, CheckActive
<1>3. ASSUME NEW a \in Actor, SetRole(a) PROVE op'[u] = op[u] /\ UNCHANGED account
  <2>1. a # u /\ a \in User
    BY <1>3 DEF SetRole, CheckRole, WriteRole, ReadyToSet, PagesInv, ChecksStillHold, Actor
  <2>2. op'[u] = op[u]
    BY <1>0, <1>3, <2>1 DEF SetRole, CheckRole, WriteRole, Finish
  <2>3. ~WriteRole(a)
    BY <2>1, <2>2, AccountsRest DEF Past
  <2> QED BY <1>3, <2>2, <2>3 DEF SetRole, CheckRole
<1>4. ASSUME NEW w \in User, NEW derived \in SUBSET Group, SignIn(w, derived)
      PROVE op'[u] = op[u] /\ UNCHANGED account
  BY <1>4 DEF SignIn, SignedIn
<1>5. ASSUME Restart PROVE FALSE
  BY <1>0, <1>5 DEF Restart, Idle, Past
<1>6. \/ Post \/ Restart \/ UNCHANGED <<account, op>>
      \/ \E x \in User : Body(x)
      \/ \E a \in Actor : SetRole(a)
      \/ \E w \in User, derived \in SUBSET Group : SignIn(w, derived)
  BY DEF Next, Cancel, ExpireStale, TimePasses, vars
<1> QED BY <1>1, <1>2, <1>3, <1>4, <1>5, <1>6

LEMMA GrantsStayHeld ==
  ASSUME IInv, PagesInv, [Next]_vars, CliOn = FALSE, RefreshOnLogin = FALSE,
         NEW u \in User, GrantHolds(u)
  PROVE  GrantHolds(u)'
<1>1. CASE Body(u) \/ SetRole(u)
  BY <1>1, OwnStep
<1>2. CASE ~Body(u) /\ ~SetRole(u) /\ Past(u)'
  BY <1>2, OthersStep DEF GrantHolds, Past
<1>3. CASE ~Past(u)'
  BY <1>3 DEF GrantHolds
<1> QED BY <1>1, <1>2, <1>3

\* The step of a grant is its own set_role, with what the handler knew.
LEMMA GrantIsSound ==
  ASSUME IInv, PagesInv, [Next]_vars, CliOn = FALSE, NEW u \in User, GrantHolds(u), GrantStep(u)
  PROVE  LET t == op[u].target IN
           /\ account[t].active
           /\ account[t].role = op[u].role
                => account[t].scope \cup op[u].groups \subseteq account'[t].scope
<1>0. /\ op[Cli].phase = "idle" /\ account \in [User -> Account]
  BY DEF PagesInv, ChecksStillHold, IInv, TypeOK
<1>1. PICK a \in Actor : WriteRole(a) /\ op[a].kind = "approve"
  <2>1. ~UNCHANGED applied
    BY DEF GrantStep
  <2> QED
    BY <2>1, PostHandler
    DEF IInv, Next, Body, SetRole, OpenRequest, CheckDecision, ComputeScope, Approve, Reject,
        CheckActive, WriteActive, CheckRole, WriteRole, Cancel, ExpireStale, TimePasses,
        SignIn, Restart, vars
<1>2. a = u
  BY <1>0, <1>1 DEF WriteRole, GrantStep, PagesInv, OneBody, Actor
<1>3. /\ op[u].target \in User /\ account[op[u].target] \in Account
      /\ op[u].phase = "writing" /\ op[u].kind = "approve"
  <2>1. op[u].req \in ReqId /\ request[op[u].req].status # "NONE" /\ Deciding(u)
    BY <1>1, <1>2 DEF WriteRole, IInv, HandlersWellFormed, Deciding
  <2>2. op[u].target \in User
    BY <2>1 DEF IInv, DecisionsMatchRows, RowsWellFormed
  <2> QED BY <1>0, <1>1, <1>2, <2>2 DEF WriteRole
<1>4. account'[op[u].target].scope = op[u].scope
  BY <1>0, <1>1, <1>2, <1>3 DEF WriteRole, RoleSet, Account
<1> QED BY <1>3, <1>4 DEF GrantHolds, Past

\* Whoever decides, withdraws or signs in meanwhile, an approval that is written reaches an
\* active account and narrows no scope of the role it grants - as long as nobody uses the
\* command line and sign-ins do not derive scopes anew (access.py approve, _resulting_scope).
THEOREM GrantsStaySound ==
  ASSUME CliOn = FALSE, RefreshOnLogin = FALSE
  PROVE  Spec => GrantsAreSound
<1>1. Init => GrantsHold
  BY DEF Init, GrantsHold, GrantHolds, Past, Idle, Actor
<1>2. IInv /\ PagesInv /\ GrantsHold /\ [Next]_vars => GrantsHold'
  BY GrantsStayHeld DEF GrantsHold
<1>3. IInv /\ PagesInv /\ GrantsHold /\ [Next]_vars
        => [\A u \in User : GrantStep(u) => account[op[u].target].active]_vars
  BY GrantIsSound DEF GrantsHold
<1>4. IInv /\ PagesInv /\ GrantsHold /\ [Next]_vars
        => [\A u \in User :
              LET t == op[u].target IN
              GrantStep(u) /\ account[t].role = op[u].role
                 => account[t].scope \cup op[u].groups \subseteq account'[t].scope]_vars
  BY GrantIsSound DEF GrantsHold
<1>5. Spec => []GrantsHold
  BY <1>1, <1>2, PagesInvariant, Strengthening, PTL DEF Spec
<1>6. Spec => GrantsReachActiveAccounts
  BY <1>3, <1>5, PagesInvariant, Strengthening, PTL DEF Spec, GrantsReachActiveAccounts
<1>7. Spec => ApprovalWidens
  BY <1>4, <1>5, PagesInvariant, Strengthening, PTL DEF Spec, ApprovalWidens
<1> QED BY <1>6, <1>7 DEF GrantsAreSound
=============================================================================
