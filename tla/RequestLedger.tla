---------------------------- MODULE RequestLedger ----------------------------
(***************************************************************************)
(* What the access-request table promises an auditor, with no word of how   *)
(* the handlers, the nightly sweep and the schema keep it: a request is     *)
(* opened once, nobody has two open requests for one role, it is closed     *)
(* once and for good, and a request that was decided names a decider who is *)
(* not the person who asked.                                                *)
(***************************************************************************)
CONSTANTS User, Role, ReqId, NoUser

VARIABLE ledger   \* ledger[r] : [user, to, status, by]

Blank == [user |-> NoUser, to |-> "VIEWER", status |-> "NONE", by |-> NoUser]

Init == ledger = [r \in ReqId |-> Blank]

HasOpen(u, t) ==
    \E r \in ReqId : /\ ledger[r].status = "PENDING"
                     /\ ledger[r].user = u
                     /\ ledger[r].to = t

Open(r, u, t) ==
    /\ ledger[r].status = "NONE"
    /\ ~HasOpen(u, t)
    /\ ledger' = [ledger EXCEPT ![r] = [user |-> u, to |-> t,
                                        status |-> "PENDING", by |-> NoUser]]

Decide(r, a, s) ==
    /\ ledger[r].status = "PENDING"
    /\ ledger[r].user # a
    /\ s \in {"APPROVED", "REJECTED"}
    /\ ledger' = [ledger EXCEPT ![r] = [@ EXCEPT !.status = s, !.by = a]]

Withdraw(r) ==
    /\ ledger[r].status = "PENDING"
    /\ ledger' = [ledger EXCEPT ![r].status = "CANCELLED"]

\* One sweep closes every request it finds overdue.
Expire(R) ==
    /\ \A r \in R : ledger[r].status = "PENDING"
    /\ ledger' = [r \in ReqId |->
                    IF r \in R THEN [ledger[r] EXCEPT !.status = "EXPIRED"]
                               ELSE ledger[r]]

Next ==
    \/ \E r \in ReqId, u \in User, t \in Role : Open(r, u, t)
    \/ \E r \in ReqId, a \in User, s \in {"APPROVED", "REJECTED"} : Decide(r, a, s)
    \/ \E r \in ReqId : Withdraw(r)
    \/ \E R \in SUBSET ReqId : Expire(R)

Spec == Init /\ [][Next]_ledger
=============================================================================
