------------------------------ MODULE MCAlerts ------------------------------
EXTENDS Alerts, TLC

CONSTANTS ann, bob, desk, network, late, t1, t2

\* An administrator of everything, a lead of one queue, a lead without a queue.
MCProfiles == {[role |-> "ADMIN", scope |-> {}, active |-> TRUE, mail |-> "ann@"],
               [role |-> "LEAD", scope |-> {desk}, active |-> TRUE, mail |-> "bob@"],
               [role |-> "LEAD", scope |-> {}, active |-> TRUE, mail |-> "cem@"]}

MCStart == (t1 :> [queue |-> desk, flags |-> {late}, shown |-> TRUE, agent |-> bob])
        @@ (t2 :> [queue |-> network, flags |-> {}, shown |-> TRUE, agent |-> ann])

MCNames == [u \in User |-> {u}]
=============================================================================
