----------------------------- MODULE MCServices -----------------------------
EXTENDS Services, TLC

CONSTANTS mode, k1, s1, s2, t1, t2, desk, net, alex, groupList, minutes, shadow, p1, p2, n1, n2

MCFile == [k \in Key |-> "a"]

\* A list and a number that are read at the start, and a switch that is not.
MCSpecs ==
    groupList :> [kind |-> "list", section |-> "queues", applies |-> "restart"]
    @@ minutes :> [kind |-> "number", section |-> "queues", applies |-> "restart",
                   least |-> 1, most |-> 2]
    @@ shadow :> [kind |-> "bool", section |-> "queues", applies |-> "live"]
MCOrder == <<groupList, minutes, shadow>>
MCInput ==
    groupList :> {<<>>, <<<<"desk">>>>, <<<<"desk", "net">>>>}
    @@ minutes :> {1, 2, 3, Missing}
    @@ shadow :> BOOLEAN
MCWritten ==
    groupList :> {Missing, <<<<"desk", "net">>>>, <<<<"desk">>>>}
    @@ minutes :> {1, Missing}
    @@ shadow :> {Missing, TRUE}

\* Two tickets of one queue; one on the board, one to come.
Ours == [team |-> TRUE, breached |-> FALSE, over30 |-> FALSE, stale |-> FALSE, due |-> 2,
         used |-> "over75", score |-> 30]
Late == [team |-> FALSE, breached |-> TRUE, over30 |-> TRUE, stale |-> TRUE, due |-> 0,
         used |-> "over100", score |-> 60]
MCProfile == {Ours, Late}
MCHolder == t1 :> alex @@ t2 :> Nobody
MCOpening ==
    t1 :> [queue |-> desk, shown |-> TRUE, snoozed |-> FALSE, profile |-> Ours]
    @@ t2 :> [queue |-> desk, shown |-> FALSE, snoozed |-> FALSE, profile |-> Ours]
MCPreset == "3d" :> 3 @@ "2d" :> 2

\* With and without queues; and the filters that go together on the board.
MCCaller == {[role |-> r, groups |-> {}] : r \in {"ADMIN", "LEAD", "VIEWER"}}
            \cup {[role |-> "ADMIN", groups |-> {net}], [role |-> "LEAD", groups |-> {desk}]}
MCFilter == {[group |-> AnyOf, agent |-> AnyOf, ball |-> AnyOf, minScore |-> 0, showSnoozed |-> TRUE],
             [group |-> AnyOf, agent |-> Nobody, ball |-> AnyOf, minScore |-> 50, showSnoozed |-> FALSE],
             [group |-> AnyOf, agent |-> AnyOf, ball |-> "team", minScore |-> 0, showSnoozed |-> FALSE]}

\* Two browsers of one person; another has an account since before.
MCFirstName == p1 :> n1 @@ p2 :> n2
MCUsedBy == s1 :> p1 @@ s2 :> p1
MCMemberships == {{desk, "closed"}, {desk, net, "closed"}}
=============================================================================
