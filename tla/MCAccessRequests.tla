------------------------- MODULE MCAccessRequests -------------------------
EXTENDS AccessRequests, TLC

CONSTANTS a1, a2, v, g1, g2, r1, r2

Person(role, scope, groupsSource) ==
    [role |-> role, scope |-> scope, active |-> TRUE,
     roleSource |-> "MANUAL", groupsSource |-> groupsSource]

\* Two administrators and a viewer whose scope came from ServiceNow.
TwoAdmins == (a1 :> Person("ADMIN", {}, "MANUAL")) @@ (a2 :> Person("ADMIN", {}, "MANUAL"))
             @@ (v :> Person("VIEWER", {g1}, "SERVICENOW"))

\* Requests are interchangeable, and so are the two administrators.
AdminSymmetry == Permutations({a1, a2})
Symmetry == Permutations({r1, r2}) \cup AdminSymmetry

\* What the forms select.  The empty selection grants the request's own queues.
OneSelection == {{g2}}
EitherQueue  == {{}, {g1}, {g2}}

MCInit == account = [u \in User |-> TwoAdmins[u]] /\ Init
MCSpec == MCInit /\ [][Next]_vars
MCFairSpec == MCSpec /\ Fairness
=============================================================================
