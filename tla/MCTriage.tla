------------------------------ MODULE MCTriage ------------------------------
EXTENDS Triage, TLC

CONSTANTS caller, alex, monitor

\* A chase, a note, the caller's reply, an integration that reads like a chase, and a field
\* that is only worth reading.
MCLines == {<<"comments", alex, TRUE>>, <<"work_notes", alex, FALSE>>,
            <<"comments", caller, FALSE>>, <<"comments", monitor, TRUE>>,
            <<"contact_type", alex, FALSE>>}

MCThresholds == [prolonged |-> 3, inactivity |-> 2, aged |-> 2, expected |-> 1,
                 slaRisk |-> 75, followups |-> 1, silence |-> 2]

MCTargets == (1 :> 2) @@ (3 :> 4)

\* More on the SLA, less on inactivity: saved one after the other, the rest as it was.
MCForms == {[sla_risk |-> [enabled |-> TRUE, weight |-> 40],
             inactivity_duration |-> [enabled |-> TRUE, weight |-> 10]]}

MCLinks == {<<"none", "none">>, <<"none", "closed">>}

MCDefinitions == {<<"RESOLUTION", 3>>}
=============================================================================
