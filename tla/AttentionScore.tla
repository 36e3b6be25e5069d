--------------------------- MODULE AttentionScore ---------------------------
(***************************************************************************)
(* The attention score of an incident (pipeline/scoring.py): seven          *)
(* components, each 0 to 100, weighted.                                     *)
(*                                                                          *)
(* Days are whole.  A component is an exact fraction of the denominator     *)
(* Den(th), which the thresholds divide, where the code computes in floats. *)
(***************************************************************************)
EXTENDS Integers, SlaSummary

Component == {"sla_risk", "inactivity_duration", "ticket_age", "business_priority",
              "reassignment_activity", "unactioned_delay", "duration_overrun"}

DefaultWeights ==
    [sla_risk |-> 25, inactivity_duration |-> 25, ticket_age |-> 10,
     business_priority |-> 10, reassignment_activity |-> 5, unactioned_delay |-> 15,
     duration_overrun |-> 10]

Total(f) ==
    f.sla_risk + f.inactivity_duration + f.ticket_age + f.business_priority
    + f.reassignment_activity + f.unactioned_delay + f.duration_overrun

\* Mutant: the sum is not looked at.
LoadAnyWeights(rows) ==
    [c \in Component |-> IF rows[c].enabled THEN rows[c].weight ELSE DefaultWeights[c]]

\* load_weights: the enabled rows of attention_weightage over the defaults, or the
\* defaults alone when nothing usable is configured or the sum is not 100.
LoadWeights(rows) ==
    LET enabled == {c \in Component : rows[c].enabled}
        merged  == [c \in Component |-> IF c \in enabled THEN rows[c].weight
                                                        ELSE DefaultWeights[c]]
    IN  IF enabled = {} \/ Total(merged) # 100 THEN DefaultWeights ELSE merged

-----------------------------------------------------------------------------
(* The components, in parts of Den: 100 * Den(th) is the most there is.      *)

Den(th) == th.prolonged * th.aged * th.expected

\* Mutants: nothing is out of range, or what is counts for nothing.
Unlimited(x, top) == x
Discard(x, top) == IF x < 0 \/ x > top THEN 0 ELSE x

Clamp(x, top) == IF x < 0 THEN 0 ELSE IF x > top THEN top ELSE x

Percent(x, th) == Clamp(x, 100) * Den(th)

SlaRisk(s, th) ==
    Percent(IF s.sla.breached THEN 100
            ELSE IF s.sla.pct # NoReading THEN s.sla.pct
            ELSE IF s.sla.left = NoReading THEN 0
            ELSE IF s.sla.left <= 0 THEN 100
            ELSE IF s.sla.left <= 60 THEN 90
            ELSE IF s.sla.left <= 240 THEN 70
            ELSE IF s.sla.left <= 1440 THEN 40
            ELSE 10, th)

InactivityDuration(s, th) ==
    Clamp(s.idle * 100 * (Den(th) \div th.prolonged), 100 * Den(th))

\* Nothing up to the threshold, everything another threshold later.
TicketAge(s, th) ==
    Clamp((s.age - th.aged) * 100 * (Den(th) \div th.aged), 100 * Den(th))

PriorityWeight(p) ==
    CASE p = 1 -> 100 [] p = 2 -> 80 [] p = 3 -> 50 [] p = 5 -> 10 [] OTHER -> 25

BusinessPriority(t, th) == Percent(PriorityWeight(t.priority), th)

ReassignmentActivity(t, th) == Percent(t.moves * 20 + t.reopens * 30, th)

If(b, n) == IF b THEN n ELSE 0

UnactionedDelay(s, th) ==
    Percent(If(s.unanswered, 60) + If(s.cleared, 60) + If(s.closable, 30)
            + If(s.untouched, 40) + If(s.sla.vendor, 40), th)

\* Half at what is expected of such a ticket, everything at twice that.
DurationOverrun(s, th) ==
    IF s.overrun THEN Clamp(50 * s.age * (Den(th) \div th.expected), 100 * Den(th)) ELSE 0

Raw(t, s, th) ==
    [sla_risk |-> SlaRisk(s, th), inactivity_duration |-> InactivityDuration(s, th),
     ticket_age |-> TicketAge(s, th), business_priority |-> BusinessPriority(t, th),
     reassignment_activity |-> ReassignmentActivity(t, th),
     unactioned_delay |-> UnactionedDelay(s, th),
     duration_overrun |-> DurationOverrun(s, th)]

\* Python's round(): to the nearest, and a tie to the even one.
Round(n, d) ==
    LET q == n \div d
        r == n % d
    IN  IF 2 * r > d \/ (2 * r = d /\ q % 2 = 1) THEN q + 1 ELSE q

\* compute_attention_score: the score, and the points of each component in tenths.
Score(t, s, w, th) ==
    LET raw  == Raw(t, s, th)
        part == [c \in Component |-> raw[c] * w[c]]
    IN  [score  |-> Round(Clamp(Total(part), 10000 * Den(th)), 100 * Den(th)),
         points |-> [c \in Component |-> Round(10 * part[c], 100 * Den(th))]]

=============================================================================
