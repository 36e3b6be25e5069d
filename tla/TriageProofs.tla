----------------------------- MODULE TriageProofs -----------------------------
(***************************************************************************)
(* What holds of every pass over an incident, for any thresholds, weights,  *)
(* SLAs, people and lengths of the story.                                   *)
(*                                                                          *)
(* TriageInv says that what was stored is what the definitions make of an   *)
(* earlier state of the incident (Kept), that the weights in the table are  *)
(* each the default or somebody's (Saved), and that all records that run    *)
(* are at one stage (InStep): their clocks go alike, which is why of two    *)
(* records of one SLA the one to watch does not change for the better while *)
(* nothing happens (WatchedReadsWorse).                                     *)
(*                                                                          *)
(* The rest are monotonicity arguments: the summary of records that have    *)
(* grown is no better, signals that are no better make no lower a score,    *)
(* and work makes signals that are no worse.                                *)
(***************************************************************************)
EXTENDS Triage, SetInduction

-----------------------------------------------------------------------------
(* Rounding, and the total of the seven components.                         *)

\* A quotient and a remainder are what they should be.
LEMMA DivMod ==
  ASSUME NEW n \in Nat, NEW d \in Nat \ {0}
  PROVE  n \div d \in Nat /\ n % d \in 0..(d - 1) /\ n = d * (n \div d) + (n % d)
OBVIOUS

\* What is rounded is half a unit away at most.
LEMMA RoundNear ==
  ASSUME NEW n \in Nat, NEW d \in Nat \ {0}
  PROVE  /\ Round(n, d) \in Nat
         /\ 2 * n - d <= 2 * (d * Round(n, d)) /\ 2 * (d * Round(n, d)) <= 2 * n + d
<1> DEFINE q == n \div d
           r == n % d
<1>1. q \in Nat /\ r \in 0..(d - 1) /\ n = d * q + r
  BY DivMod
<1>2. Round(n, d) = IF 2 * r > d \/ (2 * r = d /\ q % 2 = 1) THEN q + 1 ELSE q
  BY DEF Round
<1> HIDE DEF q, r
<1>3. d * q \in Nat /\ d * (q + 1) = d * q + d
  BY <1>1
<1> QED BY <1>1, <1>2, <1>3

\* More is divided into more.
LEMMA Quotients ==
  ASSUME NEW n \in Nat, NEW m \in Nat, n <= m, NEW d \in Nat \ {0}
  PROVE  n \div d < m \div d \/ (n \div d = m \div d /\ n % d <= m % d)
<1> DEFINE q == n \div d
           r == n % d
           u == m \div d
           v == m % d
<1>1. q \in Nat /\ r \in 0..(d - 1) /\ n = d * q + r
  BY DivMod
<1>2. u \in Nat /\ v \in 0..(d - 1) /\ m = d * u + v
  BY DivMod
<1> HIDE DEF q, r, u, v
<1>3. q = u => r <= v
  BY <1>1, <1>2
<1>4. ASSUME q > u PROVE FALSE
  <2>1. d * q >= d * (u + 1)
    BY <1>1, <1>2, <1>4
  <2>2. d * (u + 1) = d * u + d /\ d * u \in Nat /\ d * q \in Nat
    BY <1>1, <1>2
  <2> QED BY <1>1, <1>2, <2>1, <2>2
<1>5. q < u \/ (q = u /\ r <= v)
  BY <1>1, <1>2, <1>3, <1>4
<1> QED BY <1>5 DEF q, r, u, v

\* Half to even is monotonic.
LEMMA RoundGrows ==
  ASSUME NEW n \in Nat, NEW m \in Nat, n <= m, NEW d \in Nat \ {0}
  PROVE  Round(n, d) <= Round(m, d)
<1> DEFINE q == n \div d
           r == n % d
           u == m \div d
           v == m % d
<1>1. q \in Nat /\ r \in 0..(d - 1) /\ u \in Nat /\ v \in 0..(d - 1)
  BY DivMod
<1>2. q < u \/ (q = u /\ r <= v)
  BY Quotients
<1>3. Round(n, d) = IF 2 * r > d \/ (2 * r = d /\ q % 2 = 1) THEN q + 1 ELSE q
  BY DEF Round
<1>4. Round(m, d) = IF 2 * v > d \/ (2 * v = d /\ u % 2 = 1) THEN u + 1 ELSE u
  BY DEF Round
<1> HIDE DEF q, r, u, v
<1>5. CASE q < u
  BY <1>1, <1>3, <1>4, <1>5
<1>6. CASE q = u /\ r <= v
  BY <1>1, <1>3, <1>4, <1>6
<1> QED BY <1>2, <1>5, <1>6

\* What is at most k times the divisor rounds to k at most.
LEMMA RoundAtMost ==
  ASSUME NEW n \in Nat, NEW d \in Nat \ {0}, NEW k \in Nat, n <= d * k
  PROVE  Round(n, d) <= k
<1>1. d * k \in Nat
  OBVIOUS
<1>2. Round(n, d) <= Round(d * k, d)
  BY <1>1, RoundGrows
<1> DEFINE u == (d * k) \div d
           v == (d * k) % d
<1>3. u \in Nat /\ v \in 0..(d - 1) /\ d * k = d * u + v
  BY <1>1, DivMod
<1>4. Round(d * k, d) = IF 2 * v > d \/ (2 * v = d /\ u % 2 = 1) THEN u + 1 ELSE u
  BY DEF Round
<1> HIDE DEF u, v
<1>5. u = k /\ v = 0
  <2>1. CASE u < k
    <3>1. d * k >= d * (u + 1) /\ d * (u + 1) = d * u + d
      BY <1>3, <2>1
    <3> QED BY <1>3, <3>1
  <2>2. CASE u > k
    <3>1. d * u >= d * (k + 1) /\ d * (k + 1) = d * k + d
      BY <1>3, <2>2
    <3> QED BY <1>3, <3>1
  <2>3. CASE u = k
    BY <1>3, <2>3
  <2> QED BY <1>3, <2>1, <2>2, <2>3
<1>6. Round(d * k, d) = k
  BY <1>4, <1>5
<1>7. Round(n, d) \in Nat
  BY RoundNear
<1> QED BY <1>2, <1>6, <1>7

\* The total of the seven, compared componentwise.
LEMMA TotalIsNat ==
  ASSUME NEW p \in [Component -> Nat]
  PROVE  Total(p) \in Nat
BY DEF Total, Component

LEMMA TotalGrows ==
  ASSUME NEW p \in [Component -> Nat], NEW q \in [Component -> Nat],
         \A c \in Component : p[c] <= q[c]
  PROVE  Total(p) <= Total(q)
BY DEF Total, Component

LEMMA TotalScaled ==
  ASSUME NEW b \in Nat, NEW w \in [Component -> Nat], NEW p \in [Component -> Nat],
         \A c \in Component : p[c] <= b * w[c]
  PROVE  Total(p) <= b * Total(w)
<1> DEFINE q == [c \in Component |-> b * w[c]]
<1>1. q \in [Component -> Nat] /\ \A c \in Component : p[c] <= q[c]
  OBVIOUS
<1>2. Total(p) <= Total(q)
  BY <1>1, TotalGrows
<1>3. Total(q) = b * Total(w)
  BY DEF Total, Component
<1> QED BY <1>2, <1>3

LEMMA TotalNear ==
  ASSUME NEW b \in Nat, NEW p \in [Component -> Nat], NEW q \in [Component -> Nat],
         \A c \in Component : q[c] - b <= p[c] /\ p[c] <= q[c] + b
  PROVE  Total(q) - 7 * b <= Total(p) /\ Total(p) <= Total(q) + 7 * b
BY DEF Total, Component

LEMMA TotalWith ==
  ASSUME NEW h \in [Component -> Nat], NEW b \in Component, NEW x \in Nat
  PROVE  Total([h EXCEPT ![b] = x]) = Total(h) - h[b] + x
<1> \A c \in Component : h[c] \in Nat
  OBVIOUS
<1>1. Total([h EXCEPT !["sla_risk"] = x]) = Total(h) - h["sla_risk"] + x
  BY DEF Total, Component
<1>2. Total([h EXCEPT !["inactivity_duration"] = x]) = Total(h) - h["inactivity_duration"] + x
  BY DEF Total, Component
<1>3. Total([h EXCEPT !["ticket_age"] = x]) = Total(h) - h["ticket_age"] + x
  BY DEF Total, Component
<1>4. Total([h EXCEPT !["business_priority"] = x]) = Total(h) - h["business_priority"] + x
  BY DEF Total, Component
<1>5. Total([h EXCEPT !["reassignment_activity"] = x]) = Total(h) - h["reassignment_activity"] + x
  BY DEF Total, Component
<1>6. Total([h EXCEPT !["unactioned_delay"] = x]) = Total(h) - h["unactioned_delay"] + x
  BY DEF Total, Component
<1>7. Total([h EXCEPT !["duration_overrun"] = x]) = Total(h) - h["duration_overrun"] + x
  BY DEF Total, Component
<1> QED BY <1>1, <1>2, <1>3, <1>4, <1>5, <1>6, <1>7 DEF Component

\* Two that differ in one component at most have one total only if they are one.
LEMMA OneDiffers ==
  ASSUME NEW g \in [Component -> Nat], NEW h \in [Component -> Nat], NEW b \in Component,
         \A c \in Component \ {b} : g[c] = h[c], Total(g) = Total(h)
  PROVE  g = h
<1>1. g = [h EXCEPT ![b] = g[b]]
  OBVIOUS
<1>2. Total(g) = Total(h) - h[b] + g[b]
  BY <1>1, TotalWith
<1>3. Total(h) \in Nat /\ h[b] \in Nat /\ g[b] \in Nat
  BY TotalIsNat
<1>4. g[b] = h[b]
  BY <1>2, <1>3
<1> QED BY <1>4

-----------------------------------------------------------------------------

(* The score.                                                               *)

Whole == 100 * Den(Thresholds)

SlaReading == [breached : BOOLEAN, pct : Int, left : Int, ends : Int, vendor : BOOLEAN]

Owners == {"SERVICE_DESK"} \cup {Blocker[h] : h \in HoldReason \ {""}}

SignalSet == [age : Nat, idle : Nat, owner : Owners,
              unanswered : BOOLEAN, cleared : BOOLEAN, closable : BOOLEAN, overrun : BOOLEAN,
              untouched : BOOLEAN, sla : SlaReading, kb : KbStates]

Weights == {w \in [Component -> 0..100] : Total(w) = 100}

LEMMA ThresholdTypes ==
  /\ Thresholds.prolonged \in Nat \ {0} /\ Thresholds.inactivity \in Nat \ {0}
  /\ Thresholds.aged \in Nat \ {0} /\ Thresholds.expected \in Nat \ {0}
  /\ Thresholds.slaRisk \in Nat \ {0} /\ Thresholds.followups \in Nat \ {0}
  /\ Thresholds.silence \in Nat \ {0}
BY ThresholdAssumption

LEMMA WholeType == Den(Thresholds) \in Nat \ {0} /\ Whole \in Nat \ {0}
<1> DEFINE a == Thresholds.prolonged * Thresholds.aged
<1>1. a \in Nat \ {0}
  BY ThresholdTypes
<1>2. Den(Thresholds) = a * Thresholds.expected
  BY DEF Den
<1> HIDE DEF a
<1>3. Den(Thresholds) \in Nat \ {0}
  BY <1>1, <1>2, ThresholdTypes
<1> QED BY <1>3 DEF Whole

LEMMA ClampRange ==
  ASSUME NEW x \in Int, NEW top \in Nat
  PROVE  Clamp(x, top) \in 0..top
BY DEF Clamp

LEMMA ClampGrows ==
  ASSUME NEW x \in Int, NEW y \in Int, x <= y, NEW top \in Nat
  PROVE  Clamp(x, top) <= Clamp(y, top)
BY DEF Clamp

LEMMA PercentRange ==
  ASSUME NEW x \in Int
  PROVE  Percent(x, Thresholds) \in 0..Whole
<1> DEFINE k == Clamp(x, 100)
           d == Den(Thresholds)
<1>1. k \in 0..100 /\ d \in Nat
  BY ClampRange, WholeType
<1>2. Percent(x, Thresholds) = k * d /\ Whole = 100 * d
  BY DEF Percent, Whole
<1> HIDE DEF k, d
<1>3. k * d \in 0..(100 * d)
  BY <1>1
<1> QED BY <1>2, <1>3

LEMMA PercentGrows ==
  ASSUME NEW x \in Int, NEW y \in Int, x <= y
  PROVE  Percent(x, Thresholds) <= Percent(y, Thresholds)
<1> DEFINE k == Clamp(x, 100)
           l == Clamp(y, 100)
           d == Den(Thresholds)
<1>1. k \in 0..100 /\ l \in 0..100 /\ k <= l /\ d \in Nat
  BY ClampRange, ClampGrows, WholeType
<1>2. Percent(x, Thresholds) = k * d /\ Percent(y, Thresholds) = l * d
  BY DEF Percent
<1> HIDE DEF k, l, d
<1>3. k * d <= l * d
  BY <1>1
<1> QED BY <1>2, <1>3

\* A slope of so many parts a day, or none for what does not divide.
LEMMA SlopeType ==
  ASSUME NEW n \in Nat \ {0}
  PROVE  Den(Thresholds) \div n \in Nat
BY WholeType, DivMod

SlaPercent(r) ==
  IF r.breached THEN 100
  ELSE IF r.pct # NoReading THEN r.pct
  ELSE IF r.left = NoReading THEN 0
  ELSE IF r.left <= 0 THEN 100
  ELSE IF r.left <= 60 THEN 90
  ELSE IF r.left <= 240 THEN 70
  ELSE IF r.left <= 1440 THEN 40
  ELSE 10

Delay(s) ==
  If(s.unanswered, 60) + If(s.cleared, 60) + If(s.closable, 30)
  + If(s.untouched, 40) + If(s.sla.vendor, 40)

\* Every component is a part of the whole.
LEMMA RawInRange ==
  ASSUME NEW t \in Ticket, NEW s \in SignalSet
  PROVE  \A c \in Component : Raw(t, s, Thresholds)[c] \in 0..Whole
<1>0. /\ s.sla \in SlaReading /\ s.age \in Nat /\ s.idle \in Nat
      /\ t.moves \in Nat /\ t.reopens \in Nat
  BY DEF SignalSet, Ticket
<1>1. SlaRisk(s, Thresholds) \in 0..Whole
  <2>1. SlaPercent(s.sla) \in Int
    BY <1>0 DEF SlaPercent, SlaReading
  <2>2. SlaRisk(s, Thresholds) = Percent(SlaPercent(s.sla), Thresholds)
    BY DEF SlaRisk, SlaPercent
  <2> QED BY <2>1, <2>2, PercentRange
<1>2. InactivityDuration(s, Thresholds) \in 0..Whole
  <2> DEFINE k == Den(Thresholds) \div Thresholds.prolonged
  <2>1. k \in Nat
    BY SlopeType, ThresholdTypes
  <2>2. InactivityDuration(s, Thresholds) = Clamp(s.idle * 100 * k, Whole)
    BY DEF InactivityDuration, Whole
  <2> HIDE DEF k
  <2>3. s.idle * 100 * k \in Int
    BY <1>0, <2>1
  <2> QED BY <2>2, <2>3, ClampRange, WholeType
<1>3. TicketAge(s, Thresholds) \in 0..Whole
  <2> DEFINE k == Den(Thresholds) \div Thresholds.aged
  <2>1. k \in Nat
    BY SlopeType, ThresholdTypes
  <2>2. TicketAge(s, Thresholds) = Clamp((s.age - Thresholds.aged) * 100 * k, Whole)
    BY DEF TicketAge, Whole
  <2> HIDE DEF k
  <2>3. (s.age - Thresholds.aged) * 100 * k \in Int
    BY <1>0, <2>1, ThresholdTypes
  <2> QED BY <2>2, <2>3, ClampRange, WholeType
<1>4. BusinessPriority(t, Thresholds) \in 0..Whole
  <2>1. PriorityWeight(t.priority) \in Int
    BY DEF PriorityWeight
  <2> QED BY <2>1, PercentRange DEF BusinessPriority
<1>5. ReassignmentActivity(t, Thresholds) \in 0..Whole
  <2>1. t.moves * 20 + t.reopens * 30 \in Int
    BY <1>0
  <2> QED BY <2>1, PercentRange DEF ReassignmentActivity
<1>6. UnactionedDelay(s, Thresholds) \in 0..Whole
  <2>1. Delay(s) \in Int
    BY DEF Delay, If
  <2> QED BY <2>1, PercentRange DEF UnactionedDelay, Delay
<1>7. DurationOverrun(s, Thresholds) \in 0..Whole
  <2> DEFINE k == Den(Thresholds) \div Thresholds.expected
  <2>1. k \in Nat
    BY SlopeType, ThresholdTypes
  <2>2. DurationOverrun(s, Thresholds) = IF s.overrun THEN Clamp(50 * s.age * k, Whole) ELSE 0
    BY DEF DurationOverrun, Whole
  <2> HIDE DEF k
  <2>3. 50 * s.age * k \in Int
    BY <1>0, <2>1
  <2>4. Clamp(50 * s.age * k, Whole) \in 0..Whole
    BY <2>3, ClampRange, WholeType
  <2> QED BY <2>2, <2>4, WholeType
<1> QED BY <1>1, <1>2, <1>3, <1>4, <1>5, <1>6, <1>7 DEF Raw, Component

-----------------------------------------------------------------------------

Parts(t, s, w) == [c \in Component |-> Raw(t, s, Thresholds)[c] * w[c]]

\* The weighted components, with weights that make a hundred.
LEMMA PartsType ==
  ASSUME NEW t \in Ticket, NEW s \in SignalSet, NEW w \in Weights
  PROVE  /\ Parts(t, s, w) \in [Component -> Nat]
         /\ \A c \in Component : Parts(t, s, w)[c] <= Whole * w[c]
         /\ Total(Parts(t, s, w)) \in 0..(100 * Whole)
<1>1. w \in [Component -> Nat] /\ Total(w) = 100
  BY DEF Weights
<1>2. ASSUME NEW c \in Component
      PROVE  Parts(t, s, w)[c] \in Nat /\ Parts(t, s, w)[c] <= Whole * w[c]
  <2> DEFINE a == Raw(t, s, Thresholds)[c]
             b == w[c]
  <2>1. a \in 0..Whole /\ b \in Nat /\ Whole \in Nat
    BY <1>1, RawInRange, WholeType
  <2>2. Parts(t, s, w)[c] = a * b
    BY DEF Parts
  <2> HIDE DEF a, b
  <2>3. a * b \in Nat /\ a * b <= Whole * b
    BY <2>1
  <2> QED BY <2>2, <2>3 DEF b
<1>3. Parts(t, s, w) \in [Component -> Nat]
  <2> DEFINE p(c) == Raw(t, s, Thresholds)[c] * w[c]
  <2>1. \A c \in Component : p(c) \in Nat
    BY <1>2 DEF Parts
  <2>2. Parts(t, s, w) = [c \in Component |-> p(c)]
    BY DEF Parts
  <2> HIDE DEF p
  <2> QED BY <2>1, <2>2
<1>4. Total(Parts(t, s, w)) <= Whole * Total(w)
  <2> DEFINE p == Parts(t, s, w)
  <2>1. p \in [Component -> Nat] /\ \A c \in Component : p[c] <= Whole * w[c]
    BY <1>2, <1>3
  <2>2. Whole \in Nat
    BY WholeType
  <2> HIDE DEF p
  <2>3. Total(p) <= Whole * Total(w)
    BY <1>1, <2>1, <2>2, TotalScaled
  <2> QED BY <2>3 DEF p
<1>5. Total(Parts(t, s, w)) \in Nat
  BY <1>3, TotalIsNat
<1> QED BY <1>1, <1>2, <1>3, <1>4, <1>5, WholeType

\* With such weights the clamp of the sum never acts.
LEMMA ScoreOfParts ==
  ASSUME NEW t \in Ticket, NEW s \in SignalSet, NEW w \in Weights
  PROVE  /\ Score(t, s, w, Thresholds).score = Round(Total(Parts(t, s, w)), Whole)
         /\ Score(t, s, w, Thresholds).points
              = [c \in Component |-> Round(10 * Parts(t, s, w)[c], Whole)]
<1> DEFINE p == Parts(t, s, w)
<1>1. Score(t, s, w, Thresholds) =
        [score  |-> Round(Clamp(Total(p), 10000 * Den(Thresholds)), Whole),
         points |-> [c \in Component |-> Round(10 * p[c], Whole)]]
  BY DEF Score, Parts, Whole
<1>2. Total(p) \in 0..(100 * Whole)
  BY PartsType
<1>3. 100 * Whole = 10000 * Den(Thresholds) /\ Whole \in Nat
  BY WholeType DEF Whole
<1> HIDE DEF p
<1>4. Clamp(Total(p), 10000 * Den(Thresholds)) = Total(p)
  BY <1>2, <1>3 DEF Clamp
<1>5. Score(t, s, w, Thresholds).score = Round(Total(p), Whole)
      /\ Score(t, s, w, Thresholds).points = [c \in Component |-> Round(10 * p[c], Whole)]
  BY <1>1, <1>4
<1> QED BY <1>5 DEF p

\* A score is a percentage, its points are of the weights, and they add up to it.
LEMMA ScoreIsSound ==
  ASSUME NEW t \in Ticket, NEW s \in SignalSet, NEW w \in Weights
  PROVE  /\ Score(t, s, w, Thresholds).score \in 0..100
         /\ \A c \in Component : Score(t, s, w, Thresholds).points[c] \in 0..(10 * w[c])
         /\ Total(Score(t, s, w, Thresholds).points)
              - 10 * Score(t, s, w, Thresholds).score \in -9..9
<1> DEFINE p == Parts(t, s, w)
           sum == Total(p)
           all == Round(sum, Whole)
           points == [c \in Component |-> Round(10 * p[c], Whole)]
<1>1. /\ Score(t, s, w, Thresholds).score = all
      /\ Score(t, s, w, Thresholds).points = points
  BY ScoreOfParts
<1>2. /\ p \in [Component -> Nat] /\ sum \in 0..(100 * Whole)
      /\ \A c \in Component : p[c] <= Whole * w[c]
  BY PartsType
<1>3. Whole \in Nat \ {0} /\ w \in [Component -> Nat]
  BY WholeType DEF Weights
<1>4. all \in 0..100
  <2>1. sum \in Nat /\ sum <= Whole * 100
    BY <1>2, <1>3
  <2> HIDE DEF sum
  <2>2. Round(sum, Whole) \in Nat /\ Round(sum, Whole) <= 100
    BY <1>3, <2>1, RoundNear, RoundAtMost
  <2> QED BY <2>2
<1>5. ASSUME NEW c \in Component PROVE points[c] \in 0..(10 * w[c])
  <2> DEFINE n == 10 * p[c]
             k == 10 * w[c]
  <2>1. n \in Nat /\ k \in Nat
    BY <1>2, <1>3
  <2>2. n <= Whole * k
    <3> DEFINE a == p[c]
               b == w[c]
    <3>1. a \in Nat /\ b \in Nat /\ a <= Whole * b
      BY <1>2, <1>3
    <3> HIDE DEF a, b
    <3>2. 10 * a <= Whole * (10 * b)
      BY <1>3, <3>1
    <3> QED BY <3>2 DEF a, b
  <2> HIDE DEF n, k
  <2>3. Round(n, Whole) \in Nat /\ Round(n, Whole) <= k
    BY <1>3, <2>1, <2>2, RoundNear, RoundAtMost
  <2> QED BY <2>1, <2>3 DEF n, k
<1>6. Total(points) - 10 * all \in -9..9
  <2> DEFINE b == Whole
             near == [c \in Component |-> 2 * (b * points[c])]
             exact == [c \in Component |-> 20 * p[c]]
  <2>0. b \in Nat \ {0}
    BY <1>3
  <2>1. points \in [Component -> Nat]
    BY <1>3, <1>5
  <2>2. ASSUME NEW c \in Component
        PROVE  near[c] \in Nat /\ exact[c] - b <= near[c] /\ near[c] <= exact[c] + b
    <3>1. 10 * p[c] \in Nat
      BY <1>2
    <3> DEFINE n == 10 * p[c]
               m == points[c]
    <3>2. m \in Nat /\ 2 * n - b <= 2 * (b * m) /\ 2 * (b * m) <= 2 * n + b
      BY <2>0, <3>1, RoundNear
    <3>3. near[c] = 2 * (b * m) /\ exact[c] = 20 * p[c] /\ 2 * n = 20 * p[c]
      BY <1>2
    <3> HIDE DEF near, exact, n, m, points, b
    <3>4. b * m \in Nat
      BY <2>0, <3>2
    <3> QED BY <3>2, <3>3, <3>4
  <2>3. near \in [Component -> Nat] /\ exact \in [Component -> Nat]
    BY <1>2, <2>2
  <2>4. Total(near) = 2 * (b * Total(points))
    <3> HIDE DEF points, b
    <3> QED BY <2>0, <2>1 DEF Total, Component
  <2>5. Total(exact) = 20 * sum
    <3> HIDE DEF p
    <3> QED BY <1>2 DEF Total, Component
  <2>6. Total(exact) - 7 * b <= Total(near) /\ Total(near) <= Total(exact) + 7 * b
    <3> HIDE DEF near, exact, b
    <3>1. b \in Nat
      BY <2>0
    <3> QED BY <2>2, <2>3, <3>1, TotalNear
  <2>7. 2 * sum - b <= 2 * (b * all) /\ 2 * (b * all) <= 2 * sum + b
    <3>1. sum \in Nat
      BY <1>2, <2>0
    <3> HIDE DEF sum
    <3> QED BY <2>0, <3>1, RoundNear
  <2>8. sum \in Nat /\ Total(points) \in Nat /\ all \in Nat
    BY <1>2, <1>4, <2>1, TotalIsNat
  <2> DEFINE k == Total(points)
             diff == k - 10 * all
  <2> HIDE DEF points, all, sum, near, exact, b, p, k
  <2>9. k \in Nat /\ Total(points) = k
    BY <2>8 DEF k
  <2>10. 20 * sum - 7 * b <= 2 * (b * k) /\ 2 * (b * k) <= 20 * sum + 7 * b
    BY <2>4, <2>5, <2>6, <2>9
  <2>11. b * k - 10 * (b * all) = b * diff /\ b * k \in Nat /\ b * all \in Nat
    BY <2>0, <2>8, <2>9
  <2>12. 2 * (b * diff) <= 17 * b /\ -17 * b <= 2 * (b * diff)
    BY <2>0, <2>7, <2>8, <2>10, <2>11
  <2>13. diff \in Int
    BY <2>8, <2>9
  <2> HIDE DEF diff
  <2>14. ~(diff >= 9) /\ ~(diff <= -9)
    <3>1. ASSUME diff >= 9 PROVE FALSE
      <4>1. b * diff >= b * 9
        BY <2>0, <2>13, <3>1
      <4> QED BY <2>0, <2>12, <2>13, <4>1
    <3>2. ASSUME diff <= -9 PROVE FALSE
      <4>1. b * diff <= b * (-9)
        BY <2>0, <2>13, <3>2
      <4> QED BY <2>0, <2>12, <2>13, <4>1
    <3> QED BY <3>1, <3>2
  <2>15. diff \in -9..9
    BY <2>13, <2>14
  <2> QED BY <2>9, <2>15 DEF diff
<1> HIDE DEF points, all
<1> QED BY <1>1, <1>4, <1>5, <1>6

\* Of two pairs of an incident and its signals, the one that has more of every component
\* has no lower a score.
LEMMA ScoreGrows ==
  ASSUME NEW t \in Ticket, NEW s \in SignalSet, NEW u \in Ticket, NEW r \in SignalSet,
         NEW w \in Weights,
         \A c \in Component : Raw(t, s, Thresholds)[c] <= Raw(u, r, Thresholds)[c]
  PROVE  Score(t, s, w, Thresholds).score <= Score(u, r, w, Thresholds).score
<1> DEFINE p == Parts(t, s, w)
           q == Parts(u, r, w)
<1>1. p \in [Component -> Nat] /\ q \in [Component -> Nat]
  BY PartsType
<1>2. ASSUME NEW c \in Component PROVE p[c] <= q[c]
  <2> DEFINE a == Raw(t, s, Thresholds)[c]
             b == Raw(u, r, Thresholds)[c]
             k == w[c]
  <2>1. a \in Nat /\ b \in Nat /\ k \in Nat /\ a <= b
    BY RawInRange, WholeType DEF Weights
  <2>2. p[c] = a * k /\ q[c] = b * k
    BY DEF Parts
  <2> HIDE DEF a, b, k, p, q
  <2>3. a * k <= b * k
    BY <2>1
  <2> QED BY <2>2, <2>3
<1>3. Score(t, s, w, Thresholds).score = Round(Total(p), Whole)
      /\ Score(u, r, w, Thresholds).score = Round(Total(q), Whole)
  BY ScoreOfParts
<1> HIDE DEF p, q
<1>4. Total(p) <= Total(q) /\ Total(p) \in Nat /\ Total(q) \in Nat
  BY <1>1, <1>2, TotalGrows, TotalIsNat
<1>5. Round(Total(p), Whole) <= Round(Total(q), Whole)
  BY <1>4, WholeType, RoundGrows
<1> QED BY <1>3, <1>5

-----------------------------------------------------------------------------
(* The SLA records.                                                         *)

Record == [kind : Kind, days : Nat \ {0}, elapsed : Nat,
           stage : LiveStages \cup {"cancelled"}]

\* What ServiceNow says of a record.
LEMMA ReadingType ==
  ASSUME NEW r \in Record
  PROVE  /\ Reading(r).kind = r.kind /\ Reading(r).active = (r.stage \in LiveStages)
         /\ Reading(r).stage = r.stage
         /\ Reading(r).breached \in BOOLEAN /\ (Reading(r).breached <=> r.elapsed >= r.days)
         /\ Reading(r).pct \in Nat /\ Reading(r).pct = (100 * r.elapsed) \div r.days
         /\ Reading(r).left \in Int /\ Reading(r).left # NoReading
         /\ Reading(r).left = 1440 * (r.days - r.elapsed)
         /\ Reading(r).ends \in Int
<1> DEFINE n == 100 * r.elapsed
           d == r.days
<1>1. n \in Nat /\ d \in Nat \ {0} /\ r.elapsed \in Nat
  BY DEF Record
<1>2. n \div d \in Nat
  BY <1>1, DivMod
<1>3. 1440 * (d - r.elapsed) \in Int /\ 1440 * (d - r.elapsed) # NoReading
  BY <1>1 DEF NoReading
<1>4. Reading(r) = [kind |-> r.kind, active |-> r.stage \in LiveStages, stage |-> r.stage,
                    breached |-> r.elapsed >= r.days, pct |-> n \div d,
                    left |-> 1440 * (d - r.elapsed), ends |-> r.days]
  BY DEF Reading
<1>5. Reading(r).kind = r.kind /\ Reading(r).active = (r.stage \in LiveStages)
      /\ Reading(r).stage = r.stage /\ Reading(r).breached = (r.elapsed >= r.days)
  BY <1>4
<1>6. /\ Reading(r).pct = n \div d /\ Reading(r).left = 1440 * (d - r.elapsed)
      /\ Reading(r).ends = r.days
  BY <1>4
<1>7. Reading(r).breached \in BOOLEAN /\ (Reading(r).breached <=> r.elapsed >= r.days)
  <2> DEFINE late == r.elapsed >= r.days
  <2>1. late \in BOOLEAN
    BY <1>1
  <2>2. Reading(r).breached = late
    BY <1>5
  <2> HIDE DEF late
  <2>3. Reading(r).breached \in BOOLEAN /\ (Reading(r).breached <=> late)
    BY <2>1, <2>2
  <2> QED BY <2>3 DEF late
<1>8. /\ Reading(r).pct \in Nat /\ Reading(r).pct = (100 * r.elapsed) \div r.days
      /\ Reading(r).ends \in Int
  BY <1>1, <1>2, <1>6
<1>9. /\ Reading(r).left \in Int /\ Reading(r).left # NoReading
      /\ Reading(r).left = 1440 * (r.days - r.elapsed)
  BY <1>3, <1>6
<1> QED BY <1>5, <1>7, <1>8, <1>9

\* The order of urgency, on what has been read.
Sooner(r, s) ==
  \/ r.breached /\ ~s.breached
  \/ r.breached = s.breached /\ (r.left < s.left \/ (r.left = s.left /\ r.pct > s.pct))

\* A reading that arrived compares by what it says.
LEMMA UrgencyRead ==
  ASSUME NEW r \in Record, NEW s \in Record
  PROVE  MoreUrgent(Reading(r), Reading(s)) <=> Sooner(Reading(r), Reading(s))
<1> DEFINE a == Reading(r)
           b == Reading(s)
<1>1. /\ a.left # NoReading /\ b.left # NoReading /\ a.pct \in Nat /\ b.pct \in Nat
  BY ReadingType
<1>2. a.pct # NoReading /\ b.pct # NoReading
  BY <1>1 DEF NoReading
<1> HIDE DEF a, b
<1>3. MoreUrgent(a, b) <=> Sooner(a, b)
  BY <1>1, <1>2 DEF MoreUrgent, Sooner
<1> QED BY <1>3 DEF a, b

Ahead(recs, i, j) ==
  \/ MoreUrgent(Reading(recs[i]), Reading(recs[j]))
  \/ ~MoreUrgent(Reading(recs[j]), Reading(recs[i])) /\ i < j

\* The order that Worst takes the first of is strict and total.
LEMMA OneIsAhead ==
  ASSUME NEW recs \in Seq(Record), NEW i \in DOMAIN recs, NEW j \in DOMAIN recs, i # j
  PROVE  Ahead(recs, i, j) \/ Ahead(recs, j, i)
BY DEF Ahead

LEMMA AheadOfAll ==
  ASSUME NEW recs \in Seq(Record),
         NEW i \in DOMAIN recs, NEW j \in DOMAIN recs, NEW k \in DOMAIN recs,
         Ahead(recs, i, j), Ahead(recs, j, k)
  PROVE  Ahead(recs, i, k)
<1> DEFINE a == Reading(recs[i])
           b == Reading(recs[j])
           c == Reading(recs[k])
<1>1. recs[i] \in Record /\ recs[j] \in Record /\ recs[k] \in Record
      /\ i \in Nat /\ j \in Nat /\ k \in Nat
  OBVIOUS
<1>2. /\ a.breached \in BOOLEAN /\ a.left \in Int /\ a.pct \in Nat
      /\ b.breached \in BOOLEAN /\ b.left \in Int /\ b.pct \in Nat
      /\ c.breached \in BOOLEAN /\ c.left \in Int /\ c.pct \in Nat
  BY <1>1, ReadingType
<1>5. MoreUrgent(a, b) <=> Sooner(a, b)
  BY <1>1, UrgencyRead
<1>6. MoreUrgent(b, a) <=> Sooner(b, a)
  BY <1>1, UrgencyRead
<1>7. MoreUrgent(b, c) <=> Sooner(b, c)
  BY <1>1, UrgencyRead
<1>8. MoreUrgent(c, b) <=> Sooner(c, b)
  BY <1>1, UrgencyRead
<1>9. MoreUrgent(a, c) <=> Sooner(a, c)
  BY <1>1, UrgencyRead
<1>10. MoreUrgent(c, a) <=> Sooner(c, a)
  BY <1>1, UrgencyRead
<1>3. /\ Sooner(a, b) \/ (~Sooner(b, a) /\ i < j)
      /\ Sooner(b, c) \/ (~Sooner(c, b) /\ j < k)
  <2>1. MoreUrgent(a, b) \/ (~MoreUrgent(b, a) /\ i < j)
    BY DEF Ahead, a, b
  <2>2. MoreUrgent(b, c) \/ (~MoreUrgent(c, b) /\ j < k)
    BY DEF Ahead, b, c
  <2> QED BY <1>5, <1>6, <1>7, <1>8, <2>1, <2>2
<1> HIDE DEF a, b, c
<1>4. Sooner(a, c) \/ (~Sooner(c, a) /\ i < k)
  BY <1>1, <1>2, <1>3 DEF Sooner
<1> QED BY <1>4, <1>9, <1>10 DEF Ahead, a, c

\* So any records have a first ...
LEMMA FirstAhead ==
  ASSUME NEW recs \in Seq(Record), NEW S \in SUBSET DOMAIN recs, S # {}
  PROVE  \E i \in S : \A j \in S \ {i} : Ahead(recs, i, j)
<1> DEFINE R == {p \in S \X S : Ahead(recs, p[1], p[2])}
<1>1. IsFiniteSet(S)
  <2>1. DOMAIN recs = 1..Len(recs) /\ Len(recs) \in Nat
    OBVIOUS
  <2>2. IsFiniteSet(1..Len(recs))
    BY <2>1, FS_Interval
  <2> QED BY <2>1, <2>2, FS_Subset
<1>2. \A x, y \in S : x # y => <<x, y>> \in R \/ <<y, x>> \in R
  BY OneIsAhead
<1>3. \A x, y, z \in S : <<x, y>> \in R /\ <<y, z>> \in R => <<x, z>> \in R
  BY AheadOfAll
<1>4. \A x, y \in S : <<x, y>> \in R => Ahead(recs, x, y)
  OBVIOUS
<1> HIDE DEF R
<1>5. \E x \in S : \A y \in S \ {x} : <<x, y>> \in R
  BY <1>1, <1>2, <1>3, FirstExists
<1> QED BY <1>4, <1>5

\* ... and Worst is it.
LEMMA WorstIsFirst ==
  ASSUME NEW recs \in Seq(Record), NEW S \in SUBSET DOMAIN recs, S # {},
         S = Candidates(Readings(recs))
  PROVE  /\ Worst(Readings(recs)) \in S
         /\ \A j \in S \ {Worst(Readings(recs))} : Ahead(recs, Worst(Readings(recs)), j)
<1> DEFINE First(i) == \A j \in S \ {i} : Ahead(recs, i, j)
<1>1. \E i \in S : First(i)
  BY FirstAhead
<1>2. Worst(Readings(recs)) = CHOOSE i \in S : First(i)
  BY DEF Worst, Ahead, Readings
<1> HIDE DEF First
<1>3. Worst(Readings(recs)) \in S /\ First(Worst(Readings(recs)))
  BY <1>1, <1>2
<1> QED BY <1>3 DEF First

-----------------------------------------------------------------------------

OfKinds(recs, K) == {i \in DOMAIN recs : recs[i].kind \in K}
LiveOf(recs)     == {i \in DOMAIN recs : recs[i].stage \in LiveStages}

Prefer(S, good) == IF S \cap good # {} THEN S \cap good ELSE S

Watched(recs) ==
  Prefer(Prefer(Prefer(OfKinds(recs, Kind \ {"IGNORE", "VENDOR"}), OfKinds(recs, Kind \ {"RESPONSE"})),
                OfKinds(recs, {"RESOLUTION"})),
         LiveOf(recs))

VendorWatched(recs) == Prefer(OfKinds(recs, {"VENDOR"}), LiveOf(recs))

LEMMA PreferFacts ==
  ASSUME NEW S, NEW good
  PROVE  /\ Prefer(S, good) \subseteq S /\ (S # {} => Prefer(S, good) # {})
         /\ Prefer(S, good) \subseteq good \/ S \cap good = {}
BY DEF Prefer

LEMMA ReadingsType ==
  ASSUME NEW recs \in Seq(Record)
  PROVE  /\ DOMAIN Readings(recs) = DOMAIN recs
         /\ \A i \in DOMAIN recs : recs[i] \in Record /\ Readings(recs)[i] = Reading(recs[i])
BY DEF Readings

\* The candidates of the summary, as sets of positions.
LEMMA CandidatesAreWatched ==
  ASSUME NEW recs \in Seq(Record)
  PROVE  /\ Candidates(Readings(recs)) = Watched(recs)
         /\ Preferred(Vendor(Readings(recs)), LAMBDA i : IsLive(Readings(recs)[i])) = VendorWatched(recs)
         /\ Core(Readings(recs)) = OfKinds(recs, Kind \ {"IGNORE", "VENDOR"})
<1> DEFINE q == Readings(recs)
<1>1. DOMAIN q = DOMAIN recs
  BY ReadingsType
<1>a. ASSUME NEW i \in DOMAIN recs
      PROVE  /\ q[i].kind = recs[i].kind /\ recs[i].kind \in Kind
             /\ IsLive(q[i]) <=> recs[i].stage \in LiveStages
  <2> DEFINE r == recs[i]
  <2>1. r \in Record /\ q[i] = Reading(r)
    BY ReadingsType
  <2> HIDE DEF r, q
  <2>2. q[i].kind = r.kind /\ q[i].active = (r.stage \in LiveStages) /\ q[i].stage = r.stage
    BY <2>1, ReadingType
  <2>3. r.kind \in Kind
    BY <2>1 DEF Record
  <2>4. IsLive(q[i]) <=> r.stage \in LiveStages
    BY <2>2 DEF IsLive
  <2> QED BY <2>2, <2>3, <2>4 DEF r
<1>2. \A i \in DOMAIN recs : q[i].kind = recs[i].kind /\ recs[i].kind \in Kind
  BY <1>a
<1>3. \A i \in DOMAIN recs : IsLive(q[i]) <=> recs[i].stage \in LiveStages
  BY <1>a
<1> HIDE DEF q
<1>4. Core(q) = OfKinds(recs, Kind \ {"IGNORE", "VENDOR"})
  BY <1>1, <1>2 DEF Core, OfKinds
<1>5. Vendor(q) = OfKinds(recs, {"VENDOR"})
  BY <1>1, <1>2 DEF Vendor, OfKinds
<1>6. ASSUME NEW S \in SUBSET DOMAIN recs
      PROVE  /\ Preferred(S, LAMBDA i : IsLive(q[i])) = Prefer(S, LiveOf(recs))
             /\ Preferred(S, LAMBDA i : q[i].kind = "RESOLUTION")
                  = Prefer(S, OfKinds(recs, {"RESOLUTION"}))
             /\ Preferred(S, LAMBDA i : q[i].kind # "RESPONSE")
                  = Prefer(S, OfKinds(recs, Kind \ {"RESPONSE"}))
  <2>1. Preferred(S, LAMBDA i : IsLive(q[i])) = Prefer(S, LiveOf(recs))
    BY <1>3 DEF Preferred, Prefer, LiveOf
  <2>2. Preferred(S, LAMBDA i : q[i].kind = "RESOLUTION") = Prefer(S, OfKinds(recs, {"RESOLUTION"}))
    BY <1>2 DEF Preferred, Prefer, OfKinds
  <2>3. Preferred(S, LAMBDA i : q[i].kind # "RESPONSE") = Prefer(S, OfKinds(recs, Kind \ {"RESPONSE"}))
    BY <1>2 DEF Preferred, Prefer, OfKinds
  <2> QED BY <2>1, <2>2, <2>3
<1>7. Preferred(Vendor(q), LAMBDA i : IsLive(q[i])) = VendorWatched(recs)
  <2>1. OfKinds(recs, {"VENDOR"}) \in SUBSET DOMAIN recs
    BY DEF OfKinds
  <2>2. Preferred(OfKinds(recs, {"VENDOR"}), LAMBDA i : IsLive(q[i]))
          = Prefer(OfKinds(recs, {"VENDOR"}), LiveOf(recs))
    BY <1>6, <2>1
  <2> QED BY <1>5, <2>2 DEF VendorWatched
<1>8. Candidates(q) = Watched(recs)
  <2> DEFINE A == OfKinds(recs, Kind \ {"IGNORE", "VENDOR"})
             B == Prefer(A, OfKinds(recs, Kind \ {"RESPONSE"}))
             C == Prefer(B, OfKinds(recs, {"RESOLUTION"}))
  <2>1. A \in SUBSET DOMAIN recs
    BY DEF OfKinds
  <2>2. B \in SUBSET DOMAIN recs
    BY <2>1 DEF Prefer
  <2>3. C \in SUBSET DOMAIN recs
    <3> HIDE DEF B
    <3> QED BY <2>2 DEF Prefer
  <2>4. Candidates(q) =
          Preferred(Preferred(Preferred(Core(q), LAMBDA i : q[i].kind # "RESPONSE"),
                              LAMBDA i : q[i].kind = "RESOLUTION"),
                    LAMBDA i : IsLive(q[i]))
    BY DEF Candidates
  <2>5. Preferred(Core(q), LAMBDA i : q[i].kind # "RESPONSE") = B
    BY <1>4, <1>6, <2>1
  <2> HIDE DEF B
  <2>6. Preferred(B, LAMBDA i : q[i].kind = "RESOLUTION") = C
    BY <1>6, <2>2
  <2> HIDE DEF C
  <2>7. Preferred(C, LAMBDA i : IsLive(q[i])) = Prefer(C, LiveOf(recs))
    BY <1>6, <2>3
  <2>8. Candidates(q) = Prefer(C, LiveOf(recs))
    BY <2>4, <2>5, <2>6, <2>7
  <2> QED BY <2>8 DEF Watched, B, C
<1> QED BY <1>4, <1>7, <1>8 DEF q

-----------------------------------------------------------------------------

Overdue(recs, S) == \E i \in S : recs[i].elapsed >= recs[i].days

\* The summary s of the records, of which w is the one to watch.
Summed(recs, s, w) ==
  /\ s \in SlaReading
  /\ s.vendor <=> Overdue(recs, VendorWatched(recs))
  /\ Watched(recs) = {} => ~s.breached /\ s.pct = NoReading /\ s.left = NoReading
  /\ Watched(recs) # {} =>
       /\ s.breached <=> Overdue(recs, Watched(recs))
       /\ s.pct = Reading(recs[w]).pct /\ s.left = Reading(recs[w]).left
       /\ w \in Watched(recs)
       /\ \A j \in Watched(recs) \ {w} : Ahead(recs, w, j)

\* What the summary says, record by record.
LEMMA SummaryParts ==
  ASSUME NEW recs \in Seq(Record)
  PROVE  Summed(recs, Summarise(Readings(recs)), Worst(Readings(recs)))
<1> DEFINE q == Readings(recs)
           s == Summarise(q)
           w == Worst(q)
           vendor == \E i \in VendorWatched(recs) : q[i].breached
           late == \E i \in Watched(recs) : q[i].breached
           none == [breached |-> FALSE, pct |-> NoReading, left |-> NoReading,
                    ends |-> NoReading, vendor |-> vendor]
<1>1. Watched(recs) \subseteq DOMAIN recs /\ VendorWatched(recs) \subseteq DOMAIN recs
  BY DEF Watched, VendorWatched, Prefer, OfKinds
<1>2. /\ Candidates(q) = Watched(recs)
      /\ Preferred(Vendor(q), LAMBDA i : IsLive(q[i])) = VendorWatched(recs)
      /\ Core(q) = OfKinds(recs, Kind \ {"IGNORE", "VENDOR"})
  BY CandidatesAreWatched
<1>3. Core(q) = {} <=> Watched(recs) = {}
  <2> DEFINE A == OfKinds(recs, Kind \ {"IGNORE", "VENDOR"})
             B == Prefer(A, OfKinds(recs, Kind \ {"RESPONSE"}))
             C == Prefer(B, OfKinds(recs, {"RESOLUTION"}))
  <2>1. Watched(recs) = Prefer(C, LiveOf(recs)) /\ Core(q) = A
    BY <1>2 DEF Watched
  <2> HIDE DEF A
  <2>2. B = {} <=> A = {}
    BY PreferFacts
  <2> HIDE DEF B
  <2>3. C = {} <=> B = {}
    BY PreferFacts
  <2> HIDE DEF C
  <2>4. Prefer(C, LiveOf(recs)) = {} <=> C = {}
    BY PreferFacts
  <2> QED BY <2>1, <2>2, <2>3, <2>4
<1>4. s = IF Watched(recs) = {} THEN none
          ELSE [none EXCEPT !.breached = late, !.pct = q[w].pct, !.left = q[w].left,
                            !.ends = q[w].ends]
  <2>1. s = IF Core(q) = {} THEN none
            ELSE [none EXCEPT !.breached = \E i \in Candidates(q) : q[i].breached,
                              !.pct = q[w].pct, !.left = q[w].left, !.ends = q[w].ends]
    BY <1>2 DEF Summarise
  <2>2. (\E i \in Candidates(q) : q[i].breached) = late
    BY <1>2
  <2> HIDE DEF s, q, w, late, none
  <2> QED BY <1>3, <2>1, <2>2
<1>5. \A i \in DOMAIN recs : q[i] = Reading(recs[i]) /\ recs[i] \in Record
  BY ReadingsType
<1>6. vendor \in BOOLEAN /\ late \in BOOLEAN
  OBVIOUS
<1>7. \A i \in DOMAIN recs : q[i].breached <=> recs[i].elapsed >= recs[i].days
  <2> HIDE DEF q
  <2> QED BY <1>5, ReadingType
<1>8. (vendor <=> Overdue(recs, VendorWatched(recs))) /\ (late <=> Overdue(recs, Watched(recs)))
  <2> HIDE DEF q
  <2> QED BY <1>1, <1>7 DEF Overdue
<1> HIDE DEF vendor, late
<1>9. CASE Watched(recs) = {}
  <2>1. s = none
    BY <1>4, <1>9
  <2> HIDE DEF s
  <2>2. none \in SlaReading
    BY <1>6 DEF SlaReading, NoReading
  <2>3. s.vendor = vendor /\ ~s.breached /\ s.pct = NoReading /\ s.left = NoReading
    BY <2>1
  <2>4. s \in SlaReading
    BY <2>1, <2>2
  <2> HIDE DEF none
  <2> QED BY <1>8, <1>9, <2>3, <2>4 DEF Summed, s
<1>10. CASE Watched(recs) # {}
  <2>1. /\ w \in Watched(recs)
        /\ \A j \in Watched(recs) \ {w} : Ahead(recs, w, j)
    BY <1>1, <1>2, <1>10, WorstIsFirst
  <2>2. s = [breached |-> late, pct |-> q[w].pct, left |-> q[w].left, ends |-> q[w].ends,
             vendor |-> vendor]
    BY <1>4, <1>10
  <2>3. q[w] = Reading(recs[w]) /\ recs[w] \in Record
    BY <1>1, <1>5, <2>1
  <2> HIDE DEF s, w, q
  <2>4. q[w].pct \in Int /\ q[w].left \in Int /\ q[w].ends \in Int
    BY <2>3, ReadingType
  <2>5. s \in SlaReading
    BY <1>6, <2>2, <2>4 DEF SlaReading
  <2>6. s.vendor = vendor /\ s.breached = late /\ s.pct = q[w].pct /\ s.left = q[w].left
    BY <2>2
  <2>7. s.pct = Reading(recs[w]).pct /\ s.left = Reading(recs[w]).left
    BY <2>3, <2>6
  <2>8. /\ s.vendor <=> Overdue(recs, VendorWatched(recs))
        /\ s.breached <=> Overdue(recs, Watched(recs))
    BY <1>6, <1>8, <2>6
  <2> QED BY <1>10, <2>1, <2>5, <2>7, <2>8 DEF Summed, s, w, q
<1> QED BY <1>9, <1>10

\* A running SLA is what the summary watches.
LEMMA LiveIsWatched ==
  ASSUME NEW recs \in Seq(Record),
         OfKinds(recs, {"RESOLUTION"}) \cap LiveOf(recs) # {}
  PROVE  Watched(recs) = OfKinds(recs, {"RESOLUTION"}) \cap LiveOf(recs)
<1> DEFINE A == OfKinds(recs, Kind \ {"IGNORE", "VENDOR"})
           N == OfKinds(recs, Kind \ {"RESPONSE"})
           R == OfKinds(recs, {"RESOLUTION"})
           L == LiveOf(recs)
<1>1. R \subseteq A /\ R \subseteq N /\ R \cap L # {}
  BY DEF OfKinds, Kind
<1>2. Watched(recs) = Prefer(Prefer(Prefer(A, N), R), L)
  BY DEF Watched
<1> HIDE DEF A, N, R, L
<1>3. Prefer(Prefer(Prefer(A, N), R), L) = R \cap L
  <2>1. Prefer(A, N) = A \cap N
    BY <1>1 DEF Prefer
  <2>2. Prefer(A \cap N, R) = R
    BY <1>1 DEF Prefer
  <2>3. Prefer(R, L) = R \cap L
    BY <1>1 DEF Prefer
  <2> QED BY <2>1, <2>2, <2>3
<1> QED BY <1>2, <1>3 DEF R, L

-----------------------------------------------------------------------------

(* A pass later.                                                            *)

\* The records of one incident, and those it has later: what was cancelled stays so, and
\* the clocks of all that runs go alike.
Grown(recs, later) ==
  /\ Len(recs) <= Len(later)
  /\ \A i \in DOMAIN recs :
       /\ later[i].kind = recs[i].kind /\ later[i].days = recs[i].days
       /\ later[i].elapsed >= recs[i].elapsed
       /\ recs[i].stage = "cancelled" => later[i] = recs[i]
  /\ \A i, j \in DOMAIN recs :
       later[i].stage # "cancelled" /\ later[j].stage # "cancelled" =>
         later[i].elapsed - recs[i].elapsed = later[j].elapsed - recs[j].elapsed

\* Records at the same stages are watched alike.
LEMMA SameStages ==
  ASSUME NEW recs \in Seq(Record), NEW later \in Seq(Record), Stages(recs) = Stages(later)
  PROVE  /\ DOMAIN later = DOMAIN recs
         /\ \A i \in DOMAIN recs : /\ later[i].kind = recs[i].kind /\ later[i].days = recs[i].days
                                   /\ later[i].stage = recs[i].stage
         /\ Watched(later) = Watched(recs) /\ VendorWatched(later) = VendorWatched(recs)
<1>1. DOMAIN Stages(recs) = DOMAIN recs /\ DOMAIN Stages(later) = DOMAIN later
  BY DEF Stages
<1>2. DOMAIN later = DOMAIN recs
  BY <1>1
<1>3. ASSUME NEW i \in DOMAIN recs
      PROVE  /\ later[i].kind = recs[i].kind /\ later[i].days = recs[i].days
             /\ later[i].stage = recs[i].stage
  <2>1. Stages(recs)[i] = <<recs[i].kind, recs[i].days, recs[i].stage>>
    BY DEF Stages
  <2>2. Stages(later)[i] = <<later[i].kind, later[i].days, later[i].stage>>
    BY <1>2 DEF Stages
  <2>3. <<recs[i].kind, recs[i].days, recs[i].stage>> = <<later[i].kind, later[i].days, later[i].stage>>
    BY <2>1, <2>2
  <2> QED BY <2>3
<1>4. \A K : OfKinds(later, K) = OfKinds(recs, K)
  BY <1>2, <1>3 DEF OfKinds
<1>5. LiveOf(later) = LiveOf(recs)
  BY <1>2, <1>3 DEF LiveOf
<1>6. Watched(later) = Watched(recs)
  BY <1>4, <1>5 DEF Watched
<1>7. VendorWatched(later) = VendorWatched(recs)
  BY <1>4, <1>5 DEF VendorWatched
<1> QED BY <1>2, <1>3, <1>6, <1>7

\* The clocks of what is watched have gone on alike.
LEMMA WatchedTogether ==
  ASSUME NEW recs \in Seq(Record), NEW later \in Seq(Record), Stages(recs) = Stages(later),
         Grown(recs, later)
  PROVE  \A i, j \in Watched(recs) :
            later[i].elapsed - recs[i].elapsed = later[j].elapsed - recs[j].elapsed
<1>1. Watched(recs) \subseteq LiveOf(recs) \/ Watched(recs) \cap LiveOf(recs) = {}
  BY DEF Watched, Prefer
<1>2. Watched(recs) \subseteq DOMAIN recs
  BY DEF Watched, Prefer, OfKinds
<1>3. CASE Watched(recs) \subseteq LiveOf(recs)
  <2>1. ASSUME NEW i \in Watched(recs) PROVE i \in DOMAIN recs /\ later[i].stage # "cancelled"
    <3>1. i \in DOMAIN recs /\ later[i].stage = recs[i].stage
      BY <1>2, SameStages
    <3>2. recs[i].stage \in LiveStages
      BY <1>3 DEF LiveOf
    <3> QED BY <3>1, <3>2 DEF LiveStages
  <2> QED BY <2>1 DEF Grown
<1>4. CASE Watched(recs) \cap LiveOf(recs) = {}
  <2>1. ASSUME NEW i \in Watched(recs) PROVE later[i].elapsed - recs[i].elapsed = 0
    <3>1. i \in DOMAIN recs /\ recs[i] \in Record
      BY <1>2
    <3>2. recs[i].stage = "cancelled"
      BY <1>4, <3>1 DEF LiveOf, Record
    <3>3. later[i] = recs[i] /\ recs[i].elapsed \in Nat
      BY <3>1, <3>2 DEF Grown, Record
    <3> QED BY <3>3
  <2> QED BY <2>1
<1> QED BY <1>1, <1>3, <1>4

\* What is read of the SLA to watch does not get better while nothing breaches.
LEMMA WatchedReadsWorse ==
  ASSUME NEW recs \in Seq(Record), NEW later \in Seq(Record), Stages(recs) = Stages(later),
         Grown(recs, later), ~Overdue(later, Watched(recs)),
         NEW u \in Watched(recs), \A j \in Watched(recs) \ {u} : Ahead(recs, u, j),
         NEW v \in Watched(recs), \A j \in Watched(recs) \ {v} : Ahead(later, v, j)
  PROVE  Reading(recs[u]).pct <= Reading(later[v]).pct
<1> DEFINE ru == recs[u]
           rv == recs[v]
           lu == later[u]
           lv == later[v]
           grown == lu.elapsed - ru.elapsed
<1>1. u \in DOMAIN recs /\ v \in DOMAIN recs
  BY DEF Watched, Prefer, OfKinds
<1>2. ru \in Record /\ rv \in Record /\ lu \in Record /\ lv \in Record
  BY <1>1, SameStages
<1>3. /\ lu.days = ru.days /\ lv.days = rv.days
      /\ lu.elapsed >= ru.elapsed /\ lv.elapsed >= rv.elapsed
      /\ lu.elapsed - ru.elapsed = lv.elapsed - rv.elapsed
  BY <1>1, WatchedTogether DEF Grown
<1>4. lu.elapsed < lu.days /\ lv.elapsed < lv.days
  <2>1. ~(lu.elapsed >= lu.days) /\ ~(lv.elapsed >= lv.days)
    BY DEF Overdue
  <2> HIDE DEF lu, lv
  <2> QED BY <1>2, <2>1 DEF Record
<1>a. u = v \/ (Ahead(recs, u, v) /\ Ahead(later, v, u))
  OBVIOUS
<1>b. u = v => ru = rv /\ lu = lv
  OBVIOUS
<1>c. u # v =>
        /\ MoreUrgent(Reading(ru), Reading(rv)) \/ ~MoreUrgent(Reading(rv), Reading(ru))
        /\ MoreUrgent(Reading(lv), Reading(lu)) \/ ~MoreUrgent(Reading(lu), Reading(lv))
  BY <1>a DEF Ahead
<1> HIDE DEF ru, rv, lu, lv
<1>5. /\ ru.days \in Nat /\ rv.days \in Nat /\ ru.elapsed \in Nat /\ rv.elapsed \in Nat
      /\ lu.elapsed \in Nat /\ lv.elapsed \in Nat /\ lu.days \in Nat \ {0} /\ lv.days \in Nat
  BY <1>2 DEF Record
<1>6. Reading(ru).pct <= Reading(lu).pct
  <2> DEFINE m == 100 * ru.elapsed
             n == 100 * lu.elapsed
             d == lu.days
  <2>1. m \in Nat /\ n \in Nat /\ m <= n /\ d \in Nat \ {0}
    BY <1>3, <1>5
  <2>2. Reading(ru).pct = m \div d /\ Reading(lu).pct = n \div d
    BY <1>2, <1>3, ReadingType
  <2> HIDE DEF m, n, d
  <2>3. m \div d \in Nat /\ n \div d \in Nat
    BY <2>1, DivMod
  <2>4. m \div d <= n \div d
    <3>1. m \div d < n \div d \/ (m \div d = n \div d /\ m % d <= n % d)
      BY <2>1, Quotients
    <3> QED BY <2>3, <3>1
  <2> QED BY <2>2, <2>4
<1>7. CASE u = v
  BY <1>b, <1>6, <1>7 DEF ru, lv
<1>8. CASE u # v
  <2>1. /\ Sooner(Reading(ru), Reading(rv)) \/ ~Sooner(Reading(rv), Reading(ru))
        /\ Sooner(Reading(lv), Reading(lu)) \/ ~Sooner(Reading(lu), Reading(lv))
    BY <1>2, <1>8, <1>c, UrgencyRead
  <2>2. ~Reading(ru).breached /\ ~Reading(rv).breached /\ ~Reading(lu).breached /\ ~Reading(lv).breached
    <3>1. ru.elapsed < ru.days /\ rv.elapsed < rv.days
      BY <1>3, <1>4, <1>5
    <3>2. \A r \in {ru, rv, lu, lv} : Reading(r).breached <=> r.elapsed >= r.days
      BY <1>2, ReadingType
    <3> QED BY <1>4, <1>5, <3>1, <3>2
  <2>3. /\ Reading(ru).left = 1440 * (ru.days - ru.elapsed)
        /\ Reading(rv).left = 1440 * (rv.days - rv.elapsed)
        /\ Reading(lu).left = 1440 * (lu.days - lu.elapsed)
        /\ Reading(lv).left = 1440 * (lv.days - lv.elapsed)
    BY <1>2, ReadingType
  <2>4. /\ Reading(ru).pct \in Nat /\ Reading(rv).pct \in Nat /\ Reading(lu).pct \in Nat
        /\ Reading(lv).pct \in Nat
        /\ Reading(ru).breached \in BOOLEAN /\ Reading(rv).breached \in BOOLEAN
        /\ Reading(lu).breached \in BOOLEAN /\ Reading(lv).breached \in BOOLEAN
    BY <1>2, ReadingType
  <2>5. Reading(ru).left <= Reading(rv).left
    <3>1. Reading(ru).left \in Int /\ Reading(rv).left \in Int
      BY <1>2, ReadingType
    <3> QED BY <2>1, <2>2, <2>4, <3>1 DEF Sooner
  <2>6. Reading(lu).left <= Reading(lv).left
    <3>1. 1440 * (ru.days - ru.elapsed) <= 1440 * (rv.days - rv.elapsed)
      BY <2>3, <2>5
    <3>2. ru.days - ru.elapsed <= rv.days - rv.elapsed
      BY <1>5, <3>1
    <3>3. lu.days - lu.elapsed <= lv.days - lv.elapsed
      BY <1>3, <1>5, <3>2
    <3>4. 1440 * (lu.days - lu.elapsed) <= 1440 * (lv.days - lv.elapsed)
      BY <1>5, <3>3
    <3> QED BY <2>3, <3>4
  <2>7. Reading(lu).pct <= Reading(lv).pct
    <3>1. Reading(lu).left \in Int /\ Reading(lv).left \in Int
      BY <1>2, ReadingType
    <3> QED BY <2>1, <2>2, <2>4, <2>6, <3>1 DEF Sooner
  <2>8. Reading(ru).pct <= Reading(lv).pct
    BY <1>6, <2>4, <2>7
  <2> QED BY <2>8 DEF ru, lv
<1> QED BY <1>7, <1>8

-----------------------------------------------------------------------------

\* A summary that looks no better than another.
NoBetter(sa, sb) ==
  /\ sa.breached => sb.breached
  /\ sa.vendor => sb.vendor
  /\ sb.breached \/ /\ sa.pct <= sb.pct /\ (sa.pct = NoReading <=> sb.pct = NoReading)
                    /\ sa.pct = NoReading => sa.left = sb.left

\* The summary of records that have only grown older is no better.
LEMMA SlaOnlyWorsens ==
  ASSUME NEW recs \in Seq(Record), NEW later \in Seq(Record), Stages(recs) = Stages(later),
         Grown(recs, later)
  PROVE  NoBetter(Summarise(Readings(recs)), Summarise(Readings(later)))
<1> DEFINE sa == Summarise(Readings(recs))
           sb == Summarise(Readings(later))
           u == Worst(Readings(recs))
           v == Worst(Readings(later))
<1>1. Summed(recs, sa, u) /\ Summed(later, sb, v)
  BY SummaryParts
<1>2. Watched(later) = Watched(recs) /\ VendorWatched(later) = VendorWatched(recs)
  BY SameStages
<1>3. \A i \in DOMAIN recs : recs[i].elapsed >= recs[i].days => later[i].elapsed >= later[i].days
  <2>1. ASSUME NEW i \in DOMAIN recs, recs[i].elapsed >= recs[i].days
        PROVE  later[i].elapsed >= later[i].days
    <3>1. recs[i] \in Record /\ later[i] \in Record
      BY SameStages
    <3>2. later[i].elapsed >= recs[i].elapsed /\ later[i].days = recs[i].days
      BY DEF Grown
    <3> QED BY <2>1, <3>1, <3>2 DEF Record
  <2> QED BY <2>1
<1>4. Watched(recs) \subseteq DOMAIN recs /\ VendorWatched(recs) \subseteq DOMAIN recs
  BY DEF Watched, VendorWatched, Prefer, OfKinds
<1>5. /\ Overdue(recs, Watched(recs)) => Overdue(later, Watched(recs))
      /\ Overdue(recs, VendorWatched(recs)) => Overdue(later, VendorWatched(recs))
  BY <1>3, <1>4 DEF Overdue
<1> HIDE DEF sa, sb, u, v
<1>6. (sa.breached => sb.breached) /\ (sa.vendor => sb.vendor)
  BY <1>1, <1>2, <1>5 DEF Summed
<1>7. CASE Watched(recs) = {}
  <2>1. sa.pct = NoReading /\ sb.pct = NoReading /\ sa.left = NoReading /\ sb.left = NoReading
    BY <1>1, <1>2, <1>7 DEF Summed
  <2> QED BY <1>6, <2>1 DEF NoBetter, NoReading, sa, sb
<1>8. CASE Watched(recs) # {} /\ ~sb.breached
  <2>1. ~Overdue(later, Watched(recs))
    BY <1>1, <1>2, <1>8 DEF Summed
  <2>2. /\ u \in Watched(recs) /\ \A j \in Watched(recs) \ {u} : Ahead(recs, u, j)
        /\ v \in Watched(recs) /\ \A j \in Watched(recs) \ {v} : Ahead(later, v, j)
    BY <1>1, <1>2, <1>8 DEF Summed
  <2>3. Reading(recs[u]).pct <= Reading(later[v]).pct
    BY <2>1, <2>2, WatchedReadsWorse
  <2>4. sa.pct = Reading(recs[u]).pct /\ sb.pct = Reading(later[v]).pct
    BY <1>1, <1>2, <1>8 DEF Summed
  <2>5. recs[u] \in Record /\ later[v] \in Record
    BY <1>4, <2>2, SameStages
  <2>6. sa.pct \in Nat /\ sb.pct \in Nat
    BY <2>4, <2>5, ReadingType
  <2>7. sa.pct # NoReading /\ sb.pct # NoReading
    BY <2>6 DEF NoReading
  <2> QED BY <1>6, <2>3, <2>4, <2>7 DEF NoBetter, sa, sb
<1> QED BY <1>6, <1>7, <1>8 DEF NoBetter, sa, sb

\* A reading that is no better makes no smaller a component.
LEMMA SlaRiskGrows ==
  ASSUME NEW s \in SignalSet, NEW r \in SignalSet, NoBetter(s.sla, r.sla)
  PROVE  SlaRisk(s, Thresholds) <= SlaRisk(r, Thresholds)
<1> DEFINE sa == s.sla
           sb == r.sla
<1>1. sa \in SlaReading /\ sb \in SlaReading /\ NoBetter(sa, sb)
  BY DEF SignalSet
<1>2. /\ SlaRisk(s, Thresholds) = Percent(SlaPercent(sa), Thresholds)
      /\ SlaRisk(r, Thresholds) = Percent(SlaPercent(sb), Thresholds)
  BY DEF SlaRisk, SlaPercent
<1> HIDE DEF sa, sb
<1>3. SlaPercent(sa) \in Int /\ SlaPercent(sb) \in Int
  BY <1>1 DEF SlaPercent, SlaReading
<1>4. CASE sb.breached
  <2>1. Percent(SlaPercent(sb), Thresholds) = Whole
    BY <1>4, WholeType DEF SlaPercent, Percent, Clamp, Whole
  <2>2. Percent(SlaPercent(sa), Thresholds) \in 0..Whole
    BY <1>3, PercentRange
  <2> QED BY <1>2, <2>1, <2>2, WholeType
<1>5. CASE ~sb.breached
  <2>1. SlaPercent(sa) <= SlaPercent(sb)
    BY <1>1, <1>5 DEF NoBetter, SlaPercent, SlaReading, NoReading
  <2> QED BY <1>2, <1>3, <2>1, PercentGrows
<1> QED BY <1>4, <1>5

-----------------------------------------------------------------------------
(* The history.                                                             *)

\* The day of the latest event of a finite set.
LEMMA LatestOf ==
  ASSUME NEW E, IsFiniteSet(E), \A e \in E : e.when \in Nat
  PROVE  /\ E = {} => Latest(E) = Never
         /\ E # {} => /\ Latest(E) \in Nat
                      /\ \E e \in E : Latest(E) = e.when
                      /\ \A e \in E : e.when <= Latest(E)
<1>1. CASE E = {}
  BY <1>1 DEF Latest
<1>2. CASE E # {}
  <2> DEFINE score == [e \in E |-> e.when]
             Ok(d) == \A e \in E : e.when <= d
  <2>1. \E r \in E : \A o \in E : score[o] <= score[r]
    <3>1. score \in [E -> Int]
      OBVIOUS
    <3> HIDE DEF score
    <3> QED BY <1>2, <3>1, LargestExists
  <2>2. \E d \in {e.when : e \in E} : Ok(d)
    BY <2>1
  <2>3. Latest(E) = CHOOSE d \in {e.when : e \in E} : Ok(d)
    BY <1>2 DEF Latest
  <2> HIDE DEF Ok
  <2>4. Latest(E) \in {e.when : e \in E} /\ Ok(Latest(E))
    BY <2>2, <2>3
  <2> QED BY <1>2, <2>4 DEF Ok
<1> QED BY <1>1, <1>2

\* What is written until a day.
Written(h, now) == IsFiniteSet(h) /\ \A e \in h : e.when \in 0..now

\* ... of one that is part of a history.
LEMMA LatestIn ==
  ASSUME NEW now \in Nat, NEW h, Written(h, now), NEW E \in SUBSET h
  PROVE  /\ IsFiniteSet(E)
         /\ E = {} => Latest(E) = Never
         /\ E # {} => /\ Latest(E) \in 0..now
                      /\ \E e \in E : Latest(E) = e.when
                      /\ \A e \in E : e.when <= Latest(E)
<1>1. IsFiniteSet(E) /\ \A e \in E : e.when \in 0..now
  BY FS_Subset DEF Written
<1>2. \A e \in E : e.when \in Nat
  BY <1>1
<1> QED BY <1>1, <1>2, LatestOf

LEMMA Subhistories ==
  ASSUME NEW h
  PROVE  /\ By(Actions(h), "AGENT") \in SUBSET h /\ By(Actions(h), "CALLER") \in SUBSET h
         /\ Followups(h) \in SUBSET By(Actions(h), "AGENT")
BY DEF By, Actions, Timeline, Followups

\* The events that count as of a person, of the caller, and as a chase.
LEMMA WhoActs ==
  ASSUME NEW h
  PROVE  /\ By(Actions(h), "AGENT") = {e \in h : Person(e.user) /\ e.field \in AgentActionFields}
         /\ By(Actions(h), "CALLER")
              = {e \in h : /\ e.user = Caller /\ e.user \notin SystemAccounts \cup {Nobody}
                           /\ e.field \in AgentActionFields}
         /\ Followups(h) = {e \in h : Person(e.user) /\ e.field = "comments" /\ e.hint}
<1>1. \A f : f \in AgentActionFields => f \in ReadableFields \ SystemNoiseFields
  BY DEF AgentActionFields, ReadableFields, SystemNoiseFields, DisplayOnlyFields
<1>2. Actions(h) = {e \in h : e.field \in AgentActionFields}
  BY <1>1 DEF Actions, Timeline
<1>3. \A user : /\ Role(user) = "AGENT" <=> Person(user)
                /\ Role(user) = "CALLER" <=> user = Caller /\ user \notin SystemAccounts \cup {Nobody}
  BY DEF Role, Person
<1>4. By(Actions(h), "AGENT") = {e \in h : Person(e.user) /\ e.field \in AgentActionFields}
  BY <1>2, <1>3 DEF By
<1>5. By(Actions(h), "CALLER")
        = {e \in h : /\ e.user = Caller /\ e.user \notin SystemAccounts \cup {Nobody}
                     /\ e.field \in AgentActionFields}
  BY <1>2, <1>3 DEF By
<1>6. Followups(h) = {e \in h : Person(e.user) /\ e.field = "comments" /\ e.hint}
  BY <1>4 DEF Followups, CustomerVisibleFields, AgentActionFields
<1> QED BY <1>4, <1>5, <1>6

\* The signals of any history.
LEMMA SignalsType ==
  ASSUME NEW now \in Nat, NEW h, Written(h, now), NEW t \in Ticket, t.opened = 0,
         NEW sla \in SlaReading, NEW kb \in KbStates
  PROVE  /\ Signals(t, h, sla, kb, now, Thresholds) \in SignalSet
         /\ Signals(t, h, sla, kb, now, Thresholds).idle
              <= Signals(t, h, sla, kb, now, Thresholds).age
<1> DEFINE agent == LastAgentAction(h)
           idle == IF agent = Never THEN now - t.opened ELSE now - agent
           overrun == now - t.opened > Thresholds.expected
           own == Owner(t, Unanswered(h), Dependency(t) = "closed")
<1>1. agent \in 0..now \/ agent = Never
  <2>1. By(Actions(h), "AGENT") \in SUBSET h
    BY Subhistories
  <2> QED BY <2>1, LatestIn DEF LastAgentAction
<1>2. idle \in Nat /\ idle <= now
  BY <1>1 DEF Never
<1>3. overrun \in BOOLEAN
  BY ThresholdTypes
<1>4. Unanswered(h) \in BOOLEAN /\ Closable(t, h, now, Thresholds) \in BOOLEAN
  BY DEF Unanswered, Closable
<1>5. own \in Owners
  <2>1. t.hold \in HoldReason
    BY DEF Ticket
  <2> QED BY <2>1 DEF Owner, Owners
<1>6. Signals(t, h, sla, kb, now, Thresholds) =
        [age |-> now - t.opened, idle |-> idle, owner |-> own,
         unanswered |-> Unanswered(h), cleared |-> Dependency(t) = "closed",
         closable |-> Closable(t, h, now, Thresholds), overrun |-> overrun,
         untouched |-> agent = Never, sla |-> sla, kb |-> kb]
  BY DEF Signals, DaysSince
<1>7. now - t.opened = now
  OBVIOUS
<1> DEFINE untouched == agent = Never
           cleared == Dependency(t) = "closed"
           closable == Closable(t, h, now, Thresholds)
           unanswered == Unanswered(h)
<1>8. untouched \in BOOLEAN /\ cleared \in BOOLEAN /\ closable \in BOOLEAN /\ unanswered \in BOOLEAN
  BY <1>4
<1> HIDE DEF idle, overrun, own, untouched, cleared, closable, unanswered, agent
<1>9. Signals(t, h, sla, kb, now, Thresholds) =
        [age |-> now, idle |-> idle, owner |-> own, unanswered |-> unanswered,
         cleared |-> cleared, closable |-> closable, overrun |-> overrun,
         untouched |-> untouched, sla |-> sla, kb |-> kb]
  BY <1>6, <1>7 DEF untouched, cleared, closable, unanswered
<1>10. Signals(t, h, sla, kb, now, Thresholds) \in SignalSet
  BY <1>2, <1>3, <1>5, <1>8, <1>9 DEF SignalSet
<1>11. /\ Signals(t, h, sla, kb, now, Thresholds).idle = idle
       /\ Signals(t, h, sla, kb, now, Thresholds).age = now
  BY <1>9
<1> QED BY <1>2, <1>10, <1>11

-----------------------------------------------------------------------------

\* What the signals say of an incident that was opened on day 0.
LEMMA IdleIs ==
  ASSUME NEW now \in Nat, NEW h, NEW t, t.opened = 0, NEW sla, NEW kb
  PROVE  /\ Signals(t, h, sla, kb, now, Thresholds).age = now
         /\ Signals(t, h, sla, kb, now, Thresholds).idle
              = IF LastAgentAction(h) = Never THEN now ELSE now - LastAgentAction(h)
         /\ Signals(t, h, sla, kb, now, Thresholds).untouched = (LastAgentAction(h) = Never)
         /\ Signals(t, h, sla, kb, now, Thresholds).unanswered = Unanswered(h)
         /\ Signals(t, h, sla, kb, now, Thresholds).cleared = (Dependency(t) = "closed")
         /\ Signals(t, h, sla, kb, now, Thresholds).closable = Closable(t, h, now, Thresholds)
         /\ Signals(t, h, sla, kb, now, Thresholds).overrun = (now > Thresholds.expected)
         /\ Signals(t, h, sla, kb, now, Thresholds).sla = sla
         /\ Signals(t, h, sla, kb, now, Thresholds).kb = kb
<1>1. now - t.opened = now
  OBVIOUS
<1> QED BY <1>1 DEF Signals, DaysSince

LEMMA ActivityType ==
  ASSUME NEW now \in Nat, NEW h, Written(h, now)
  PROVE  /\ LastAgentAction(h) \in 0..now \/ LastAgentAction(h) = Never
         /\ LastCallerActivity(h) \in 0..now \/ LastCallerActivity(h) = Never
         /\ Latest(Followups(h)) \in 0..now \/ Latest(Followups(h)) = Never
         /\ Followups(h) # {} => Latest(Followups(h)) \in 0..now
<1>1. By(Actions(h), "AGENT") \in SUBSET h /\ By(Actions(h), "CALLER") \in SUBSET h
      /\ Followups(h) \in SUBSET h
  BY Subhistories
<1> QED BY <1>1, LatestIn DEF LastAgentAction, LastCallerActivity

\* More of what a score is made of.
LEMMA RawGrows ==
  ASSUME NEW t \in Ticket, NEW s \in SignalSet, NEW r \in SignalSet,
         s.idle <= r.idle, s.age <= r.age, s.overrun => r.overrun, Delay(s) <= Delay(r),
         SlaRisk(s, Thresholds) <= SlaRisk(r, Thresholds)
  PROVE  \A c \in Component : Raw(t, s, Thresholds)[c] <= Raw(t, r, Thresholds)[c]
<1>0. /\ s.age \in Nat /\ s.idle \in Nat /\ r.age \in Nat /\ r.idle \in Nat
      /\ s.overrun \in BOOLEAN /\ r.overrun \in BOOLEAN
  BY DEF SignalSet
<1>1. InactivityDuration(s, Thresholds) <= InactivityDuration(r, Thresholds)
  <2> DEFINE k == Den(Thresholds) \div Thresholds.prolonged
             x == s.idle
             y == r.idle
  <2>1. k \in Nat
    BY SlopeType, ThresholdTypes
  <2>2. /\ InactivityDuration(s, Thresholds) = Clamp(x * 100 * k, Whole)
        /\ InactivityDuration(r, Thresholds) = Clamp(y * 100 * k, Whole)
    BY DEF InactivityDuration, Whole
  <2>3. x \in Nat /\ y \in Nat /\ x <= y
    BY <1>0
  <2> HIDE DEF k, x, y
  <2>4. x * 100 * k \in Int /\ y * 100 * k \in Int /\ x * 100 * k <= y * 100 * k
    BY <2>1, <2>3
  <2> QED BY <2>2, <2>4, ClampGrows, WholeType
<1>2. TicketAge(s, Thresholds) <= TicketAge(r, Thresholds)
  <2> DEFINE k == Den(Thresholds) \div Thresholds.aged
             x == s.age - Thresholds.aged
             y == r.age - Thresholds.aged
  <2>1. k \in Nat
    BY SlopeType, ThresholdTypes
  <2>2. /\ TicketAge(s, Thresholds) = Clamp(x * 100 * k, Whole)
        /\ TicketAge(r, Thresholds) = Clamp(y * 100 * k, Whole)
    BY DEF TicketAge, Whole
  <2>3. x \in Int /\ y \in Int /\ x <= y
    BY <1>0, ThresholdTypes
  <2> HIDE DEF k, x, y
  <2>4. x * 100 * k \in Int /\ y * 100 * k \in Int /\ x * 100 * k <= y * 100 * k
    BY <2>1, <2>3
  <2> QED BY <2>2, <2>4, ClampGrows, WholeType
<1>3. UnactionedDelay(s, Thresholds) <= UnactionedDelay(r, Thresholds)
  <2>1. Delay(s) \in Int /\ Delay(r) \in Int
    BY DEF Delay, If
  <2>2. /\ UnactionedDelay(s, Thresholds) = Percent(Delay(s), Thresholds)
        /\ UnactionedDelay(r, Thresholds) = Percent(Delay(r), Thresholds)
    BY DEF UnactionedDelay, Delay
  <2> QED BY <2>1, <2>2, PercentGrows
<1>4. DurationOverrun(s, Thresholds) <= DurationOverrun(r, Thresholds)
  <2> DEFINE k == Den(Thresholds) \div Thresholds.expected
             x == s.age
             y == r.age
  <2>1. k \in Nat
    BY SlopeType, ThresholdTypes
  <2>2. /\ DurationOverrun(s, Thresholds) = IF s.overrun THEN Clamp(50 * x * k, Whole) ELSE 0
        /\ DurationOverrun(r, Thresholds) = IF r.overrun THEN Clamp(50 * y * k, Whole) ELSE 0
    BY DEF DurationOverrun, Whole
  <2>3. x \in Nat /\ y \in Nat /\ x <= y
    BY <1>0
  <2> HIDE DEF k, x, y
  <2>4. 50 * x * k \in Int /\ 50 * y * k \in Int /\ 50 * x * k <= 50 * y * k
    BY <2>1, <2>3
  <2>5. /\ Clamp(50 * x * k, Whole) <= Clamp(50 * y * k, Whole)
        /\ Clamp(50 * y * k, Whole) \in 0..Whole
    BY <2>4, ClampGrows, ClampRange, WholeType
  <2> QED BY <1>0, <2>2, <2>5, WholeType
<1>5. /\ BusinessPriority(t, Thresholds) \in 0..Whole
      /\ ReassignmentActivity(t, Thresholds) \in 0..Whole
  BY RawInRange DEF Raw, Component
<1> HIDE DEF Delay
<1>6. ASSUME NEW c \in Component PROVE Raw(t, s, Thresholds)[c] <= Raw(t, r, Thresholds)[c]
  <2>1. CASE c = "business_priority" \/ c = "reassignment_activity"
    BY <1>5, <2>1, WholeType DEF Raw
  <2>2. CASE c \in {"sla_risk", "inactivity_duration", "ticket_age", "unactioned_delay",
                     "duration_overrun"}
    BY <1>1, <1>2, <1>3, <1>4, <2>2 DEF Raw
  <2> QED BY <2>1, <2>2 DEF Component
<1> QED BY <1>6

\* The same history on a later day.
LEMMA LaterSignals ==
  ASSUME NEW now \in Nat, NEW then \in Nat, then <= now, NEW h, Written(h, then),
         NEW t \in Ticket, t.opened = 0,
         NEW sla \in SlaReading, NEW slb \in SlaReading, NEW kb \in KbStates, NEW kc \in KbStates
  PROVE  /\ Signals(t, h, sla, kb, then, Thresholds).idle <= Signals(t, h, slb, kc, now, Thresholds).idle
         /\ Signals(t, h, sla, kb, then, Thresholds).closable
              => Signals(t, h, slb, kc, now, Thresholds).closable
         /\ Signals(t, h, sla, kb, then, Thresholds).overrun
              => Signals(t, h, slb, kc, now, Thresholds).overrun
<1> DEFINE agent == LastAgentAction(h)
           chased == Latest(Followups(h))
<1>1. agent \in 0..then \/ agent = Never
  BY ActivityType
<1>2. (IF agent = Never THEN then ELSE then - agent) <= (IF agent = Never THEN now ELSE now - agent)
  BY <1>1 DEF Never
<1>3. Followups(h) # {} => chased \in 0..then
  BY ActivityType
<1>4. Closable(t, h, then, Thresholds) => Closable(t, h, now, Thresholds)
  <2>1. Followups(h) # {} /\ then - chased >= Thresholds.silence => now - chased >= Thresholds.silence
    BY <1>3, ThresholdTypes
  <2> HIDE DEF chased
  <2> QED BY <2>1 DEF Closable, DaysSince, chased
<1>5. then > Thresholds.expected => now > Thresholds.expected
  BY ThresholdTypes
<1> DEFINE a == Signals(t, h, sla, kb, then, Thresholds)
           b == Signals(t, h, slb, kc, now, Thresholds)
<1>6. /\ a.idle = IF agent = Never THEN then ELSE then - agent
      /\ a.closable = Closable(t, h, then, Thresholds)
      /\ a.overrun = (then > Thresholds.expected)
  BY IdleIs
<1>7. /\ b.idle = IF agent = Never THEN now ELSE now - agent
      /\ b.closable = Closable(t, h, now, Thresholds)
      /\ b.overrun = (now > Thresholds.expected)
  BY IdleIs
<1> HIDE DEF a, b, agent
<1>8. a.idle <= b.idle
  BY <1>2, <1>6, <1>7
<1>9. a.closable => b.closable
  BY <1>4, <1>6, <1>7
<1>10. a.overrun => b.overrun
  BY <1>5, <1>6, <1>7
<1> QED BY <1>8, <1>9, <1>10 DEF a, b

-----------------------------------------------------------------------------

\* Signals that are no better make a score no lower, and keep their flags or get stronger ones.
LEMMA WorseScoresNoLower ==
  ASSUME NEW t \in Ticket, NEW w \in Weights, NEW s \in SignalSet, NEW r \in SignalSet,
         s.idle <= r.idle, s.age <= r.age, s.closable => r.closable, s.overrun => r.overrun,
         s.untouched = r.untouched, s.unanswered = r.unanswered, s.cleared = r.cleared,
         s.kb = r.kb, NoBetter(s.sla, r.sla)
  PROVE  /\ Score(t, s, w, Thresholds).score <= Score(t, r, w, Thresholds).score
         /\ \A f \in RiskFlags(s, Thresholds) :
               \/ f \in RiskFlags(r, Thresholds)
               \/ f \in DOMAIN Stronger /\ Stronger[f] \in RiskFlags(r, Thresholds)
<1>7. SlaRisk(s, Thresholds) <= SlaRisk(r, Thresholds)
  BY SlaRiskGrows
<1>8. Delay(s) <= Delay(r)
  BY DEF Delay, If, NoBetter
<1>9. \A c \in Component : Raw(t, s, Thresholds)[c] <= Raw(t, r, Thresholds)[c]
  BY <1>7, <1>8, RawGrows
<1>10. Score(t, s, w, Thresholds).score <= Score(t, r, w, Thresholds).score
  BY <1>9, ScoreGrows
<1>11. ASSUME NEW f \in RiskFlags(s, Thresholds)
       PROVE  \/ f \in RiskFlags(r, Thresholds)
              \/ f \in DOMAIN Stronger /\ Stronger[f] \in RiskFlags(r, Thresholds)
  <2>1. /\ s.idle \in Nat /\ r.idle \in Nat /\ s.sla.pct \in Int /\ r.sla.pct \in Int
        /\ s.sla \in SlaReading /\ r.sla \in SlaReading
    BY DEF SignalSet, SlaReading
  <2>2. CASE f = "SLA_AT_RISK"
    <3>1. ~s.sla.breached /\ s.sla.pct >= Thresholds.slaRisk
      BY <2>2 DEF RiskFlags
    <3>2. r.sla.breached \/ r.sla.pct >= Thresholds.slaRisk
      BY <2>1, <3>1, ThresholdTypes DEF NoBetter
    <3>3. CASE r.sla.breached
      <4>1. "SLA_BREACHED" \in RiskFlags(r, Thresholds)
        BY <3>3 DEF RiskFlags, RiskFlag
      <4> QED BY <2>2, <4>1 DEF Stronger
    <3>4. CASE ~r.sla.breached
      BY <2>2, <3>2, <3>4 DEF RiskFlags, RiskFlag
    <3> QED BY <3>3, <3>4
  <2>3. CASE f = "NO_RECENT_ACTIVITY"
    <3>1. s.idle >= Thresholds.inactivity
      BY <2>3 DEF RiskFlags
    <3>2. r.idle >= Thresholds.inactivity
      BY <2>1, <3>1, ThresholdTypes
    <3>3. CASE r.idle >= Thresholds.prolonged
      <4>1. "PROLONGED_INACTIVITY" \in RiskFlags(r, Thresholds)
        BY <3>3 DEF RiskFlags, RiskFlag
      <4> QED BY <2>3, <4>1 DEF Stronger
    <3>4. CASE ~(r.idle >= Thresholds.prolonged)
      <4>1. r.idle < Thresholds.prolonged
        BY <2>1, <3>4, ThresholdTypes
      <4> QED BY <2>3, <3>2, <4>1 DEF RiskFlags, RiskFlag
    <3> QED BY <3>3, <3>4
  <2>4. CASE f = "PROLONGED_INACTIVITY"
    <3>1. s.idle >= Thresholds.prolonged
      BY <2>4 DEF RiskFlags
    <3>2. r.idle >= Thresholds.prolonged
      BY <2>1, <3>1, ThresholdTypes
    <3> QED BY <2>4, <3>2 DEF RiskFlags, RiskFlag
  <2>5. CASE f = "SLA_BREACHED" \/ f = "VENDOR_SLA_BREACHED"
    BY <2>5 DEF RiskFlags, RiskFlag, NoBetter
  <2>6. CASE f \in RiskFlag \ {"SLA_AT_RISK", "NO_RECENT_ACTIVITY", "PROLONGED_INACTIVITY",
                               "SLA_BREACHED", "VENDOR_SLA_BREACHED"}
    <3>1. f \in {"CALLER_AWAITING_REPLY", "DEPENDENCY_CLEARED", "CLOSURE_CANDIDATE",
                 "EXPECTED_DURATION_EXCEEDED", "KB_ARTICLE_NOT_LINKED", "NO_ACTION_RECORDED"}
      BY <2>6 DEF RiskFlag
    <3> QED BY <3>1 DEF RiskFlags, RiskFlag
  <2>7. f \in RiskFlag
    BY DEF RiskFlags
  <2> QED BY <2>2, <2>3, <2>4, <2>5, <2>6, <2>7
<1> QED BY <1>10, <1>11

\* The same history on a later day: a score no lower, and no flag gone but for a stronger one.
LEMMA WaitingScoresNoLower ==
  ASSUME NEW now \in Nat, NEW then \in Nat, then <= now, NEW h, Written(h, then),
         NEW t \in Ticket, t.opened = 0, NEW kb \in KbStates, NEW w \in Weights,
         NEW sla \in SlaReading, NEW slb \in SlaReading, NoBetter(sla, slb)
  PROVE  LET s == Signals(t, h, sla, kb, then, Thresholds)
             r == Signals(t, h, slb, kb, now, Thresholds)
         IN  /\ Score(t, s, w, Thresholds).score <= Score(t, r, w, Thresholds).score
             /\ \A f \in RiskFlags(s, Thresholds) :
                   \/ f \in RiskFlags(r, Thresholds)
                   \/ f \in DOMAIN Stronger /\ Stronger[f] \in RiskFlags(r, Thresholds)
<1> DEFINE s == Signals(t, h, sla, kb, then, Thresholds)
           r == Signals(t, h, slb, kb, now, Thresholds)
<1>1. Written(h, now)
  BY DEF Written
<1>2. s \in SignalSet /\ r \in SignalSet
  BY <1>1, SignalsType
<1>3. /\ s.idle <= r.idle /\ (s.closable => r.closable) /\ (s.overrun => r.overrun)
  BY LaterSignals
<1>4. /\ s.age = then /\ s.untouched = (LastAgentAction(h) = Never)
      /\ s.unanswered = Unanswered(h) /\ s.cleared = (Dependency(t) = "closed")
      /\ s.sla = sla /\ s.kb = kb
  BY DEF Signals, DaysSince
<1>5. /\ r.age = now /\ r.untouched = (LastAgentAction(h) = Never)
      /\ r.unanswered = Unanswered(h) /\ r.cleared = (Dependency(t) = "closed")
      /\ r.sla = slb /\ r.kb = kb
  BY DEF Signals, DaysSince
<1> HIDE DEF s, r
<1>6. /\ s.age <= r.age /\ s.untouched = r.untouched /\ s.unanswered = r.unanswered
      /\ s.cleared = r.cleared /\ s.kb = r.kb /\ NoBetter(s.sla, r.sla)
  BY <1>4, <1>5
<1>7. /\ Score(t, s, w, Thresholds).score <= Score(t, r, w, Thresholds).score
      /\ \A f \in RiskFlags(s, Thresholds) :
            \/ f \in RiskFlags(r, Thresholds)
            \/ f \in DOMAIN Stronger /\ Stronger[f] \in RiskFlags(r, Thresholds)
  BY <1>2, <1>3, <1>6, WorseScoresNoLower
<1> QED BY <1>7 DEF s, r

\* Without the work of a person the clock of idle days is not put back.
LEMMA OnlyWorkPutsItBack ==
  ASSUME NEW now \in Nat, NEW then \in Nat, then <= now,
         NEW h, Written(h, then), NEW hh, h \subseteq hh,
         NEW t, t.opened = 0, NEW u, u.opened = 0, NEW sla, NEW slb, NEW kb, NEW kc,
         \A e \in hh \ h : ~(Person(e.user) /\ e.field \in AgentActionFields)
  PROVE  Signals(t, h, sla, kb, then, Thresholds).idle
           <= Signals(u, hh, slb, kc, now, Thresholds).idle
<1>1. By(Actions(hh), "AGENT") = By(Actions(h), "AGENT")
  <2>1. By(Actions(h), "AGENT") = {e \in h : Person(e.user) /\ e.field \in AgentActionFields}
    BY WhoActs
  <2>2. By(Actions(hh), "AGENT") = {e \in hh : Person(e.user) /\ e.field \in AgentActionFields}
    BY WhoActs
  <2> QED BY <2>1, <2>2
<1>2. LastAgentAction(hh) = LastAgentAction(h)
  BY <1>1 DEF LastAgentAction
<1>3. LastAgentAction(h) \in 0..then \/ LastAgentAction(h) = Never
  BY ActivityType
<1> DEFINE agent == LastAgentAction(h)
<1>4. Signals(t, h, sla, kb, then, Thresholds).idle = IF agent = Never THEN then ELSE then - agent
  BY DEF Signals, DaysSince
<1>5. Signals(u, hh, slb, kc, now, Thresholds).idle = IF agent = Never THEN now ELSE now - agent
  <2>1. Signals(u, hh, slb, kc, now, Thresholds).idle
          = IF LastAgentAction(hh) = Never THEN now ELSE now - LastAgentAction(hh)
    BY DEF Signals, DaysSince
  <2> QED BY <1>2, <2>1
<1> HIDE DEF agent
<1> QED BY <1>3, <1>4, <1>5 DEF agent, Never

-----------------------------------------------------------------------------

\* A person's entry of the day: the caller is no longer waiting, and nobody asked too long ago.
LEMMA AfterWork ==
  ASSUME NEW now \in Nat, NEW hh, Written(hh, now), NEW h, h \subseteq hh, h # hh,
         \A e \in hh \ h : Person(e.user) /\ e.field \in AgentActionFields /\ e.when = now
  PROVE  /\ LastAgentAction(hh) = now /\ ~Unanswered(hh)
         /\ \A t : Closable(t, hh, now, Thresholds) =>
              Closable(t, h, now, Thresholds) \/ Unanswered(h)
<1>1. PICK e \in hh \ h : Person(e.user) /\ e.field \in AgentActionFields /\ e.when = now
  OBVIOUS
<1>2. e \in By(Actions(hh), "AGENT")
  BY <1>1, WhoActs
<1>3. By(Actions(hh), "AGENT") \in SUBSET hh /\ By(Actions(hh), "CALLER") \in SUBSET hh
      /\ Followups(hh) \in SUBSET hh
  BY Subhistories
<1>4. LastAgentAction(hh) \in 0..now /\ e.when <= LastAgentAction(hh)
  BY <1>2, <1>3, LatestIn DEF LastAgentAction
<1>5. LastAgentAction(hh) = now
  BY <1>1, <1>4
<1>6. ~Unanswered(hh)
  <2>1. LastCallerActivity(hh) \in 0..now \/ LastCallerActivity(hh) = Never
    BY ActivityType
  <2> QED BY <1>5, <2>1 DEF Unanswered, Never
<1>7. ASSUME NEW t, Closable(t, hh, now, Thresholds), ~Unanswered(h)
      PROVE  Closable(t, h, now, Thresholds)
  <2>1. Followups(hh) # {} /\ now - Latest(Followups(hh)) >= Thresholds.silence
    BY <1>7 DEF Closable, DaysSince
  <2>2. Latest(Followups(hh)) \in 0..now /\ \A f \in Followups(hh) : f.when <= Latest(Followups(hh))
    BY <1>3, <2>1, LatestIn
  <2>3. Latest(Followups(hh)) < now
    BY <2>1, <2>2, ThresholdTypes
  <2>4. \A f \in Followups(hh) : f \in h
    BY <1>3, <2>2, <2>3
  <2>5. /\ Followups(h) = {f \in h : Person(f.user) /\ f.field = "comments" /\ f.hint}
        /\ Followups(hh) = {f \in hh : Person(f.user) /\ f.field = "comments" /\ f.hint}
    BY WhoActs
  <2>6. Followups(hh) = Followups(h)
    BY <2>4, <2>5
  <2>7. Unanswered(h) = Unanswered(hh)
    BY <1>6, <1>7 DEF Unanswered
  <2> QED BY <1>7, <2>6, <2>7 DEF Closable
<1> QED BY <1>5, <1>6, <1>7

\* So work of the day makes the score no higher.
LEMMA WorkScoresNoHigher ==
  ASSUME NEW now \in Nat, NEW hh, Written(hh, now), NEW h, h \subseteq hh,
         \A e \in hh \ h : Person(e.user) /\ e.field \in AgentActionFields /\ e.when = now,
         NEW t \in Ticket, t.opened = 0, NEW kb \in KbStates, NEW kc \in KbStates,
         NEW sla \in SlaReading, NEW w \in Weights
  PROVE  Score(t, Signals(t, hh, sla, kc, now, Thresholds), w, Thresholds).score
           <= Score(t, Signals(t, h, sla, kb, now, Thresholds), w, Thresholds).score
<1> DEFINE s == Signals(t, hh, sla, kc, now, Thresholds)
           r == Signals(t, h, sla, kb, now, Thresholds)
<1>1. Written(h, now)
  BY FS_Subset DEF Written
<1>2. s \in SignalSet /\ r \in SignalSet /\ s.idle <= s.age
  BY <1>1, SignalsType
<1>3. /\ s.age = now /\ s.cleared = (Dependency(t) = "closed") /\ s.overrun = (now > Thresholds.expected)
      /\ s.sla = sla /\ s.unanswered = Unanswered(hh) /\ s.untouched = (LastAgentAction(hh) = Never)
      /\ s.closable = Closable(t, hh, now, Thresholds)
      /\ s.idle = IF LastAgentAction(hh) = Never THEN now ELSE now - LastAgentAction(hh)
  BY DEF Signals, DaysSince
<1>4. /\ r.age = now /\ r.cleared = (Dependency(t) = "closed") /\ r.overrun = (now > Thresholds.expected)
      /\ r.sla = sla /\ r.unanswered = Unanswered(h) /\ r.untouched = (LastAgentAction(h) = Never)
      /\ r.closable = Closable(t, h, now, Thresholds)
      /\ r.idle = IF LastAgentAction(h) = Never THEN now ELSE now - LastAgentAction(h)
  BY DEF Signals, DaysSince
<1>0. /\ s.idle \in Nat /\ r.idle \in Nat /\ s.age \in Nat /\ r.age \in Nat
      /\ s.unanswered \in BOOLEAN /\ r.unanswered \in BOOLEAN /\ s.closable \in BOOLEAN
      /\ r.closable \in BOOLEAN /\ s.untouched \in BOOLEAN /\ r.untouched \in BOOLEAN
      /\ s.cleared \in BOOLEAN /\ s.sla.vendor \in BOOLEAN
  BY <1>2 DEF SignalSet, SlaReading
<1> HIDE DEF s, r
<1>5. SlaRisk(s, Thresholds) <= SlaRisk(r, Thresholds)
  <2>1. NoBetter(s.sla, r.sla)
    BY <1>3, <1>4 DEF NoBetter, SlaReading
  <2> QED BY <1>2, <2>1, SlaRiskGrows
<1>6. /\ s.idle <= r.idle /\ (s.untouched => r.untouched) /\ (s.unanswered => r.unanswered)
      /\ (s.closable => r.closable \/ r.unanswered) /\ (s.closable => ~s.unanswered)
  <2>1. CASE h = hh
    BY <1>3, <1>4, <2>1, <1>0 DEF Closable
  <2>2. CASE h # hh
    <3>1. /\ LastAgentAction(hh) = now /\ ~Unanswered(hh)
          /\ Closable(t, hh, now, Thresholds) => Closable(t, h, now, Thresholds) \/ Unanswered(h)
      BY <2>2, AfterWork
    <3>2. now # Never
      BY DEF Never
    <3>3. s.idle = 0
      BY <1>3, <3>1, <3>2
    <3> QED BY <1>0, <1>3, <1>4, <3>1, <3>2, <3>3
  <2> QED BY <2>1, <2>2
<1>7. Delay(s) <= Delay(r)
  BY <1>0, <1>3, <1>4, <1>6 DEF Delay, If
<1>8. \A c \in Component : Raw(t, s, Thresholds)[c] <= Raw(t, r, Thresholds)[c]
  <2>1. s.age <= r.age /\ (s.overrun => r.overrun)
    BY <1>3, <1>4
  <2> QED BY <1>2, <1>5, <1>6, <1>7, <2>1, RawGrows
<1>9. Score(t, s, w, Thresholds).score <= Score(t, r, w, Thresholds).score
  BY <1>2, <1>8, ScoreGrows
<1> QED BY <1>9 DEF s, r

\* Who is a candidate for closure was asked often enough, long enough ago.
LEMMA ClosableIsSilent ==
  ASSUME NEW now \in Nat, NEW h, Written(h, now), NEW t, Closable(t, h, now, Thresholds)
  PROVE  LET people == {e \in h : Person(e.user)}
             chases == {e \in people : e.field = "comments" /\ e.hint}
         IN  /\ Cardinality(chases) >= Thresholds.followups
             /\ \A e \in chases : e.when + Thresholds.silence <= now
             /\ \A e \in h :
                   /\ e.user = Caller /\ e.user \notin SystemAccounts \cup {Nobody}
                   /\ e.field \in AgentActionFields
                   => \E w \in people : w.when >= e.when
<1> DEFINE people == {e \in h : Person(e.user)}
           chases == {e \in people : e.field = "comments" /\ e.hint}
           chased == Latest(Followups(h))
           agents == By(Actions(h), "AGENT")
           callers == By(Actions(h), "CALLER")
<1>1. /\ agents = {e \in h : Person(e.user) /\ e.field \in AgentActionFields}
      /\ callers = {e \in h : /\ e.user = Caller /\ e.user \notin SystemAccounts \cup {Nobody}
                              /\ e.field \in AgentActionFields}
      /\ Followups(h) = {e \in h : Person(e.user) /\ e.field = "comments" /\ e.hint}
  BY WhoActs
<1>2. chases = Followups(h)
  BY <1>1
<1>3. /\ Cardinality(Followups(h)) >= Thresholds.followups /\ ~Unanswered(h) /\ Followups(h) # {}
      /\ now - chased >= Thresholds.silence
  BY DEF Closable, DaysSince
<1>4. Followups(h) \in SUBSET h /\ agents \in SUBSET h /\ callers \in SUBSET h
  BY Subhistories
<1>5. ASSUME NEW e \in chases
      PROVE  e.when + Thresholds.silence <= now
  <2>1. e \in Followups(h)
    BY <1>2, <1>5
  <2>2. chased \in 0..now /\ e.when <= chased
    BY <1>4, <2>1, LatestIn
  <2>3. e.when \in Nat
    BY <1>4, <2>1 DEF Written
  <2> HIDE DEF chased
  <2> QED BY <1>3, <2>2, <2>3, ThresholdTypes
<1>6. ASSUME NEW e \in h, e.user = Caller, e.user \notin SystemAccounts \cup {Nobody},
             e.field \in AgentActionFields
      PROVE  \E w \in people : w.when >= e.when
  <2>1. e \in callers
    BY <1>1, <1>6
  <2>2. Latest(callers) \in 0..now /\ e.when <= Latest(callers)
    BY <1>4, <2>1, LatestIn
  <2>3. Latest(callers) <= Latest(agents)
    <3>1. \/ Latest(callers) = Never
          \/ ~(Latest(callers) > Latest(agents))
      BY <1>3 DEF Unanswered, LastCallerActivity, LastAgentAction
    <3>2. Latest(agents) \in 0..now \/ Latest(agents) = Never
      BY ActivityType DEF LastAgentAction
    <3> QED BY <2>2, <3>1, <3>2 DEF Never
  <2>4. agents # {}
    BY <1>4, <2>2, <2>3, LatestIn DEF Never
  <2>5. PICK w \in agents : Latest(agents) = w.when
    BY <1>4, <2>4, LatestIn
  <2>6. w \in people
    BY <1>1
  <2>7. w.when \in Nat /\ e.when \in Nat
    BY <1>4 DEF Written
  <2> QED BY <2>2, <2>3, <2>5, <2>6, <2>7
<1> QED BY <1>2, <1>3, <1>5, <1>6

-----------------------------------------------------------------------------

\* While a resolution SLA is live, the summary reads the live ones and no other.
LEMMA InForce ==
  ASSUME NEW recs \in Seq(Record)
  PROVE  LET live == {r \in {recs[i] : i \in DOMAIN recs} :
                         r.kind = "RESOLUTION" /\ r.stage \in LiveStages}
         IN  live # {} =>
               /\ Summarise(Readings(recs)).breached <=> \E r \in live : r.elapsed >= r.days
               /\ \E r \in live : Summarise(Readings(recs)).left = 1440 * (r.days - r.elapsed)
<1> DEFINE live == {r \in {recs[i] : i \in DOMAIN recs} :
                       r.kind = "RESOLUTION" /\ r.stage \in LiveStages}
           S == OfKinds(recs, {"RESOLUTION"}) \cap LiveOf(recs)
           sla == Summarise(Readings(recs))
           w == Worst(Readings(recs))
<1>1. live = {recs[i] : i \in S}
  BY DEF OfKinds, LiveOf
<1> SUFFICES ASSUME S # {}
             PROVE  /\ sla.breached <=> \E r \in live : r.elapsed >= r.days
                    /\ \E r \in live : sla.left = 1440 * (r.days - r.elapsed)
  BY <1>1
<1>2. Watched(recs) = S
  BY LiveIsWatched
<1>3. Summed(recs, sla, w)
  BY SummaryParts
<1>4. /\ sla.breached <=> Overdue(recs, S)
      /\ sla.left = Reading(recs[w]).left /\ w \in S
  BY <1>2, <1>3 DEF Summed
<1>5. Reading(recs[w]).left = 1440 * (recs[w].days - recs[w].elapsed)
  <2>1. recs[w] \in Record
    BY <1>4 DEF OfKinds
  <2> QED BY <2>1, ReadingType
<1> HIDE DEF S, sla, w, live
<1> QED BY <1>1, <1>4, <1>5 DEF Overdue

-----------------------------------------------------------------------------
(* Weights.                                                                 *)

LEMMA ComponentsAreFinite == IsFiniteSet(Component)
<1>1. IsFiniteSet({"sla_risk"})
  BY FS_Singleton
<1>2. IsFiniteSet({"sla_risk"} \cup {"inactivity_duration"})
  BY <1>1, FS_AddElement
<1>3. IsFiniteSet({"sla_risk"} \cup {"inactivity_duration"} \cup {"ticket_age"})
  BY <1>2, FS_AddElement
<1>4. IsFiniteSet({"sla_risk"} \cup {"inactivity_duration"} \cup {"ticket_age"}
                  \cup {"business_priority"})
  BY <1>3, FS_AddElement
<1>5. IsFiniteSet({"sla_risk"} \cup {"inactivity_duration"} \cup {"ticket_age"}
                  \cup {"business_priority"} \cup {"reassignment_activity"})
  BY <1>4, FS_AddElement
<1>6. IsFiniteSet({"sla_risk"} \cup {"inactivity_duration"} \cup {"ticket_age"}
                  \cup {"business_priority"} \cup {"reassignment_activity"}
                  \cup {"unactioned_delay"})
  BY <1>5, FS_AddElement
<1>7. IsFiniteSet({"sla_risk"} \cup {"inactivity_duration"} \cup {"ticket_age"}
                  \cup {"business_priority"} \cup {"reassignment_activity"}
                  \cup {"unactioned_delay"} \cup {"duration_overrun"})
  BY <1>6, FS_AddElement
<1> QED BY <1>7 DEF Component

\* The components of a form with two of them.
LEMMA PairIs ==
  ASSUME NEW D \in SUBSET Component, Cardinality(D) = 2
  PROVE  \E a, b \in D : D = {a, b}
<1>1. IsFiniteSet(D)
  BY ComponentsAreFinite, FS_Subset
<1>2. D # {}
  BY FS_EmptySet
<1>3. PICK a \in D : TRUE
  BY <1>2
<1>4. Cardinality(D \ {a}) = 1 /\ IsFiniteSet(D \ {a})
  BY <1>1, FS_RemoveElement
<1>5. \E b : D \ {a} = {b}
  BY <1>4, FS_Singleton
<1> QED BY <1>5

DefaultRow(c) == [enabled |-> TRUE, weight |-> DefaultWeights[c]]

\* What the table of weights can hold for a component: the default, or what somebody saved.
Saved(table) ==
  /\ table \in [Component -> [enabled : BOOLEAN, weight : 0..100]]
  /\ \A c \in Component : table[c] = DefaultRow(c) \/ \E f \in Forms : c \in DOMAIN f /\ table[c] = f[c]

\* The weights a pass may score with.
MeantAll(w) ==
  /\ w \in Weights
  /\ \A c \in Component : \E m \in Meant : w[c] = m[c]
  /\ \A f \in Forms : Forms = {f} /\ Cardinality(DOMAIN f) = 2 => w \in Meant

LEMMA DefaultType == DefaultWeights \in Weights
<1>1. DefaultWeights \in [Component -> 0..100]
  BY DEF DefaultWeights, Component
<1>2. Total(DefaultWeights) = 100
  BY DEF DefaultWeights, Total
<1> QED BY <1>1, <1>2 DEF Weights

\* What a form can hold.
LEMMA FormType ==
  ASSUME NEW f \in Forms
  PROVE  /\ DOMAIN f \in SUBSET Component
         /\ \A c \in DOMAIN f : f[c] \in [enabled : BOOLEAN, weight : 0..100]
BY FormsAssumption

\* A pass that reads the table at any moment of any save.
LEMMA LoadedIsMeant ==
  ASSUME NEW table, Saved(table)
  PROVE  MeantAll(LoadWeights(table))
<1> DEFINE enabled == {c \in Component : table[c].enabled}
           merged == [c \in Component |-> IF c \in enabled THEN table[c].weight ELSE DefaultWeights[c]]
           Form(f) == [c \in Component |-> IF c \in DOMAIN f THEN f[c].weight ELSE DefaultWeights[c]]
<1>1. LoadWeights(table) = IF enabled = {} \/ Total(merged) # 100 THEN DefaultWeights ELSE merged
  BY DEF LoadWeights
<1>2. DefaultWeights \in Meant /\ \A f \in Forms : Form(f) \in Meant
  BY DEF Meant
<1>3. merged \in [Component -> 0..100]
  BY DefaultType DEF Saved, Weights
<1>4. \A c \in Component : merged[c] = DefaultWeights[c]
                           \/ \E f \in Forms : c \in DOMAIN f /\ merged[c] = f[c].weight
  BY DEF Saved, DefaultRow
<1>5. \A c \in Component : \E m \in Meant : merged[c] = m[c]
  BY <1>2, <1>4
<1>6. ASSUME NEW f \in Forms, Forms = {f}, Cardinality(DOMAIN f) = 2, Total(merged) = 100
      PROVE  merged \in Meant
  <2>1. PICK a, b \in DOMAIN f : DOMAIN f = {a, b}
    BY <1>6, FormType, PairIs
  <2>2. \A c \in Component :
          c \notin {a, b} => merged[c] = DefaultWeights[c] /\ Form(f)[c] = DefaultWeights[c]
    BY <1>4, <1>6, <2>1
  <2>3. /\ a \in Component /\ b \in Component
        /\ merged[a] = DefaultWeights[a] \/ merged[a] = Form(f)[a]
        /\ merged[b] = DefaultWeights[b] \/ merged[b] = Form(f)[b]
    BY <1>4, <1>6, <2>1, FormType
  <2>4. /\ merged \in [Component -> Nat] /\ DefaultWeights \in [Component -> Nat]
        /\ Total(DefaultWeights) = Total(merged)
    BY <1>3, <1>6, DefaultType DEF Weights
  <2>5. /\ Form(f) = [c \in Component |-> Form(f)[c]]
        /\ DefaultWeights = [c \in Component |-> DefaultWeights[c]]
        /\ merged = [c \in Component |-> merged[c]]
    BY <2>4
  <2>6. Form(f) \in Meant
    BY <1>2
  <2> DEFINE g == Form(f)
             m == merged
             d == DefaultWeights
  <2>7. /\ m \in [Component -> Nat] /\ d \in [Component -> Nat] /\ Total(d) = Total(m)
        /\ \A c \in Component : c \notin {a, b} => m[c] = d[c] /\ g[c] = d[c]
        /\ a \in Component /\ b \in Component
        /\ m[a] = d[a] \/ m[a] = g[a]
        /\ m[b] = d[b] \/ m[b] = g[b]
        /\ g = [c \in Component |-> g[c]] /\ d = [c \in Component |-> d[c]] /\ m = [c \in Component |-> m[c]]
        /\ g \in Meant /\ d \in Meant
    BY <1>2, <2>2, <2>3, <2>4, <2>5, <2>6
  <2> HIDE DEF g, m, d
  <2>8. CASE m[a] = d[a]
    <3>1. \A c \in Component \ {b} : d[c] = m[c]
      BY <2>7, <2>8
    <3>2. d = m
      BY <2>7, <3>1, OneDiffers
    <3> QED BY <2>7, <3>2 DEF m
  <2>9. CASE m[b] = d[b]
    <3>1. \A c \in Component \ {a} : d[c] = m[c]
      BY <2>7, <2>9
    <3>2. d = m
      BY <2>7, <3>1, OneDiffers
    <3> QED BY <2>7, <3>2 DEF m
  <2>10. CASE m[a] = g[a] /\ m[b] = g[b]
    <3>1. \A c \in Component : g[c] = m[c]
      BY <2>7, <2>10
    <3>2. g = m
      BY <2>7, <3>1
    <3> QED BY <2>7, <3>2 DEF m
  <2> QED BY <2>7, <2>8, <2>9, <2>10
<1> HIDE DEF enabled, merged
<1>7. CASE enabled = {} \/ Total(merged) # 100
  BY <1>1, <1>2, <1>7, DefaultType DEF MeantAll
<1>8. CASE ~(enabled = {} \/ Total(merged) # 100)
  BY <1>1, <1>3, <1>5, <1>6, <1>8 DEF MeantAll, Weights
<1> QED BY <1>7, <1>8

-----------------------------------------------------------------------------
(* What ServiceNow does to the records.                                     *)

\* Records have grown out of themselves, and out of whatever they had grown out of before an
\* action.
LEMMA GrownOfSelf ==
  ASSUME NEW recs \in Seq(Record)
  PROVE  Grown(recs, recs)
<1>0. \A i \in DOMAIN recs : recs[i] \in Record
  OBVIOUS
<1>1. \A i \in DOMAIN recs : recs[i].elapsed \in Nat
  BY <1>0 DEF Record
<1> QED BY <1>1 DEF Grown

LEMMA AppendedRecords ==
  ASSUME NEW later \in Seq(Record), NEW r \in Record
  PROVE  /\ Append(later, r) \in Seq(Record)
         /\ DOMAIN Append(later, r) = DOMAIN later \cup {Len(later) + 1}
         /\ \A i \in DOMAIN later : Append(later, r)[i] = later[i]
         /\ Append(later, r)[Len(later) + 1] = r
         /\ \A recs \in Seq(Record) : Grown(recs, later) => Grown(recs, Append(later, r))
<1>1. /\ Append(later, r) \in Seq(Record) /\ Len(Append(later, r)) = Len(later) + 1
      /\ \A i \in 1..Len(later) : Append(later, r)[i] = later[i]
      /\ Append(later, r)[Len(later) + 1] = r
  OBVIOUS
<1>2. DOMAIN later = 1..Len(later) /\ Len(later) \in Nat
  OBVIOUS
<1>3. DOMAIN Append(later, r) = 1..(Len(later) + 1)
  BY <1>1
<1>4. ASSUME NEW recs \in Seq(Record), Grown(recs, later)
      PROVE  Grown(recs, Append(later, r))
  <2> DEFINE new == Append(later, r)
  <2>1. DOMAIN recs \subseteq DOMAIN later /\ Len(recs) <= Len(later) + 1
    BY <1>2, <1>4 DEF Grown
  <2>2. \A i \in DOMAIN recs : new[i] = later[i]
    BY <1>1, <1>2, <2>1
  <2>3. Len(recs) <= Len(new)
    BY <1>1, <2>1
  <2> HIDE DEF new
  <2>4. Grown(recs, new)
    BY <1>4, <2>2, <2>3 DEF Grown
  <2> QED BY <2>4 DEF new
<1> QED BY <1>1, <1>2, <1>3, <1>4

LEMMA MovedRecords ==
  ASSUME NEW later \in Seq(Record), NEW from \in SUBSET LiveStages,
         NEW to \in LiveStages \cup {"cancelled"}
  PROVE  /\ Moved(later, from, to) \in Seq(Record)
         /\ DOMAIN Moved(later, from, to) = DOMAIN later
         /\ \A i \in DOMAIN later :
              /\ later[i].stage \in from => Moved(later, from, to)[i].stage = to
              /\ later[i].stage \notin from => Moved(later, from, to)[i].stage = later[i].stage
         /\ \A recs \in Seq(Record) : Grown(recs, later) => Grown(recs, Moved(later, from, to))
<1> DEFINE new == Moved(later, from, to)
<1>1. DOMAIN later = 1..Len(later) /\ Len(later) \in Nat
  OBVIOUS
<1>2. /\ DOMAIN new = DOMAIN later
      /\ \A i \in DOMAIN later : new[i] = IF later[i].stage \in from THEN [later[i] EXCEPT !.stage = to]
                                          ELSE later[i]
      /\ new = [i \in DOMAIN later |-> new[i]]
  BY DEF Moved
<1> HIDE DEF new
<1>3. \A i \in DOMAIN later : later[i] \in Record
  OBVIOUS
<1>4. \A i \in DOMAIN later :
         /\ new[i] \in Record /\ new[i].kind = later[i].kind /\ new[i].days = later[i].days
         /\ new[i].elapsed = later[i].elapsed
         /\ new[i].stage = IF later[i].stage \in from THEN to ELSE later[i].stage
         /\ later[i].stage = "cancelled" => new[i] = later[i]
  BY <1>2, <1>3 DEF Record, LiveStages
<1>5. new \in Seq(Record) /\ Len(new) = Len(later)
  BY <1>1, <1>2, <1>4
<1>6. ASSUME NEW recs \in Seq(Record), Grown(recs, later)
      PROVE  Grown(recs, new)
  <2>1. DOMAIN recs \subseteq DOMAIN later
    BY <1>1, <1>6 DEF Grown
  <2>2. \A i \in DOMAIN recs : /\ new[i].stage # "cancelled" => later[i].stage # "cancelled"
                               /\ recs[i].stage = "cancelled" => new[i] = later[i]
    <3>1. \A i \in DOMAIN recs : recs[i].stage = "cancelled" => later[i].stage = "cancelled"
      BY <1>6 DEF Grown
    <3> QED BY <1>4, <2>1, <3>1
  <2>3. Len(recs) <= Len(new)
    BY <1>5, <1>6 DEF Grown
  <2>4. \A i \in DOMAIN recs :
          /\ new[i].kind = recs[i].kind /\ new[i].days = recs[i].days
          /\ new[i].elapsed >= recs[i].elapsed
          /\ recs[i].stage = "cancelled" => new[i] = recs[i]
    BY <1>4, <1>6, <2>1, <2>2 DEF Grown
  <2>5. \A i, j \in DOMAIN recs :
          new[i].stage # "cancelled" /\ new[j].stage # "cancelled" =>
            new[i].elapsed - recs[i].elapsed = new[j].elapsed - recs[j].elapsed
    BY <1>4, <1>6, <2>1, <2>2 DEF Grown
  <2> QED BY <2>3, <2>4, <2>5 DEF Grown
<1> QED BY <1>2, <1>4, <1>5, <1>6 DEF new

\* A day of a record that runs, or is paused with all the others, or was cancelled.
LEMMA ElapsedRecord ==
  ASSUME NEW r \in Record, NEW live \in LiveStages, r.stage \in {live, "cancelled"},
         NEW step, step = IF live = "in_progress" THEN 1 ELSE 0
  PROVE  /\ Elapsed(r) \in Record /\ Elapsed(r).kind = r.kind /\ Elapsed(r).days = r.days
         /\ Elapsed(r).stage = r.stage /\ Elapsed(r).elapsed >= r.elapsed
         /\ r.stage = "cancelled" => Elapsed(r) = r
         /\ r.stage # "cancelled" => Elapsed(r).elapsed = r.elapsed + step
<1>1. r.elapsed \in Nat /\ r.elapsed + 1 \in Nat
  BY DEF Record
<1>2. CASE r.stage = "in_progress"
  <2> DEFINE e == [r EXCEPT !.elapsed = r.elapsed + 1]
  <2>1. Elapsed(r) = e
    BY <1>2 DEF Elapsed
  <2>2. step = 1
    BY <1>2
  <2>3. e \in Record
    BY <1>1 DEF Record
  <2>4. e.kind = r.kind /\ e.days = r.days /\ e.stage = r.stage /\ e.elapsed = r.elapsed + 1
    BY DEF Record
  <2> HIDE DEF e
  <2> QED BY <1>1, <1>2, <2>1, <2>2, <2>3, <2>4
<1>3. CASE r.stage # "in_progress"
  <2>1. Elapsed(r) = r
    BY <1>3 DEF Elapsed
  <2>2. r.stage # "cancelled" => step = 0
    BY <1>3
  <2> QED BY <1>1, <2>1, <2>2
<1> QED BY <1>2, <1>3

\* The clocks run together when all that is not cancelled is at the same stage.
LEMMA ElapsedRecords ==
  ASSUME NEW later \in Seq(Record), NEW live \in LiveStages,
         \A i \in DOMAIN later : later[i].stage \in {live, "cancelled"}
  PROVE  /\ [i \in DOMAIN later |-> Elapsed(later[i])] \in Seq(Record)
         /\ \A i \in DOMAIN later : Elapsed(later[i]).stage = later[i].stage
         /\ \A recs \in Seq(Record) :
              Grown(recs, later) => Grown(recs, [i \in DOMAIN later |-> Elapsed(later[i])])
<1> DEFINE new == [i \in DOMAIN later |-> Elapsed(later[i])]
           step == IF live = "in_progress" THEN 1 ELSE 0
<1>1. DOMAIN later = 1..Len(later) /\ Len(later) \in Nat
  OBVIOUS
<1>2. /\ DOMAIN new = DOMAIN later
      /\ \A i \in DOMAIN later : new[i] = Elapsed(later[i])
      /\ new = [i \in DOMAIN later |-> new[i]]
  OBVIOUS
<1>3. \A i \in DOMAIN later : later[i] \in Record
  OBVIOUS
<1>4. step \in Nat
  OBVIOUS
<1>5. \A i \in DOMAIN later :
         /\ Elapsed(later[i]) \in Record /\ Elapsed(later[i]).kind = later[i].kind
         /\ Elapsed(later[i]).days = later[i].days
         /\ Elapsed(later[i]).stage = later[i].stage
         /\ Elapsed(later[i]).elapsed >= later[i].elapsed
         /\ later[i].stage = "cancelled" => Elapsed(later[i]) = later[i]
         /\ later[i].stage # "cancelled" => Elapsed(later[i]).elapsed = later[i].elapsed + step
  <2>1. \A i \in DOMAIN later : later[i] \in Record /\ later[i].stage \in {live, "cancelled"}
    BY <1>3
  <2> QED BY <2>1, ElapsedRecord
<1> HIDE DEF new, step
<1>6. new \in Seq(Record) /\ Len(new) = Len(later)
  BY <1>1, <1>2, <1>5
<1>7. ASSUME NEW recs \in Seq(Record), Grown(recs, later)
      PROVE  Grown(recs, new)
  <2>1. DOMAIN recs \subseteq DOMAIN later
    BY <1>1, <1>7 DEF Grown
  <2>2. \A i \in DOMAIN recs : recs[i].elapsed \in Nat /\ later[i].elapsed \in Nat
    <3>1. \A i \in DOMAIN recs : recs[i] \in Record
      OBVIOUS
    <3> QED BY <1>3, <2>1, <3>1 DEF Record
  <2>3. Len(recs) <= Len(new)
    BY <1>6, <1>7 DEF Grown
  <2>4. \A i \in DOMAIN recs :
          /\ new[i].kind = recs[i].kind /\ new[i].days = recs[i].days
          /\ new[i].elapsed >= recs[i].elapsed
          /\ recs[i].stage = "cancelled" => new[i] = recs[i]
    <3> TAKE i \in DOMAIN recs
    <3>1. new[i] = Elapsed(later[i]) /\ i \in DOMAIN later
      BY <1>2, <2>1
    <3>2. later[i].kind = recs[i].kind /\ later[i].days = recs[i].days
          /\ later[i].elapsed >= recs[i].elapsed
          /\ (recs[i].stage = "cancelled" => later[i] = recs[i])
      BY <1>7 DEF Grown
    <3> DEFINE e == Elapsed(later[i])
    <3>3. /\ e.kind = later[i].kind /\ e.days = later[i].days /\ e.elapsed >= later[i].elapsed
          /\ e \in Record /\ (later[i].stage = "cancelled" => e = later[i])
      BY <1>5, <3>1
    <3>4. e.elapsed \in Nat
      BY <3>3 DEF Record
    <3> HIDE DEF e
    <3>5. e.elapsed >= recs[i].elapsed
      BY <2>2, <3>2, <3>3, <3>4
    <3>6. recs[i].stage = "cancelled" => e = recs[i]
      BY <3>2, <3>3
    <3>7. new[i] = e
      BY <3>1 DEF e
    <3> QED BY <3>2, <3>3, <3>5, <3>6, <3>7
  <2>5. ASSUME NEW i \in DOMAIN recs, NEW j \in DOMAIN recs,
               new[i].stage # "cancelled", new[j].stage # "cancelled"
        PROVE  new[i].elapsed - recs[i].elapsed = new[j].elapsed - recs[j].elapsed
    <3>1. new[i].elapsed = later[i].elapsed + step /\ new[j].elapsed = later[j].elapsed + step
      BY <1>2, <1>5, <2>1, <2>5
    <3>2. later[i].elapsed - recs[i].elapsed = later[j].elapsed - recs[j].elapsed
      BY <1>2, <1>5, <1>7, <2>1, <2>5 DEF Grown
    <3> DEFINE a == later[i].elapsed
               b == later[j].elapsed
               c == recs[i].elapsed
               d == recs[j].elapsed
    <3>3. a \in Nat /\ b \in Nat /\ c \in Nat /\ d \in Nat /\ a - c = b - d
      BY <2>2, <3>2
    <3> HIDE DEF a, b, c, d
    <3>4. (a + step) - c = (b + step) - d
      BY <1>4, <3>3
    <3> QED BY <3>1, <3>4 DEF a, b, c, d
  <2> QED BY <2>3, <2>4, <2>5 DEF Grown
<1> QED BY <1>2, <1>5, <1>6, <1>7 DEF new

-----------------------------------------------------------------------------
(* The inductive invariant.                                                 *)

Listed(t) == t \in Ticket /\ t.opened = 0

LiveStage(t) == IF t.hold = "" THEN "in_progress" ELSE "paused"

\* All that is not cancelled is at the stage of the incident, so that the clocks run together.
InStep(recs, t) ==
  recs \in Seq(Record) /\ \A i \in DOMAIN recs : recs[i].stage \in {LiveStage(t), "cancelled"}

FormInv ==
  \A c \in DOMAIN form : c \in Component /\ \E f \in Forms : c \in DOMAIN f /\ form[c] = f[c]

\* What was stored is what the definitions make of what was read, and what was read is an
\* earlier state of the incident.
Kept(x, now, h, recs) ==
  /\ x.at = "stored" /\ Listed(x.ticket) /\ x.kb \in KbStates /\ MeantAll(x.weights)
  /\ x.day \in 0..now /\ Written(x.history, x.day) /\ x.history \subseteq h
  /\ \A e \in h \ x.history : e.when >= x.day
  /\ x.records \in Seq(Record) /\ Grown(x.records, recs)
  /\ x.signals = Signals(x.ticket, x.history, Summarise(Readings(x.records)), x.kb, x.day, Thresholds)
  /\ x.flags = RiskFlags(x.signals, Thresholds)
  /\ x.scored = Score(x.ticket, x.signals, x.weights, Thresholds)

StoryInv   == day \in 0..MaxDay /\ Listed(ticket) /\ Written(history, day)
RecordsInv == InStep(records, ticket)
WeightsInv == Saved(rows) /\ FormInv
PassInv    == pass # NoPass => Listed(pass.ticket) /\ MeantAll(pass.weights)
SeenInv    == seen # Rest => Kept(seen, day, history, records)

TriageInv == StoryInv /\ RecordsInv /\ WeightsInv /\ PassInv /\ SeenInv

\* What a pass stored stays true of it while the story goes on.
LEMMA KeptOn ==
  ASSUME NEW x, NEW now \in Nat, NEW then \in Nat, now <= then, NEW h, NEW hh, NEW recs, NEW later,
         Kept(x, now, h, recs), h \subseteq hh, \A e \in hh \ h : e.when \in Nat /\ e.when >= now,
         \A r \in Seq(Record) : Grown(r, recs) => Grown(r, later)
  PROVE  Kept(x, then, hh, later)
<1>1. x.day \in 0..then /\ x.day <= now /\ x.day \in Nat
  BY DEF Kept
<1>2. \A e \in hh \ x.history : e.when >= x.day
  BY <1>1 DEF Kept
<1>3. x.history \subseteq hh /\ Grown(x.records, later)
  BY DEF Kept
<1> QED BY <1>1, <1>2, <1>3 DEF Kept

LEMMA WrittenOn ==
  ASSUME NEW now \in Nat, NEW h, Written(h, now), NEW e, e.when = now
  PROVE  Written(h \cup {e}, now)
<1>1. IsFiniteSet(h \cup {e})
  BY FS_AddElement DEF Written
<1> QED BY <1>1 DEF Written

\* A record that attaches is at the stage of the others.
LEMMA AttachedType ==
  ASSUME StoryInv, NEW kind \in Kind, NEW days \in Nat \ {0}
  PROVE  Attached(kind, days) \in Record /\ Attached(kind, days).stage = LiveStage(ticket)
<1>1. day - ticket.opened \in Nat
  BY StoryAssumption DEF StoryInv, Listed
<1> QED BY <1>1 DEF Attached, Record, LiveStage, LiveStages

LEMMA LastDay == MaxDay \in Nat
BY StoryAssumption

LEMMA NewTicket ==
  ASSUME NEW p \in DOMAIN Targets
  PROVE  [opened |-> 0, priority |-> p, hold |-> "", change |-> "none",
          problem |-> "none", moves |-> 0, reopens |-> 0] \in Ticket
BY LastDay DEF Ticket, HoldReason

\* The invariant holds at first ...
LEMMA InitHolds == Init => TriageInv
<1> SUFFICES ASSUME Init PROVE TriageInv
  OBVIOUS
<1>1. StoryInv
  <2>1. ticket \in Ticket /\ ticket.opened = 0
    <3>2. ticket \in [opened : {0}, priority : DOMAIN Targets, hold : {""}, change : {"none"},
                     problem : {"none"}, moves : {0}, reopens : {0}]
      BY DEF Init
    <3>3. PICK p \in DOMAIN Targets :
             ticket = [opened |-> 0, priority |-> p, hold |-> "", change |-> "none",
                       problem |-> "none", moves |-> 0, reopens |-> 0]
      BY <3>2
    <3>4. ticket.opened = 0
      BY <3>3
    <3> QED BY <3>3, <3>4, NewTicket
  <2>2. Written(history, day)
    BY FS_EmptySet DEF Init, Written
  <2>3. day \in 0..MaxDay
    <3>1. day = 0
      BY DEF Init
    <3> QED BY <3>1, LastDay
  <2> QED BY <2>1, <2>2, <2>3 DEF StoryInv, Listed
<1>2. RecordsInv
  <2> DEFINE first == [kind |-> "RESOLUTION", days |-> Targets[ticket.priority], elapsed |-> 0,
                       stage |-> "in_progress"]
  <2>1. Targets[ticket.priority] \in Nat \ {0}
    BY <1>1, SlaAssumption DEF StoryInv, Listed, Ticket
  <2>2. first \in Record
    BY <2>1 DEF Record, Kind, LiveStages
  <2>3. records = <<first>> /\ LiveStage(ticket) = "in_progress" /\ first.stage = "in_progress"
    BY DEF Init, LiveStage
  <2> HIDE DEF first
  <2> QED BY <2>2, <2>3 DEF RecordsInv, InStep
<1>3. WeightsInv
  <2>1. \A c \in Component : DefaultWeights[c] \in 0..100
    BY DefaultType DEF Weights
  <2>2. Saved(rows)
    BY <2>1 DEF Init, Saved, DefaultRow
  <2>3. DOMAIN form = {}
    <3>1. form = << >>
      BY DEF Init
    <3> QED BY <3>1
  <2> QED BY <2>2, <2>3 DEF WeightsInv, FormInv
<1>4. PassInv /\ SeenInv
  BY DEF Init, PassInv, SeenInv
<1> QED BY <1>1, <1>2, <1>3, <1>4 DEF TriageInv

\* What somebody does to the incident, of which the passes and the weights know nothing.
LEMMA StoryGoesOn ==
  ASSUME TriageInv, day' \in 0..MaxDay, day <= day', Listed(ticket'), Written(history', day'),
         InStep(records', ticket'), history \subseteq history',
         \A e \in history' \ history : e.when = day,
         \A r \in Seq(Record) : Grown(r, records) => Grown(r, records'),
         UNCHANGED <<rows, form, pass, seen>>
  PROVE  TriageInv'
<1>1. StoryInv'
  BY DEF StoryInv
<1>2. RecordsInv'
  BY DEF RecordsInv
<1>3. WeightsInv' /\ PassInv'
  BY DEF TriageInv, WeightsInv, FormInv, PassInv
<1>4. SeenInv'
  <2> SUFFICES ASSUME seen # Rest PROVE Kept(seen, day', history', records')
    BY DEF SeenInv
  <2>1. Kept(seen, day, history, records)
    BY DEF TriageInv, SeenInv
  <2>2. day \in Nat /\ day' \in Nat
    BY StoryAssumption DEF TriageInv, StoryInv
  <2>3. \A e \in history' \ history : e.when \in Nat /\ e.when >= day
    BY <2>2
  <2> QED BY <2>1, <2>2, <2>3, KeptOn
<1> QED BY <1>1, <1>2, <1>3, <1>4 DEF TriageInv

\* ... and every action keeps it.
LEMMA WriteHolds == TriageInv /\ Write => TriageInv'
<1> SUFFICES ASSUME TriageInv, Write PROVE TriageInv'
  OBVIOUS
<1>1. PICK l \in Lines : history' = history \cup {Event(l[1], l[2], l[3])}
  BY DEF Write
<1>2. /\ day \in Nat /\ day \in 0..MaxDay /\ Listed(ticket) /\ Written(history, day)
      /\ InStep(records, ticket)
  BY StoryAssumption DEF TriageInv, StoryInv, RecordsInv
<1> DEFINE e == Event(l[1], l[2], l[3])
<1>3. e.when = day
  BY DEF Event
<1> HIDE DEF e
<1>4. history' = history \cup {e}
  BY <1>1 DEF e
<1>5. UNCHANGED <<day, ticket, records, rows, form, pass, seen>>
  BY DEF Write
<1>6. Written(history', day')
  BY <1>2, <1>3, <1>4, <1>5, WrittenOn
<1>7. day <= day'
  BY <1>2, <1>5
<1>8. InStep(records', ticket') /\ Listed(ticket') /\ day' \in 0..MaxDay
  BY <1>2, <1>5
<1>9. \A r \in Seq(Record) : Grown(r, records) => Grown(r, records')
  BY <1>5
<1> QED BY <1>3, <1>4, <1>5, <1>6, <1>7, <1>8, <1>9, StoryGoesOn

LEMMA ReprioritiseHolds == TriageInv /\ Reprioritise => TriageInv'
<1> SUFFICES ASSUME TriageInv, Reprioritise PROVE TriageInv'
  OBVIOUS
<1>1. PICK p \in DOMAIN Targets :
         /\ ticket' = [ticket EXCEPT !.priority = p]
         /\ records' = Append(Moved(records, LiveStages, "cancelled"),
                              Attached("RESOLUTION", Targets[p]))
  BY DEF Reprioritise
<1> DEFINE moved == Moved(records, LiveStages, "cancelled")
           new == Attached("RESOLUTION", Targets[p])
<1>2. /\ day \in Nat /\ day \in 0..MaxDay /\ Listed(ticket) /\ Written(history, day)
      /\ InStep(records, ticket) /\ records \in Seq(Record)
  BY StoryAssumption DEF TriageInv, StoryInv, RecordsInv, InStep
<1>3. UNCHANGED <<day, history, rows, form, pass, seen>>
  BY DEF Reprioritise
<1>4. Listed(ticket') /\ LiveStage(ticket') = LiveStage(ticket)
  BY <1>1, <1>2 DEF Listed, LiveStage, Ticket
<1>5. new \in Record /\ new.stage = LiveStage(ticket)
  <2>1. Targets[p] \in Nat \ {0} /\ "RESOLUTION" \in Kind /\ StoryInv
    BY SlaAssumption DEF TriageInv, Kind
  <2> QED BY <2>1, AttachedType
<1>6. /\ moved \in Seq(Record) /\ DOMAIN moved = DOMAIN records
      /\ \A i \in DOMAIN records : moved[i].stage = "cancelled"
      /\ \A recs \in Seq(Record) : Grown(recs, records) => Grown(recs, moved)
  <2>1. /\ moved \in Seq(Record) /\ DOMAIN moved = DOMAIN records
        /\ \A i \in DOMAIN records :
             /\ records[i].stage \in LiveStages => moved[i].stage = "cancelled"
             /\ records[i].stage \notin LiveStages => moved[i].stage = records[i].stage
        /\ \A recs \in Seq(Record) : Grown(recs, records) => Grown(recs, moved)
    <3>1. moved \in Seq(Record) /\ DOMAIN moved = DOMAIN records
      BY <1>2, MovedRecords
    <3>2. \A i \in DOMAIN records :
             /\ records[i].stage \in LiveStages => moved[i].stage = "cancelled"
             /\ records[i].stage \notin LiveStages => moved[i].stage = records[i].stage
      <4>1. \A i \in DOMAIN records : records[i] \in Record
        BY <1>2
      <4> QED BY <4>1 DEF Moved, Record
    <3>3. \A recs \in Seq(Record) : Grown(recs, records) => Grown(recs, moved)
      BY <1>2, MovedRecords
    <3> QED BY <3>1, <3>2, <3>3
  <2>2. \A i \in DOMAIN records : records[i].stage \in LiveStages \cup {"cancelled"}
    BY <1>2 DEF InStep, LiveStage, LiveStages
  <2> QED BY <2>1, <2>2
<1> HIDE DEF moved, new
<1>7. records' = Append(moved, new)
  BY <1>1 DEF moved, new
<1>8. /\ records' \in Seq(Record)
      /\ DOMAIN records' = DOMAIN records \cup {Len(moved) + 1}
      /\ \A i \in DOMAIN records : records'[i].stage = "cancelled"
      /\ records'[Len(moved) + 1].stage = LiveStage(ticket)
      /\ \A recs \in Seq(Record) : Grown(recs, records) => Grown(recs, records')
  BY <1>5, <1>6, <1>7, AppendedRecords
<1>9. InStep(records', ticket')
  BY <1>4, <1>8 DEF InStep
<1>10. day' \in 0..MaxDay /\ day <= day' /\ Written(history', day') /\ history' = history
  BY <1>2, <1>3
<1> QED BY <1>3, <1>4, <1>8, <1>9, <1>10, StoryGoesOn

LEMMA HoldHolds == TriageInv /\ Hold => TriageInv'
<1> SUFFICES ASSUME TriageInv, Hold PROVE TriageInv'
  OBVIOUS
<1>1. PICK reason \in Holds \ {ticket.hold} :
         /\ ticket' = [ticket EXCEPT !.hold = reason]
         /\ records' = IF reason = "" THEN Moved(records, {"paused"}, "in_progress")
                       ELSE Moved(records, {"in_progress"}, "paused")
  BY DEF Hold
<1>2. /\ day \in Nat /\ day \in 0..MaxDay /\ Listed(ticket) /\ Written(history, day)
      /\ InStep(records, ticket) /\ records \in Seq(Record)
  BY StoryAssumption DEF TriageInv, StoryInv, RecordsInv, InStep
<1> DEFINE e == Event("state", Agent, FALSE)
<1>3. UNCHANGED <<day, rows, form, pass, seen>> /\ history' = history \cup {e}
  BY DEF Hold
<1>4. e.when = day
  BY DEF Event
<1> HIDE DEF e
<1>5. Written(history', day')
  BY <1>2, <1>3, <1>4, WrittenOn
<1>6. Listed(ticket') /\ ticket'.hold = reason
  BY <1>1, <1>2, StoryAssumption DEF Listed, Ticket
<1>7. \A i \in DOMAIN records : records[i].stage \in LiveStages \cup {"cancelled"}
  BY <1>2 DEF InStep, LiveStage, LiveStages
<1>8. InStep(records', ticket') /\ \A r \in Seq(Record) : Grown(r, records) => Grown(r, records')
  <2>1. CASE reason = ""
    <3> DEFINE moved == Moved(records, {"paused"}, "in_progress")
    <3>1. /\ moved \in Seq(Record) /\ DOMAIN moved = DOMAIN records
          /\ \A i \in DOMAIN records :
               /\ records[i].stage \in {"paused"} => moved[i].stage = "in_progress"
               /\ records[i].stage \notin {"paused"} => moved[i].stage = records[i].stage
          /\ \A recs \in Seq(Record) : Grown(recs, records) => Grown(recs, moved)
      BY <1>2, MovedRecords DEF LiveStages
    <3>2. records' = moved /\ LiveStage(ticket') = "in_progress"
      BY <1>1, <1>6, <2>1 DEF LiveStage
    <3> HIDE DEF moved
    <3>3. \A i \in DOMAIN records : moved[i].stage \in {"in_progress", "cancelled"}
      BY <1>7, <3>1 DEF LiveStages
    <3> QED BY <3>1, <3>2, <3>3 DEF InStep
  <2>2. CASE reason # ""
    <3> DEFINE moved == Moved(records, {"in_progress"}, "paused")
    <3>1. /\ moved \in Seq(Record) /\ DOMAIN moved = DOMAIN records
          /\ \A i \in DOMAIN records :
               /\ records[i].stage \in {"in_progress"} => moved[i].stage = "paused"
               /\ records[i].stage \notin {"in_progress"} => moved[i].stage = records[i].stage
          /\ \A recs \in Seq(Record) : Grown(recs, records) => Grown(recs, moved)
      BY <1>2, MovedRecords DEF LiveStages
    <3>2. records' = moved /\ LiveStage(ticket') = "paused"
      BY <1>1, <1>6, <2>2 DEF LiveStage
    <3> HIDE DEF moved
    <3>3. \A i \in DOMAIN records : moved[i].stage \in {"paused", "cancelled"}
      BY <1>7, <3>1 DEF LiveStages
    <3> QED BY <3>1, <3>2, <3>3 DEF InStep
  <2> QED BY <2>1, <2>2
<1>9. day' \in 0..MaxDay /\ day <= day'
  BY <1>2, <1>3
<1> QED BY <1>3, <1>4, <1>5, <1>6, <1>8, <1>9, StoryGoesOn

LEMMA AttachHolds == TriageInv /\ Attach => TriageInv'
<1> SUFFICES ASSUME TriageInv, Attach PROVE TriageInv'
  OBVIOUS
<1>1. PICK d \in Definitions : records' = Append(records, Attached(d[1], d[2]))
  BY DEF Attach
<1>2. /\ day \in Nat /\ day \in 0..MaxDay /\ Listed(ticket) /\ Written(history, day)
      /\ InStep(records, ticket) /\ records \in Seq(Record)
  BY StoryAssumption DEF TriageInv, StoryInv, RecordsInv, InStep
<1>3. UNCHANGED <<day, ticket, history, rows, form, pass, seen>>
  BY DEF Attach
<1> DEFINE new == Attached(d[1], d[2])
<1>4. new \in Record /\ new.stage = LiveStage(ticket)
  <2>1. d[1] \in Kind /\ d[2] \in Nat \ {0} /\ StoryInv
    BY SlaAssumption DEF TriageInv
  <2> QED BY <2>1, AttachedType
<1> HIDE DEF new
<1>5. records' = Append(records, new)
  BY <1>1 DEF new
<1>6. /\ records' \in Seq(Record)
      /\ DOMAIN records' = DOMAIN records \cup {Len(records) + 1}
      /\ \A i \in DOMAIN records : records'[i] = records[i]
      /\ records'[Len(records) + 1] = new
      /\ \A recs \in Seq(Record) : Grown(recs, records) => Grown(recs, records')
  BY <1>2, <1>4, <1>5, AppendedRecords
<1>7. InStep(records', ticket')
  BY <1>2, <1>3, <1>4, <1>6 DEF InStep
<1>8. day' \in 0..MaxDay /\ day <= day' /\ Written(history', day') /\ history' = history
      /\ Listed(ticket')
  BY <1>2, <1>3
<1> QED BY <1>3, <1>6, <1>7, <1>8, StoryGoesOn

LEMMA FieldsHold == TriageInv /\ (Bounce \/ Link) => TriageInv'
<1> SUFFICES ASSUME TriageInv, Bounce \/ Link PROVE TriageInv'
  OBVIOUS
<1>1. /\ day \in Nat /\ day \in 0..MaxDay /\ Listed(ticket) /\ Written(history, day)
      /\ InStep(records, ticket)
  BY StoryAssumption DEF TriageInv, StoryInv, RecordsInv
<1>2. UNCHANGED <<day, history, records, rows, form, pass, seen>>
  BY DEF Bounce, Link
<1>3. Listed(ticket') /\ ticket'.hold = ticket.hold
  <2>1. CASE Bounce
    <3>1. \/ ticket' = [ticket EXCEPT !.moves = ticket.moves + 1]
          \/ ticket' = [ticket EXCEPT !.reopens = ticket.reopens + 1]
      BY <2>1 DEF Bounce
    <3>2. ticket.moves + 1 \in Nat /\ ticket.reopens + 1 \in Nat
      BY <1>1 DEF Listed, Ticket
    <3> QED BY <1>1, <3>1, <3>2 DEF Listed, Ticket
  <2>2. CASE Link
    <3>1. PICK l \in Links : ticket' = [ticket EXCEPT !.change = l[1], !.problem = l[2]]
      BY <2>2 DEF Link
    <3>2. l[1] \in {"none", "open", "closed"} /\ l[2] \in {"none", "open", "closed"}
      BY StoryAssumption
    <3> QED BY <1>1, <3>1, <3>2 DEF Listed, Ticket
  <2> QED BY <2>1, <2>2
<1>4. InStep(records', ticket')
  BY <1>1, <1>2, <1>3 DEF InStep, LiveStage
<1>5. /\ day' \in 0..MaxDay /\ day <= day' /\ Written(history', day') /\ history' = history
      /\ \A r \in Seq(Record) : Grown(r, records) => Grown(r, records')
  BY <1>1, <1>2
<1> QED BY <1>2, <1>3, <1>4, <1>5, StoryGoesOn

LEMMA TimePassesHolds == TriageInv /\ TimePasses => TriageInv'
<1> SUFFICES ASSUME TriageInv, TimePasses PROVE TriageInv'
  OBVIOUS
<1>1. /\ day \in Nat /\ day \in 0..MaxDay /\ Listed(ticket) /\ Written(history, day)
      /\ InStep(records, ticket) /\ records \in Seq(Record)
  BY StoryAssumption DEF TriageInv, StoryInv, RecordsInv, InStep
<1>2. /\ day < MaxDay /\ day' = day + 1 /\ records' = [i \in DOMAIN records |-> Elapsed(records[i])]
      /\ UNCHANGED <<ticket, history, rows, form, pass, seen>>
  BY DEF TimePasses
<1>3. day' \in 0..MaxDay /\ day <= day' /\ day' \in Nat
  BY <1>1, <1>2, StoryAssumption
<1>4. Written(history', day')
  BY <1>1, <1>2, <1>3 DEF Written
<1>5. LiveStage(ticket) \in LiveStages
      /\ \A i \in DOMAIN records : records[i].stage \in {LiveStage(ticket), "cancelled"}
  BY <1>1 DEF LiveStage, LiveStages, InStep
<1>6. /\ records' \in Seq(Record)
      /\ \A i \in DOMAIN records : Elapsed(records[i]).stage = records[i].stage
      /\ \A recs \in Seq(Record) : Grown(recs, records) => Grown(recs, records')
  BY <1>1, <1>2, <1>5, ElapsedRecords
<1>7. InStep(records', ticket')
  BY <1>2, <1>5, <1>6 DEF InStep
<1>8. history' = history /\ Listed(ticket')
  BY <1>1, <1>2
<1> QED BY <1>2, <1>3, <1>4, <1>6, <1>7, <1>8, StoryGoesOn

\* A save, component by component.
LEMMA SavingHolds == TriageInv /\ (WeightsSave \/ UpdateComponent) => TriageInv'
<1> SUFFICES ASSUME TriageInv, WeightsSave \/ UpdateComponent PROVE TriageInv'
  OBVIOUS
<1>1. UNCHANGED <<day, ticket, history, records, pass, seen>>
  BY DEF WeightsSave, UpdateComponent
<1>2. StoryInv' /\ RecordsInv' /\ PassInv' /\ SeenInv'
  BY <1>1 DEF TriageInv, StoryInv, RecordsInv, PassInv, SeenInv
<1>3. WeightsInv'
  <2>1. CASE WeightsSave
    <3>1. form' \in Forms /\ rows' = rows
      BY <2>1 DEF WeightsSave
    <3>2. DOMAIN form' \subseteq Component
      BY <3>1, FormType
    <3> QED BY <3>1, <3>2 DEF TriageInv, WeightsInv, FormInv
  <2>2. CASE UpdateComponent
    <3>1. PICK i \in DOMAIN InOrder :
             /\ InOrder[i] \in DOMAIN form
             /\ rows' = [rows EXCEPT ![InOrder[i]] = form[InOrder[i]]]
             /\ form' = [c \in DOMAIN form \ {InOrder[i]} |-> form[c]]
      BY <2>2 DEF UpdateComponent
    <3> DEFINE b == InOrder[i]
    <3>2. /\ b \in DOMAIN form /\ rows' = [rows EXCEPT ![b] = form[b]]
          /\ form' = [c \in DOMAIN form \ {b} |-> form[c]]
      BY <3>1
    <3> HIDE DEF b
    <3>3. PICK f \in Forms : b \in DOMAIN f /\ form[b] = f[b]
      BY <3>2 DEF TriageInv, WeightsInv, FormInv
    <3>4. b \in Component /\ form[b] \in [enabled : BOOLEAN, weight : 0..100]
      BY <3>3, FormType
    <3>5. Saved(rows')
      BY <3>2, <3>3, <3>4 DEF TriageInv, WeightsInv, Saved
    <3>6. FormInv'
      BY <3>2 DEF TriageInv, WeightsInv, FormInv
    <3> QED BY <3>5, <3>6 DEF WeightsInv
  <2> QED BY <2>1, <2>2
<1> QED BY <1>2, <1>3 DEF TriageInv

\* A pass reads weights that are meant whatever it catches of a save.
LEMMA BeginHolds == TriageInv /\ Begin => TriageInv'
<1> SUFFICES ASSUME TriageInv, Begin PROVE TriageInv'
  OBVIOUS
<1>1. /\ pass' = [at |-> "begun", ticket |-> ticket, weights |-> LoadWeights(rows)]
      /\ UNCHANGED <<day, ticket, history, records, rows, form, seen>>
  BY DEF Begin
<1>2. StoryInv' /\ RecordsInv' /\ WeightsInv' /\ SeenInv'
  BY <1>1 DEF TriageInv, StoryInv, RecordsInv, WeightsInv, FormInv, SeenInv
<1>3. pass'.ticket = ticket /\ pass'.weights = LoadWeights(rows)
  BY <1>1
<1>4. MeantAll(LoadWeights(rows)) /\ Listed(ticket)
  BY LoadedIsMeant DEF TriageInv, WeightsInv, StoryInv
<1>5. PassInv'
  BY <1>3, <1>4 DEF PassInv
<1> QED BY <1>2, <1>5 DEF TriageInv

\* A pass stores what the definitions make of the incident of the moment.
LEMMA SignalOneStores ==
  ASSUME TriageInv, SignalOne
  PROVE  /\ Kept(seen', day, history, records) /\ seen'.day = day /\ seen'.history = history
         /\ seen'.records = records
<1>1. PICK change \in Named(pass.ticket.change, ticket.change),
           problem \in Named(pass.ticket.problem, ticket.problem), kb \in KbStates :
         LET t == [pass.ticket EXCEPT !.change = change, !.problem = problem]
             s == Signals(t, history, Summarise(Readings(records)), kb, day, Thresholds)
         IN  seen' = [at |-> "stored", day |-> day, ticket |-> t, history |-> history,
                      records |-> records, weights |-> pass.weights, kb |-> kb,
                      signals |-> s, flags |-> RiskFlags(s, Thresholds),
                      scored |-> Score(t, s, pass.weights, Thresholds)]
  BY DEF SignalOne
<1> DEFINE t == [pass.ticket EXCEPT !.change = change, !.problem = problem]
           s == Signals(t, history, Summarise(Readings(records)), kb, day, Thresholds)
<1>2. pass # NoPass
  BY DEF SignalOne
<1>3. Listed(pass.ticket) /\ MeantAll(pass.weights) /\ Listed(ticket)
  BY <1>2 DEF TriageInv, PassInv, StoryInv
<1>4. change \in {"none", "open", "closed"} /\ problem \in {"none", "open", "closed"}
  BY <1>3 DEF Named, Listed, Ticket
<1>5. Listed(t)
  BY <1>3, <1>4 DEF Listed, Ticket
<1>6. /\ day \in 0..day /\ Written(history, day) /\ records \in Seq(Record)
  BY StoryAssumption DEF TriageInv, StoryInv, RecordsInv, InStep
<1>7. Grown(records, records)
  BY <1>6, GrownOfSelf
<1>8. seen' = [at |-> "stored", day |-> day, ticket |-> t, history |-> history,
               records |-> records, weights |-> pass.weights, kb |-> kb,
               signals |-> s, flags |-> RiskFlags(s, Thresholds),
               scored |-> Score(t, s, pass.weights, Thresholds)]
  BY <1>1
<1> HIDE DEF t
<1>9. /\ seen'.at = "stored" /\ seen'.day = day /\ seen'.ticket = t /\ seen'.history = history
      /\ seen'.records = records /\ seen'.weights = pass.weights /\ seen'.kb = kb
      /\ seen'.signals = s /\ seen'.flags = RiskFlags(s, Thresholds)
      /\ seen'.scored = Score(t, s, pass.weights, Thresholds)
  BY <1>8
<1> QED BY <1>3, <1>5, <1>6, <1>7, <1>9 DEF Kept

LEMMA SignalOneHolds == TriageInv /\ SignalOne => TriageInv'
<1> SUFFICES ASSUME TriageInv, SignalOne PROVE TriageInv'
  OBVIOUS
<1>1. pass' = NoPass /\ UNCHANGED <<day, ticket, history, records, rows, form>>
  BY DEF SignalOne
<1>2. StoryInv' /\ RecordsInv' /\ WeightsInv' /\ PassInv'
  BY <1>1 DEF TriageInv, StoryInv, RecordsInv, WeightsInv, FormInv, PassInv
<1>3. Kept(seen', day, history, records)
  BY SignalOneStores
<1>4. SeenInv'
  BY <1>1, <1>3 DEF SeenInv
<1> QED BY <1>2, <1>4 DEF TriageInv

LEMMA NextHolds == TriageInv /\ [Next]_vars => TriageInv'
<1> SUFFICES ASSUME TriageInv, [Next]_vars PROVE TriageInv'
  OBVIOUS
<1>1. CASE Write
  BY <1>1, WriteHolds
<1>2. CASE Reprioritise
  BY <1>2, ReprioritiseHolds
<1>3. CASE Hold
  BY <1>3, HoldHolds
<1>4. CASE Attach
  BY <1>4, AttachHolds
<1>5. CASE Bounce \/ Link
  BY <1>5, FieldsHold
<1>6. CASE TimePasses
  BY <1>6, TimePassesHolds
<1>7. CASE WeightsSave \/ UpdateComponent
  BY <1>7, SavingHolds
<1>8. CASE Begin
  BY <1>8, BeginHolds
<1>9. CASE SignalOne
  BY <1>9, SignalOneHolds
<1>10. CASE UNCHANGED vars
  BY <1>10 DEF vars, TriageInv, StoryInv, RecordsInv, WeightsInv, FormInv, PassInv, SeenInv
<1> QED BY <1>1, <1>2, <1>3, <1>4, <1>5, <1>6, <1>7, <1>8, <1>9, <1>10 DEF Next

-----------------------------------------------------------------------------
(* What follows from it.                                                    *)

\* The types of what was stored.
LEMMA KeptFacts ==
  ASSUME NEW x, NEW now \in Nat, NEW h, NEW recs, Kept(x, now, h, recs)
  PROVE  /\ x.day \in Nat /\ x.ticket \in Ticket /\ x.ticket.opened = 0 /\ x.weights \in Weights
         /\ Written(x.history, x.day) /\ x.records \in Seq(Record)
         /\ Summarise(Readings(x.records)) \in SlaReading
         /\ x.signals \in SignalSet /\ x.signals.idle <= x.signals.age
<1>1. /\ x.day \in Nat /\ x.ticket \in Ticket /\ x.ticket.opened = 0 /\ x.weights \in Weights
      /\ Written(x.history, x.day) /\ x.records \in Seq(Record) /\ x.kb \in KbStates
  BY DEF Kept, Listed, MeantAll
<1>2. Summarise(Readings(x.records)) \in SlaReading
  BY <1>1, SummaryParts DEF Summed
<1>3. x.signals = Signals(x.ticket, x.history, Summarise(Readings(x.records)), x.kb, x.day, Thresholds)
  BY DEF Kept
<1>4. x.signals \in SignalSet /\ x.signals.idle <= x.signals.age
  BY <1>1, <1>2, <1>3, SignalsType
<1> QED BY <1>1, <1>2, <1>4

\* The invariant says more than the property.
LEMMA StrengtheningIsSound == TriageInv => TriageIsSound
<1> SUFFICES ASSUME TriageInv PROVE TriageIsSound
  OBVIOUS
<1>1. day \in Nat /\ ticket \in Ticket
  BY StoryAssumption DEF TriageInv, StoryInv, Listed
<1>2. CASE seen = Rest
  BY <1>1, <1>2 DEF TriageIsSound, TypeOK, SupersededNeverCounts, PointsAddUp, CandidatesAreSilent
<1>3. CASE seen # Rest
  <2>1. Kept(seen, day, history, records)
    BY <1>3 DEF TriageInv, SeenInv
  <2>2. /\ seen.day \in Nat /\ seen.ticket \in Ticket /\ seen.weights \in Weights
        /\ Written(seen.history, seen.day) /\ seen.records \in Seq(Record)
        /\ seen.signals \in SignalSet /\ seen.signals.idle <= seen.signals.age
    BY <1>1, <2>1, KeptFacts
  <2>3. /\ seen.flags = RiskFlags(seen.signals, Thresholds)
        /\ seen.scored = Score(seen.ticket, seen.signals, seen.weights, Thresholds)
        /\ seen.signals = Signals(seen.ticket, seen.history, Summarise(Readings(seen.records)),
                                  seen.kb, seen.day, Thresholds)
        /\ MeantAll(seen.weights)
    BY <2>1 DEF Kept
  <2>4. /\ seen.signals.sla = Summarise(Readings(seen.records))
        /\ seen.signals.closable = Closable(seen.ticket, seen.history, seen.day, Thresholds)
    BY <2>3 DEF Signals
  <2>5. /\ seen.scored.score \in 0..100
        /\ \A c \in Component : seen.scored.points[c] \in 0..(10 * seen.weights[c])
        /\ Total(seen.scored.points) - 10 * seen.scored.score \in -9..9
    BY <2>2, <2>3, ScoreIsSound
  <2>6. TypeOK
    <3>1. seen.flags \subseteq RiskFlag
      BY <2>3 DEF RiskFlags
    <3>2. seen.signals.idle \in 0..seen.signals.age
      BY <2>2 DEF SignalSet
    <3> QED BY <1>1, <2>5, <3>1, <3>2 DEF TypeOK
  <2>7. SupersededNeverCounts
    BY <2>2, <2>4, InForce DEF SupersededNeverCounts
  <2>8. PointsAddUp
    BY <2>3, <2>5 DEF PointsAddUp, MeantAll, Weights
  <2>9. CandidatesAreSilent
    BY <2>2, <2>4, ClosableIsSilent DEF CandidatesAreSilent
  <2> QED BY <2>6, <2>7, <2>8, <2>9 DEF TriageIsSound
<1> QED BY <1>2, <1>3

\* A pass stores what the definitions make of the incident, at any moment of the weights' being
\* saved: nothing superseded, no weights nobody meant, nobody to close who was not asked.
THEOREM TriageIsRight == Spec => []TriageIsSound
<1>1. Init => TriageInv
  BY InitHolds
<1>2. TriageInv /\ [Next]_vars => TriageInv'
  BY NextHolds
<1>3. TriageInv => TriageIsSound
  BY StrengtheningIsSound
<1> QED BY <1>1, <1>2, <1>3, PTL DEF Spec

\* The strengthening itself.
THEOREM TriageStrengthening == Spec => []TriageInv
<1> QED BY InitHolds, NextHolds, PTL DEF Spec

-----------------------------------------------------------------------------
(* Two passes.                                                              *)

\* One action stores.
LEMMA OnlySignalOneStores ==
  ASSUME [Next]_vars, seen' # seen
  PROVE  SignalOne
<1>1. ~(Write \/ Reprioritise \/ Hold \/ Attach \/ Bounce \/ Link \/ TimePasses
        \/ WeightsSave \/ UpdateComponent \/ Begin)
  BY DEF Write, Reprioritise, Hold, Attach, Bounce, Link, TimePasses, WeightsSave,
         UpdateComponent, Begin
<1>2. ~UNCHANGED vars
  BY DEF vars
<1> QED BY <1>1, <1>2 DEF Next

\* What one pass stored and what the next one makes of a later state of the incident.
Successive(a, b) ==
  /\ b.day \in Nat
  /\ Kept(a, b.day, b.history, b.records) /\ Kept(b, b.day, b.history, b.records)

LEMMA StoresAreSuccessive ==
  ASSUME TriageInv, [Next]_vars, seen' # seen, seen # Rest
  PROVE  Successive(seen, seen')
<1>1. SignalOne
  BY OnlySignalOneStores
<1>2. /\ Kept(seen', day, history, records) /\ seen'.day = day /\ seen'.history = history
      /\ seen'.records = records
  BY <1>1, SignalOneStores
<1>3. Kept(seen, day, history, records)
  BY DEF TriageInv, SeenInv
<1>4. day \in Nat
  BY StoryAssumption DEF TriageInv, StoryInv
<1> QED BY <1>2, <1>3, <1>4 DEF Successive

\* Two passes with nothing between them but days.
LEMMA WaitingIsNoLower ==
  ASSUME NEW a, NEW b, Successive(a, b), OnlyDays(a, b)
  PROVE  NoLower(a, b)
<1>1. /\ b.day \in Nat
      /\ Kept(a, b.day, b.history, b.records) /\ Kept(b, b.day, b.history, b.records)
  BY DEF Successive
<1>2. /\ a.day \in Nat /\ a.ticket \in Ticket /\ a.ticket.opened = 0 /\ a.weights \in Weights
      /\ Written(a.history, a.day) /\ a.records \in Seq(Record)
      /\ Summarise(Readings(a.records)) \in SlaReading
  BY <1>1, KeptFacts
<1>3. b.records \in Seq(Record) /\ Summarise(Readings(b.records)) \in SlaReading
  BY <1>1, KeptFacts
<1>4. /\ a.ticket = b.ticket /\ a.history = b.history /\ a.weights = b.weights
      /\ a.kb = b.kb /\ Stages(a.records) = Stages(b.records)
  BY DEF OnlyDays
<1>5. /\ a.kb \in KbStates /\ a.day <= b.day /\ b.day \in Nat /\ Grown(a.records, b.records)
  BY <1>1, <1>2 DEF Kept
<1>6. NoBetter(Summarise(Readings(a.records)), Summarise(Readings(b.records)))
  BY <1>2, <1>3, <1>4, <1>5, SlaOnlyWorsens
<1> DEFINE s == Signals(a.ticket, a.history, Summarise(Readings(a.records)), a.kb, a.day, Thresholds)
           r == Signals(a.ticket, a.history, Summarise(Readings(b.records)), a.kb, b.day, Thresholds)
<1>7. /\ a.flags = RiskFlags(s, Thresholds) /\ a.scored = Score(a.ticket, s, a.weights, Thresholds)
  BY <1>1 DEF Kept
<1>8. /\ b.flags = RiskFlags(r, Thresholds) /\ b.scored = Score(a.ticket, r, a.weights, Thresholds)
  BY <1>1, <1>4 DEF Kept
<1>9. /\ Score(a.ticket, s, a.weights, Thresholds).score
           <= Score(a.ticket, r, a.weights, Thresholds).score
      /\ \A f \in RiskFlags(s, Thresholds) :
            \/ f \in RiskFlags(r, Thresholds)
            \/ f \in DOMAIN Stronger /\ Stronger[f] \in RiskFlags(r, Thresholds)
  BY <1>2, <1>3, <1>5, <1>6, WaitingScoresNoLower
<1> HIDE DEF s, r
<1> QED BY <1>7, <1>8, <1>9 DEF NoLower

\* Whatever the thresholds, the weights and the SLAs: an incident that waits never gets better.
THEOREM WaitingNeverHelps == Spec => WaitingOnlyWorsens
<1>1. TriageInv /\ [Next]_vars
        => [seen # Rest /\ seen' # Rest /\ OnlyDays(seen, seen') => NoLower(seen, seen')]_seen
  <2> SUFFICES ASSUME TriageInv, [Next]_vars, seen' # seen, seen # Rest, OnlyDays(seen, seen')
               PROVE  NoLower(seen, seen')
    OBVIOUS
  <2> QED BY StoresAreSuccessive, WaitingIsNoLower
<1> QED BY <1>1, TriageStrengthening, PTL DEF Spec, WaitingOnlyWorsens

\* Two passes of which the later sees a shorter idle time.
LEMMA ClockNeedsWork ==
  ASSUME NEW a, NEW b, Successive(a, b), b.signals.idle < a.signals.idle
  PROVE  \E e \in New(a, b) : Person(e.user) /\ e.field \in AgentActionFields
<1> SUFFICES ASSUME \A e \in b.history \ a.history : ~(Person(e.user) /\ e.field \in AgentActionFields)
             PROVE  FALSE
  BY DEF New
<1>1. /\ b.day \in Nat
      /\ Kept(a, b.day, b.history, b.records) /\ Kept(b, b.day, b.history, b.records)
  BY DEF Successive
<1>2. /\ a.day \in Nat /\ a.ticket.opened = 0 /\ Written(a.history, a.day)
      /\ a.signals \in SignalSet
  BY <1>1, KeptFacts
<1>3. b.ticket.opened = 0 /\ b.day \in Nat /\ b.signals \in SignalSet
  BY <1>1, KeptFacts
<1>4. a.day <= b.day /\ a.history \subseteq b.history
  BY <1>1, <1>2 DEF Kept
<1>5. /\ a.signals = Signals(a.ticket, a.history, Summarise(Readings(a.records)), a.kb, a.day, Thresholds)
      /\ b.signals = Signals(b.ticket, b.history, Summarise(Readings(b.records)), b.kb, b.day, Thresholds)
  BY <1>1 DEF Kept
<1>6. a.signals.idle <= b.signals.idle
  BY <1>2, <1>3, <1>4, <1>5, OnlyWorkPutsItBack
<1>7. a.signals.idle \in Nat /\ b.signals.idle \in Nat
  BY <1>2, <1>3 DEF SignalSet
<1> QED BY <1>6, <1>7

\* Two passes of one day with nothing between them but work.
LEMMA WorkIsNoHigher ==
  ASSUME NEW a, NEW b, Successive(a, b), OnlyWork(a, b)
  PROVE  b.scored.score <= a.scored.score
<1>1. /\ b.day \in Nat
      /\ Kept(a, b.day, b.history, b.records) /\ Kept(b, b.day, b.history, b.records)
  BY DEF Successive
<1>2. /\ a.ticket = b.ticket /\ a.weights = b.weights /\ a.records = b.records /\ a.day = b.day
      /\ \A e \in b.history \ a.history : Person(e.user) /\ e.field \in AgentActionFields
  BY DEF OnlyWork, New
<1>3. /\ a.day \in Nat /\ a.ticket \in Ticket /\ a.ticket.opened = 0 /\ a.weights \in Weights
      /\ Summarise(Readings(a.records)) \in SlaReading
  BY <1>1, KeptFacts
<1>4. Written(b.history, a.day)
  BY <1>1, <1>2 DEF Kept
<1>5. a.kb \in KbStates /\ b.kb \in KbStates /\ a.history \subseteq b.history
  BY <1>1 DEF Kept
<1>6. \A e \in b.history \ a.history : e.when = a.day
  <2>1. \A e \in b.history \ a.history : e.when >= a.day
    BY <1>1 DEF Kept
  <2>2. \A e \in b.history : e.when \in 0..a.day
    BY <1>4 DEF Written
  <2> QED BY <1>3, <2>1, <2>2
<1>7. /\ a.scored = Score(a.ticket, Signals(a.ticket, a.history, Summarise(Readings(a.records)),
                                            a.kb, a.day, Thresholds), a.weights, Thresholds)
      /\ b.scored = Score(a.ticket, Signals(a.ticket, b.history, Summarise(Readings(a.records)),
                                            b.kb, a.day, Thresholds), a.weights, Thresholds)
  BY <1>1, <1>2 DEF Kept
<1> QED BY <1>2, <1>3, <1>4, <1>5, <1>6, <1>7, WorkScoresNoHigher

\* Only a person's work puts the clock of idle days back, and work never moves an incident up.
THEOREM WorkAlwaysCounts == Spec => WorkCounts
<1>1. TriageInv /\ [Next]_vars
        => [seen # Rest /\ seen' # Rest /\ seen'.signals.idle < seen.signals.idle =>
              \E e \in New(seen, seen') : Person(e.user) /\ e.field \in AgentActionFields]_seen
  <2> SUFFICES ASSUME TriageInv, [Next]_vars, seen' # seen, seen # Rest,
                      seen'.signals.idle < seen.signals.idle
               PROVE  \E e \in New(seen, seen') : Person(e.user) /\ e.field \in AgentActionFields
    OBVIOUS
  <2> QED BY StoresAreSuccessive, ClockNeedsWork
<1>2. TriageInv /\ [Next]_vars
        => [seen # Rest /\ seen' # Rest /\ OnlyWork(seen, seen') =>
              seen'.scored.score <= seen.scored.score]_seen
  <2> SUFFICES ASSUME TriageInv, [Next]_vars, seen' # seen, seen # Rest, OnlyWork(seen, seen')
               PROVE  seen'.scored.score <= seen.scored.score
    OBVIOUS
  <2> QED BY StoresAreSuccessive, WorkIsNoHigher
<1> QED BY <1>1, <1>2, TriageStrengthening, PTL
       DEF Spec, WorkCounts, OnlyWorkRestartsTheClock, WorkNeverRaises
=============================================================================
