-------------------------------- MODULE Triage --------------------------------
(***************************************************************************)
(* One incident in ServiceNow - entries, holds, priorities, task_sla        *)
(* records, links - and the passes of the orchestrator                      *)
(* (pipeline/orchestrator.py) that make signals (module TicketSignals), an  *)
(* SLA summary (module SlaSummary) and a score (module AttentionScore) of   *)
(* it, while an administrator saves weights component by component.         *)
(*                                                                          *)
(* A pass reads weights and work list first and the incident later.  The    *)
(* requests of _signal_one for one incident are taken together.  Days are   *)
(* whole.  The story ends with the last pass.                               *)
(***************************************************************************)
EXTENDS TicketSignals, AttentionScore

CONSTANTS
    Agent,        \* who puts an incident on hold
    Lines,        \* bound: what is written, <<field, user, hint>>
    Thresholds,   \* ctx.thresholds()
    Targets,      \* by priority, the days of its resolution SLA
    Definitions,  \* bound: what else may attach, <<kind, days>>
    Holds,        \* bound: the hold reasons that occur
    Links,        \* bound: the states of change and problem that occur
    Forms,        \* bound: weights that are saved, by component [enabled, weight]
    KbStates,     \* bound: "none" fits, "linked", "unlinked"
    MaxDay, MaxPasses, MaxEvents

\* The form of the settings lets no threshold be less than one (admin_settings.py, SPECS).
ASSUME ThresholdAssumption ==
    Thresholds \in [{"prolonged", "inactivity", "aged", "expected", "slaRisk", "followups",
                    "silence"} -> Nat \ {0}]

\* A definition that gives no time at all is none.
ASSUME SlaAssumption ==
    Targets \in [DOMAIN Targets -> Nat \ {0}] /\ Definitions \subseteq Kind \X (Nat \ {0})

ASSUME StoryAssumption ==
    /\ Holds \subseteq HoldReason /\ MaxDay \in Nat
    /\ Links \subseteq {"none", "open", "closed"} \X {"none", "open", "closed"}

\* weights_save keeps what is typed between 0 and 100.
ASSUME FormsAssumption ==
    \A f \in Forms : \E C \in SUBSET Component : f \in [C -> [enabled : BOOLEAN, weight : 0..100]]

VARIABLES
    day,
    ticket,    \* the incident
    history,   \* its sys_history_lines
    records,   \* its task_sla: [kind, days, elapsed, stage]
    rows,      \* attention_weightage
    form,      \* the save under way: by component, what it still has to update
    pass,      \* the pass under way: the ticket and the weights it has read
    seen,      \* what the last pass made of what it read; none: no pass yet
    passes, events

vars == <<day, ticket, history, records, rows, form, pass, seen, passes, events>>

Ticket == [opened : 0..MaxDay, priority : DOMAIN Targets, hold : HoldReason,
           change : {"none", "open", "closed"}, problem : {"none", "open", "closed"},
           moves : Nat, reopens : Nat]

NoPass == [at |-> "rest"]
Rest   == [at |-> "none"]

-----------------------------------------------------------------------------
(* The incident's life.                                                     *)

Going   == passes < MaxPasses \/ pass # NoPass
Happens == Going /\ events < MaxEvents /\ events' = events + 1

\* Attached late, a definition still counts from the opening.
Attached(kind, days) ==
    [kind |-> kind, days |-> days, elapsed |-> day - ticket.opened,
     stage |-> IF ticket.hold = "" THEN "in_progress" ELSE "paused"]

Elapsed(r) == IF r.stage = "in_progress" THEN [r EXCEPT !.elapsed = @ + 1] ELSE r

Moved(recs, from, to) ==
    [i \in DOMAIN recs |-> IF recs[i].stage \in from THEN [recs[i] EXCEPT !.stage = to]
                           ELSE recs[i]]

EachOf(recs) == {<<recs[i].kind, recs[i].days>> : i \in DOMAIN recs}

Event(field, user, hint) == [field |-> field, user |-> user, hint |-> hint, when |-> day]

Write ==
    /\ Happens
    /\ \E l \in Lines : history' = history \cup {Event(l[1], l[2], l[3])}
    /\ history' # history
    /\ UNCHANGED <<day, ticket, records, rows, form, pass, seen, passes>>

\* The SLA of the old priority is cancelled, that of the new one starts.
Reprioritise ==
    /\ Happens
    /\ \E p \in DOMAIN Targets \ {ticket.priority} :
         /\ ticket' = [ticket EXCEPT !.priority = p]
         /\ records' = Append(Moved(records, LiveStages, "cancelled"),
                              Attached("RESOLUTION", Targets[p]))
    /\ UNCHANGED <<day, history, rows, form, pass, seen, passes>>

Hold ==
    /\ Happens
    /\ \E reason \in Holds \ {ticket.hold} :
         /\ ticket' = [ticket EXCEPT !.hold = reason]
         /\ records' = IF reason = "" THEN Moved(records, {"paused"}, "in_progress")
                       ELSE Moved(records, {"in_progress"}, "paused")
    /\ history' = history \cup {Event("state", Agent, FALSE)}
    /\ UNCHANGED <<day, rows, form, pass, seen, passes>>

Attach ==
    /\ Happens
    /\ \E d \in Definitions \ EachOf(records) : records' = Append(records, Attached(d[1], d[2]))
    /\ UNCHANGED <<day, ticket, history, rows, form, pass, seen, passes>>

Bounce ==
    /\ Happens
    /\ \/ ticket' = [ticket EXCEPT !.moves = @ + 1]
       \/ ticket' = [ticket EXCEPT !.reopens = @ + 1]
    /\ UNCHANGED <<day, history, records, rows, form, pass, seen, passes>>

Link ==
    /\ Happens
    /\ \E l \in Links : ticket' = [ticket EXCEPT !.change = l[1], !.problem = l[2]]
    /\ ticket' # ticket
    /\ UNCHANGED <<day, history, records, rows, form, pass, seen, passes>>

TimePasses ==
    /\ Going /\ day < MaxDay
    /\ day' = day + 1
    /\ records' = [i \in DOMAIN records |-> Elapsed(records[i])]
    /\ UNCHANGED <<ticket, history, rows, form, pass, seen, passes, events>>

-----------------------------------------------------------------------------
(* weights_save: an update per component of the form, each of its own.      *)

InOrder == <<"sla_risk", "inactivity_duration", "ticket_age", "business_priority",
             "reassignment_activity", "unactioned_delay", "duration_overrun">>

WeightsSave ==
    /\ DOMAIN form = {} /\ Happens
    /\ form' \in Forms
    /\ UNCHANGED <<day, ticket, history, records, rows, pass, seen, passes>>

\* The next component that the form has something for.
UpdateComponent ==
    /\ Going
    /\ \E i \in DOMAIN InOrder :
         /\ InOrder[i] \in DOMAIN form
         /\ \A j \in 1..(i - 1) : InOrder[j] \notin DOMAIN form
         /\ rows' = [rows EXCEPT ![InOrder[i]] = form[InOrder[i]]]
         /\ form' = [c \in DOMAIN form \ {InOrder[i]} |-> form[c]]
    /\ UNCHANGED <<day, ticket, history, records, pass, seen, passes, events>>

-----------------------------------------------------------------------------
(* A pass.                                                                  *)

\* refresh_signals: the work list and the weights.
Begin ==
    /\ pass = NoPass /\ passes < MaxPasses
    /\ passes' = passes + 1
    /\ pass' = [at |-> "begun", ticket |-> ticket, weights |-> LoadWeights(rows)]
    /\ UNCHANGED <<day, ticket, history, records, rows, form, seen, events>>

\* _parse: what ServiceNow says of a record now.
Reading(r) ==
    [kind |-> r.kind, active |-> r.stage \in LiveStages, stage |-> r.stage,
     breached |-> r.elapsed >= r.days, pct |-> (100 * r.elapsed) \div r.days,
     left |-> 1440 * (r.days - r.elapsed), ends |-> r.days]

Readings(recs) == [i \in DOMAIN recs |-> Reading(recs[i])]

\* _dependency_record: named in the work list, read now, or not readable.
Named(listed, now) ==
    IF listed = "none" THEN {"none"} ELSE {"none", IF now = "none" THEN listed ELSE now}

SignalOne ==
    /\ pass # NoPass
    /\ \E change  \in Named(pass.ticket.change, ticket.change),
          problem \in Named(pass.ticket.problem, ticket.problem),
          kb \in KbStates :
         LET t == [pass.ticket EXCEPT !.change = change, !.problem = problem]
             s == Signals(t, history, Summarise(Readings(records)), kb, day, Thresholds)
         IN  seen' = [at |-> "stored", day |-> day, ticket |-> t, history |-> history,
                      records |-> records, weights |-> pass.weights, kb |-> kb,
                      signals |-> s, flags |-> RiskFlags(s, Thresholds),
                      scored |-> Score(t, s, pass.weights, Thresholds)]
    /\ pass' = NoPass
    /\ UNCHANGED <<day, ticket, history, records, rows, form, passes, events>>

Init ==
    /\ day = 0 /\ history = {}
    /\ ticket \in [opened : {0}, priority : DOMAIN Targets, hold : {""}, change : {"none"},
                   problem : {"none"}, moves : {0}, reopens : {0}]
    /\ records = <<[kind |-> "RESOLUTION", days |-> Targets[ticket.priority], elapsed |-> 0,
                    stage |-> "in_progress"]>>
    /\ rows = [c \in Component |-> [enabled |-> TRUE, weight |-> DefaultWeights[c]]]
    /\ form = <<>> /\ pass = NoPass /\ seen = Rest
    /\ passes = 0 /\ events = 0

Next ==
    \/ Write \/ Reprioritise \/ Hold \/ Attach \/ Bounce \/ Link \/ TimePasses
    \/ WeightsSave \/ UpdateComponent
    \/ Begin \/ SignalOne

Spec == Init /\ [][Next]_vars

-----------------------------------------------------------------------------
(* Properties.                                                              *)

\* What is stored fits its columns: a score and points that are percentages of the weights,
\* an idle time no longer than the age.
TypeOK ==
    /\ ticket \in Ticket
    /\ seen # Rest =>
         /\ seen.flags \subseteq RiskFlag
         /\ seen.signals.idle \in 0..seen.signals.age
         /\ seen.scored.score \in 0..100
         /\ \A c \in Component : seen.scored.points[c] \in 0..(10 * seen.weights[c])

\* While one SLA is in force, nothing of those that were cancelled before it is in the
\* summary ("a superseded SLA from before a priority change can be read as the current
\* state").
SupersededNeverCounts ==
    seen # Rest =>
        LET live == {r \in {seen.records[i] : i \in DOMAIN seen.records} :
                        r.kind = "RESOLUTION" /\ r.stage \in LiveStages}
        IN  live # {} =>
              /\ seen.signals.sla.breached <=> \E r \in live : r.elapsed >= r.days
              /\ \E r \in live : seen.signals.sla.left = 1440 * (r.days - r.elapsed)

Meant == {DefaultWeights} \cup
         {[c \in Component |-> IF c \in DOMAIN f THEN f[c].weight ELSE DefaultWeights[c]] : f \in Forms}

\* The points shown for a score add up to it, and are of weights that make a hundred, each
\* somebody's or the default; a pass that reads the table between the two updates of the only
\* save there is scores with neither mixture.
PointsAddUp ==
    seen # Rest =>
        LET points == seen.scored.points
        IN  /\ Total(points) - 10 * seen.scored.score \in -9..9
            /\ Total(seen.weights) = 100
            /\ \A c \in Component : \E w \in Meant : seen.weights[c] = w[c]
            /\ \A f \in Forms :
                  Forms = {f} /\ Cardinality(DOMAIN f) = 2 => seen.weights \in Meant

Person(user) == user \notin SystemAccounts \cup {Nobody, Caller}

\* Nobody is proposed for closure who was not asked often enough, by a person, where the
\* caller can read it, or who has said something since, or not long enough ago.
CandidatesAreSilent ==
    seen # Rest /\ seen.signals.closable =>
        LET people == {e \in seen.history : Person(e.user)}
            chases == {e \in people : e.field = "comments" /\ e.hint}
        IN  /\ Cardinality(chases) >= Thresholds.followups
            /\ \A e \in chases : e.when + Thresholds.silence <= seen.day
            /\ \A e \in seen.history :
                  /\ e.user = Caller /\ e.user \notin SystemAccounts \cup {Nobody}
                  /\ e.field \in AgentActionFields
                  => \E w \in people : w.when >= e.when

\* What a pass makes of an incident rests on the SLA in force, on weights somebody meant and
\* on what people said.
TriageIsSound == TypeOK /\ SupersededNeverCounts /\ PointsAddUp /\ CandidatesAreSilent

Stages(recs) == [i \in DOMAIN recs |-> <<recs[i].kind, recs[i].days, recs[i].stage>>]

Stronger == [SLA_AT_RISK |-> "SLA_BREACHED", NO_RECENT_ACTIVITY |-> "PROLONGED_INACTIVITY"]

\* Two passes with nothing between them but days.
OnlyDays(a, b) ==
    /\ a.ticket = b.ticket /\ a.history = b.history /\ a.weights = b.weights
    /\ a.kb = b.kb /\ Stages(a.records) = Stages(b.records)

NoLower(a, b) ==
    /\ a.scored.score <= b.scored.score
    /\ \A f \in a.flags :
          \/ f \in b.flags
          \/ f \in DOMAIN Stronger /\ Stronger[f] \in b.flags

\* An incident nobody does anything about only gets worse from one pass to the next: its
\* score does not fall, and no flag goes but for the stronger of its kind.
WaitingOnlyWorsens ==
    [][seen # Rest /\ seen' # Rest /\ OnlyDays(seen, seen') => NoLower(seen, seen')]_seen

\* The entries of the history that the later of two passes sees and the earlier does not.
New(a, b) == b.history \ a.history

\* The idle time goes back to an earlier value only by the work of a person: no change of
\* fields, no integration, no entry of the caller, no hold reason read late.
OnlyWorkRestartsTheClock ==
    [][seen # Rest /\ seen' # Rest /\ seen'.signals.idle < seen.signals.idle =>
          \E e \in New(seen, seen') : Person(e.user) /\ e.field \in AgentActionFields]_seen

\* Two passes of a day with nothing between them but the work of people.
OnlyWork(a, b) ==
    /\ a.ticket = b.ticket /\ a.weights = b.weights /\ a.records = b.records
    /\ a.day = b.day /\ New(a, b) # {}
    /\ \A e \in New(a, b) : Person(e.user) /\ e.field \in AgentActionFields

\* Working on an incident, whatever is written, never moves it up the board on that day.
WorkNeverRaises ==
    [][seen # Rest /\ seen' # Rest /\ OnlyWork(seen, seen') =>
          seen'.scored.score <= seen.scored.score]_seen

\* From one pass to the next: what only work may do, and what it never does.
WorkCounts == OnlyWorkRestartsTheClock /\ WorkNeverRaises
=============================================================================
