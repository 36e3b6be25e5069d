--------------------------- MODULE Recommendations ---------------------------
(***************************************************************************)
(* The recommendation the board shows for one incident: the rows it has in  *)
(* `recommendation`, the passes that write them (pipeline/advisor.py,       *)
(* pipeline/orchestrator.py) and the view the board and the digests read.   *)
(* Every statement is keyed on the incident number, so one incident is the  *)
(* whole story.                                                             *)
(*                                                                          *)
(* A pass reads the ticket with its work list and the signals later, asks   *)
(* the cache, calls the model for as long as that takes, supersedes what is *)
(* live and upserts its own row: each a transaction of its own, while the   *)
(* hourly job, the digest job and the Re-analyse button run side by side.   *)
(* Whether there is a model is found out once in the life of a process.     *)
(*                                                                          *)
(* A row is its id, whether it is live (superseded = 0) and the day it was  *)
(* written.  Analyses are keyed by input_hash, the rule-based rows by their *)
(* date (uq_rec_input).  Texts, confidence and the accounting of knowledge  *)
(* articles are left out.                                                   *)
(***************************************************************************)
EXTENDS Naturals

CONSTANTS
    Pass,         \* what may analyse the incident: two jobs, the button
    ByHand,       \* those that force a fresh analysis: the button
    Fact,         \* what the ticket's columns, or its signals, may say
    Unread,       \* what a pass has not read yet
    Overlapping,  \* may two passes be in flight at once?
    Retain,       \* days prune keeps a superseded row
    MaxDay,       \* bound on the days
    MaxEvents     \* bound on changes, errors, restarts and clicks

ASSUME PassAssumption   == ByHand \subseteq Pass
ASSUME UnreadAssumption == Unread \notin Fact
ASSUME BoundAssumption  ==
    Overlapping \in BOOLEAN /\ Retain \in Nat /\ MaxDay \in Nat /\ MaxEvents \in Nat

VARIABLES
    ticket,    \* the columns of watched_ticket that enter the hash
    signals,   \* the latest ticket_signal, the timeline and the evidence
    analysis,  \* rows of recommendation written by the model
    fallback,  \* rows of recommendation written by the rules
    nextId,    \* AUTO_INCREMENT
    pass,      \* the pass in flight
    llm,       \* does this process have a model?  (ctx.advisor is not None)
    day,       \* utc_now().date()
    events,    \* changes, errors, restarts and clicks so far
    crowded    \* history: the last analysis to supersede did so while another was storing

vars == <<ticket, signals, analysis, fallback, nextId, pass, llm, day, events, crowded>>

Hash  == Fact \X Fact
Day   == 0..MaxDay
Row   == [id : Nat, live : BOOLEAN, day : Day]
Phase == {"idle", "begun", "loaded", "asking", "storing", "falling"}

PassState == [phase : Phase, ticket : Fact \cup {Unread}, signals : Fact \cup {Unread}]

Blank == [id |-> 0, live |-> FALSE, day |-> 0]
Idle  == [phase |-> "idle", ticket |-> Unread, signals |-> Unread]

TypeOK ==
    /\ ticket \in Fact /\ signals \in Fact
    /\ analysis \in [Hash -> Row] /\ fallback \in [Day -> Row]
    /\ nextId \in Nat \ {0}
    /\ pass \in [Pass -> PassState]
    /\ llm \in BOOLEAN /\ day \in Day /\ events \in 0..MaxEvents /\ crowded \in BOOLEAN

Init ==
    /\ ticket \in Fact /\ signals \in Fact
    /\ analysis = [h \in Hash |-> Blank] /\ fallback = [d \in Day |-> Blank]
    /\ nextId = 1
    /\ pass = [p \in Pass |-> Idle]
    /\ llm \in BOOLEAN
    /\ day = 0 /\ events = 0 /\ crowded = FALSE

Event == events < MaxEvents /\ events' = events + 1

\* One row per input_hash: the upsert writes over a row of the same key and keeps its
\* id, and puts it back in force ('superseded' is among update_columns).
Upsert(rows, k) ==
    /\ rows' = [rows EXCEPT ![k] = [id |-> IF @.id = 0 THEN nextId ELSE @.id,
                                    live |-> TRUE, day |-> day]]
    /\ nextId' = IF rows[k].id = 0 THEN nextId + 1 ELSE nextId

Superseded(rows) == [k \in DOMAIN rows |-> [rows[k] EXCEPT !.live = FALSE]]

-----------------------------------------------------------------------------
(* refresh_recommendations and Advisor.recommend.                           *)

To(p, phase) == pass' = [pass EXCEPT ![p].phase = phase]
Done(p)      == pass' = [pass EXCEPT ![p] = Idle]

\* compute_input_hash.
InputHash(p) == <<pass[p].ticket, pass[p].signals>>

\* The work list, and which of the two ways of filling it is taken.
Begin(p) ==
    /\ pass[p].phase = "idle"
    /\ Overlapping \/ \A q \in Pass : pass[q].phase = "idle"
    /\ IF p \in ByHand THEN Event ELSE UNCHANGED events
    /\ pass' = [pass EXCEPT ![p] = IF llm THEN [Idle EXCEPT !.phase = "begun", !.ticket = ticket]
                                          ELSE [Idle EXCEPT !.phase = "falling"]]
    /\ UNCHANGED <<ticket, signals, analysis, fallback, nextId, llm, day, crowded>>

\* _load_signals and the evidence: read per ticket, after the work list.
Load(p) ==
    /\ pass[p].phase = "begun"
    /\ pass' = [pass EXCEPT ![p].phase = "loaded", ![p].signals = signals]
    /\ UNCHANGED <<ticket, signals, analysis, fallback, nextId, llm, day, events, crowded>>

\* Mutant: only the newest row counts as cached.
HitNewest(p) ==
    p \notin ByHand /\ analysis[InputHash(p)].live /\ analysis[InputHash(p)].id = nextId - 1

\* cached(), unless forced.
Hit(p) == p \notin ByHand /\ analysis[InputHash(p)].live

Reuse(p) ==
    /\ pass[p].phase = "loaded" /\ Hit(p)
    /\ Done(p)
    /\ UNCHANGED <<ticket, signals, analysis, fallback, nextId, llm, day, events, crowded>>

Ask(p) ==
    /\ pass[p].phase = "loaded" /\ ~Hit(p)
    /\ To(p, "asking")
    /\ UNCHANGED <<ticket, signals, analysis, fallback, nextId, llm, day, events, crowded>>

\* Mutants: the rules' rows are not superseded, or nothing is.
SupersedeAnalyses(p) ==
    /\ pass[p].phase = "asking"
    /\ analysis' = Superseded(analysis)
    /\ crowded' = \E q \in Pass \ {p} : pass[q].phase = "storing"
    /\ To(p, "storing")
    /\ UNCHANGED <<ticket, signals, fallback, nextId, llm, day, events>>

SupersedeNothing(p) ==
    /\ pass[p].phase = "asking"
    /\ crowded' = \E q \in Pass \ {p} : pass[q].phase = "storing"
    /\ To(p, "storing")
    /\ UNCHANGED <<ticket, signals, analysis, fallback, nextId, llm, day, events>>

\* The answer is in: _persist takes every live row of the incident out of force.
Supersede(p) ==
    /\ pass[p].phase = "asking"
    /\ analysis' = Superseded(analysis) /\ fallback' = Superseded(fallback)
    /\ crowded' = \E q \in Pass \ {p} : pass[q].phase = "storing"
    /\ To(p, "storing")
    /\ UNCHANGED <<ticket, signals, nextId, llm, day, events>>

\* Mutant: 'superseded' is not among update_columns.
StoreAsItWas(p) ==
    /\ pass[p].phase = "storing"
    /\ LET h == InputHash(p) IN
         /\ analysis' = [analysis EXCEPT ![h] = IF @.id = 0
                                                THEN [id |-> nextId, live |-> TRUE, day |-> day]
                                                ELSE [@ EXCEPT !.day = day]]
         /\ nextId' = IF analysis[h].id = 0 THEN nextId + 1 ELSE nextId
    /\ Done(p)
    /\ UNCHANGED <<ticket, signals, fallback, llm, day, events, crowded>>

Store(p) ==
    /\ pass[p].phase = "storing"
    /\ Upsert(analysis, InputHash(p))
    /\ Done(p)
    /\ UNCHANGED <<ticket, signals, fallback, llm, day, events, crowded>>

\* _fallback_all: no cache, and nothing is superseded.
Fallback(p) ==
    /\ pass[p].phase = "falling"
    /\ Upsert(fallback, day)
    /\ Done(p)
    /\ UNCHANGED <<ticket, signals, analysis, llm, day, events, crowded>>

\* The model or a statement raises: this ticket fails and the pass goes on.
Fail(p) ==
    /\ pass[p].phase # "idle" /\ Event
    /\ Done(p)
    /\ UNCHANGED <<ticket, signals, analysis, fallback, nextId, llm, day, crowded>>

-----------------------------------------------------------------------------
(* What happens around the passes.                                          *)

\* A sync, or refresh_signals, writes something that matters to the hash.
TicketChanges ==
    /\ Event
    /\ ticket' \in Fact \ {ticket}
    /\ UNCHANGED <<signals, analysis, fallback, nextId, pass, llm, day, crowded>>

SignalsChange ==
    /\ Event
    /\ signals' \in Fact \ {signals}
    /\ UNCHANGED <<ticket, analysis, fallback, nextId, pass, llm, day, crowded>>

NextDay ==
    /\ day < MaxDay
    /\ day' = day + 1
    /\ UNCHANGED <<ticket, signals, analysis, fallback, nextId, pass, llm, events, crowded>>

\* The service starts again; LlmClient can be built this time, or cannot.
Restart ==
    /\ Event
    /\ pass' = [p \in Pass |-> Idle]
    /\ llm' \in BOOLEAN
    /\ UNCHANGED <<ticket, signals, analysis, fallback, nextId, day, crowded>>

Outdated(row) == row.id # 0 /\ ~row.live /\ row.day + Retain < day

Kept(rows) == [k \in DOMAIN rows |-> IF Outdated(rows[k]) THEN Blank ELSE rows[k]]

\* prune: superseded rows past the retention.
Prune ==
    /\ analysis' = Kept(analysis) /\ fallback' = Kept(fallback)
    /\ UNCHANGED <<ticket, signals, nextId, pass, llm, day, events, crowded>>

Continue(p) ==
    Load(p) \/ Reuse(p) \/ Ask(p) \/ Supersede(p) \/ Store(p) \/ Fallback(p)

Next ==
    \/ \E p \in Pass : Begin(p) \/ Continue(p) \/ Fail(p)
    \/ TicketChanges \/ SignalsChange \/ NextDay \/ Restart \/ Prune

Spec == Init /\ [][Next]_vars

\* The scheduler starts its jobs again and again, and a pass that started runs on.
\* Nobody has to press the button.
Fairness ==
    /\ \A p \in Pass \ ByHand : WF_vars(Begin(p))
    /\ \A p \in Pass : WF_vars(Continue(p))

FairSpec == Spec /\ Fairness

-----------------------------------------------------------------------------
(* Properties.                                                              *)

\* v_current_board: of the live rows of the incident, the one with the highest id.
Shown(row) ==
    /\ row.live
    /\ \A h \in Hash : analysis[h].live => analysis[h].id <= row.id
    /\ \A d \in Day : fallback[d].live => fallback[d].id <= row.id

\* Two analyses of one incident are in force together only if two passes were storing
\* at once, and the next pass that stores by itself ends it: errors and restarts
\* between the two statements of _persist leave none in force, never two.
OneAnalysisLive ==
    ~crowded => \A g, h \in Hash : analysis[g].live /\ analysis[h].live => g = h

\* What a pass has just stored is what the board shows, also when the upsert brings back
\* an old row whose id is lower than those of the rows written since, and also after
\* days of rule-based rows.
StoredIsShown ==
    [][\A p \in Pass, h \in Hash :
          Store(p) /\ ~crowded /\ h = InputHash(p) => Shown(analysis[h])']_vars

\* The passes no longer overlap.
Apart == \A p, q \in Pass : pass[p].phase # "idle" /\ pass[q].phase # "idle" => p = q

\* Once nothing changes any more and passes keep apart, the answer to what the ticket is
\* like now is in force; without a model, today's rule-based row is.
LatestIsLive ==
    <>[]Apart =>
        <>[](IF llm THEN analysis[<<ticket, signals>>].live ELSE fallback[day].live)

\* "In steady state this keeps real model calls to the tickets that actually moved"
\* (advisor.py): an incident that stays as it is costs no more calls.  (Two jobs in step
\* may keep finding each other between the two statements of _persist.)
ModelCallsStop == <>[]Apart => <>[](\A p \in Pass : pass[p].phase # "asking")

-----------------------------------------------------------------------------
(* The strengthening of OneAnalysisLive that is inductive.                  *)

Storing(p) == pass[p].phase = "storing"

\* Passes that ask the model exist only in a process that has one, the others only in
\* one that has none; a hash is of things read.
OneWay ==
    \A p \in Pass :
        /\ pass[p].phase = "falling" => ~llm
        /\ pass[p].phase \in {"begun", "loaded", "asking", "storing"} =>
              llm /\ pass[p].ticket \in Fact
        /\ pass[p].phase \in {"loaded", "asking", "storing"} => pass[p].signals \in Fact

\* Between the two statements of a pass that stores by itself, nothing is in force.
NothingLiveWhileStoring ==
    \A p \in Pass : Storing(p) /\ ~crowded =>
        /\ \A q \in Pass : Storing(q) => q = p
        /\ \A h \in Hash : ~analysis[h].live
        /\ \A d \in Day : ~fallback[d].live

IInv == TypeOK /\ OneWay /\ NothingLiveWhileStoring /\ OneAnalysisLive

=============================================================================
