----------------------------- MODULE BoardViews -----------------------------
(***************************************************************************)
(* Who sees which tickets of the board, and what the board, its exports,    *)
(* the agents page, the ticket page and the API (web/app.py) make of them   *)
(* with DigestBuilder (delivery/digest.py), over the board and the signals  *)
(* of module Rollup and beside the pages of module Insights.                *)
(*                                                                          *)
(* A profile has a score too.  Names of queues are what is left of them     *)
(* once they are stripped and lower-cased, which is how every comparison    *)
(* takes them; a ticket may be of no queue.                                 *)
(***************************************************************************)
EXTENDS Insights

CONSTANTS
    NoQueue,      \* a ticket's queue when it has none
    Configured,   \* servicenow.assignment_groups
    Caller,       \* accounts that ask: [role, groups]
    AnyOf,          \* no filter
    Filter        \* bound: the filters that are tried, of all queues

-----------------------------------------------------------------------------
(* Scope.                                                                   *)

\* AppContext.known_assignment_groups: configured, or seen on a ticket, active or not.
KnownGroups == Configured \cup ({board[t].queue : t \in Ticket} \ {NoQueue})

\* Mutant: leads without queues are not restricted either.
UnrestrictedToo(caller) == caller.role # "VIEWER"

Unrestricted(caller) == caller.role = "ADMIN"

VisibleGroups(caller) ==
    IF caller.groups = {}
    THEN IF Unrestricted(caller) THEN KnownGroups ELSE {}
    ELSE KnownGroups \cap caller.groups

CanSeeGroup(caller, queue) ==
    IF caller.groups = {} THEN caller.role = "ADMIN" ELSE queue \in caller.groups

\* A queue out of scope narrows to nothing.
NarrowScope(caller, queue) ==
    IF queue = AnyOf THEN VisibleGroups(caller)
    ELSE IF CanSeeGroup(caller, queue) THEN {queue} ELSE {}

\* fetch_in_scope: the ticket page, its forms, /api/ticket.
Fetchable(caller) == {t \in OnTheBoard : CanSeeGroup(caller, board[t].queue)}

-----------------------------------------------------------------------------
(* The rows of the board.                                                   *)

\* With a filter [group, agent, ball, minScore, showSnoozed].
BoardRows(groups, f) ==
    {t \in OnTheBoard :
        /\ f.showSnoozed \/ ~board[t].snoozed
        /\ LatestSignal(t).score >= f.minScore
        /\ groups = {} \/ board[t].queue \in groups
        /\ f.agent \in {AnyOf, Holder[t]}}

\* Mutant: board_rows is asked whatever the scope.
SelectionUnguarded(caller, f) == BoardRows(NarrowScope(caller, f.group), f)

\* _board_selection, shared by the board and its exports.
BoardSelection(caller, f) ==
    LET groups == NarrowScope(caller, f.group)
        rows   == IF groups = {} THEN {} ELSE BoardRows(groups, f)
    IN  IF f.ball = AnyOf THEN rows ELSE {t \in rows : LatestSignal(t).team}

Plain == [group |-> AnyOf, agent |-> AnyOf, ball |-> AnyOf, minScore |-> 0, showSnoozed |-> FALSE]

\* The agents page and the API ask with fewer filters.
AgentsRows(caller, group) == BoardSelection(caller, [Plain EXCEPT !.group = group])

ApiBoard(caller, group, minScore) ==
    BoardSelection(caller, [Plain EXCEPT !.group = group, !.minScore = minScore])

-----------------------------------------------------------------------------
(* What is said of the rows.                                                *)

Summarise(rows) ==
    [total    |-> Cardinality(rows),
     team     |-> Number(rows, LAMBDA p : p.team),
     breached |-> Number(rows, LAMBDA p : p.breached)]

\* Mutant: those of nobody are left out.
ByAgentNamed(rows) ==
    [a \in {Holder[t] : t \in rows} \ {Nobody} |->
        LET of == {t \in rows : Holder[t] = a}
        IN  [tickets |-> Cardinality(of), breached |-> Number(of, LAMBDA p : p.breached)]]

ByAgent(rows) ==
    [a \in {Holder[t] : t \in rows} |->
        LET of == {t \in rows : Holder[t] = a}
        IN  [tickets |-> Cardinality(of), breached |-> Number(of, LAMBDA p : p.breached)]]

\* More than 24 hours ago: yesterday's early pass is, once today's is over.
DayAgo(s) == s[1] + 1 < day \/ (s[1] + 1 = day /\ s[2] = "early" /\ part # "early")

\* The signals from then that are still there.
DayOld(t) == {s \in Day \X Shift : s[2] \in Rows(t, s[1]) /\ DayAgo(s)}

PriorScore(t) ==
    Max({p.score : p \in UNION {signals[t][s[1]][s[2]] : s \in DayOld(t)}})

\* movement_since: against the highest score the ticket ever had.
Movement(rows) ==
    LET known == {t \in rows : DayOld(t) # {}}
        worse == {t \in known : LatestSignal(t).score >= PriorScore(t) + 10}
    IN  [new |-> rows \ known, worsening |-> worse, steady |-> known \ worse]

-----------------------------------------------------------------------------
(* Properties.                                                              *)

\* Lists and single tickets are of one scope: what any list, export or count shows a caller
\* he can open; what he can open the unfiltered board lists, unless it is of no queue or
\* snoozed.  Whatever the queue a ticket moved to meanwhile.
ScopeIsOneRule ==
    \A caller \in Caller :
        /\ \A f \in Filter, group \in KnownGroups \cup {AnyOf} :
              BoardSelection(caller, [f EXCEPT !.group = group]) \subseteq Fetchable(caller)
        /\ \A t \in Fetchable(caller) :
              board[t].queue # NoQueue =>
                  t \in BoardSelection(caller, [Plain EXCEPT !.showSnoozed = TRUE])

\* The board, the agents beside it, the API and the insight pages agree about how many
\* tickets there are, for every caller and queue.
CountsAgree ==
    \A caller \in Caller, group \in KnownGroups \cup {AnyOf} :
        LET rows   == BoardSelection(caller, [Plain EXCEPT !.group = group])
            said   == Summarise(rows)
            agents == ByAgent(AgentsRows(caller, group))
            o      == Operations(OnTheBoard, NarrowScope(caller, group))
        IN  /\ rows = ApiBoard(caller, group, 0)
            /\ said = [f \in DOMAIN said |-> o[f]]
            /\ said.total = MapThenSumSet(LAMBDA a : agents[a].tickets, DOMAIN agents)
            /\ said.breached = MapThenSumSet(LAMBDA a : agents[a].breached, DOMAIN agents)

\* Retention makes no ticket look new: one that is listed as new had no signal from more
\* than a day ago since the retention period began.
NewIsNew ==
    \A t \in Movement(OnTheBoard).new :
        \A s \in Day \X Shift :
            DayAgo(s) /\ s[1] + RetainDays > day => signals[t][s[1]][s[2]] = {}
=============================================================================
