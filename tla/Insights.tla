------------------------------ MODULE Insights ------------------------------
(***************************************************************************)
(* The insight pages (web/insights.py) over the board and the trends of     *)
(* module Rollup: what operations, backlog, risk, people and the summary    *)
(* say to a caller of some queues.  The pages read; a change of state is    *)
(* Rollup's.                                                                *)
(*                                                                          *)
(* A page is the figures of its tiles; charts, wording and the lists of     *)
(* tickets below them are left out.  A profile has, besides what the rollup *)
(* counts, whether the ticket is stale, the days to its projected breach    *)
(* (0: none) and the share of its SLA that is used.                         *)
(***************************************************************************)
EXTENDS Rollup, Integers, FiniteSetsExt

CONSTANTS
    Holder,         \* by ticket, to whom it is assigned
    Nobody,         \* it is not
    Preset,         \* _PRESET_DAYS
    DefaultRange,   \* DEFAULT_RANGE
    MaxRangeDays,   \* MAX_RANGE_DAYS
    NoDate          \* missing, or not a date

-----------------------------------------------------------------------------
(* parse_range, the window a page is read with.                             *)

Lower(a, b)  == IF a < b THEN a ELSE b
Higher(a, b) == IF a > b THEN a ELSE b

Clamped(key, start, end, today) ==
    [key |-> key, start |-> Higher(start, today - (MaxRangeDays - 1)), end |-> Lower(end, today)]

\* Mutant: clamped before they are put in order.
ClampedFirst(start, end, today) ==
    LET w == Clamped("custom", start, end, today)
    IN  [key |-> "custom", start |-> Lower(w.start, w.end), end |-> Higher(w.start, w.end)]

\* Two dates in either order.
Custom(start, end, today) ==
    Clamped("custom", Lower(start, end), Higher(start, end), today)

Named(key, today) ==
    LET chosen == IF key \in DOMAIN Preset THEN key ELSE DefaultRange
    IN  [key |-> chosen, start |-> today - (Preset[chosen] - 1), end |-> today]

\* Two dates are a custom range, whatever the key.
ParseRange(key, start, end, today) ==
    IF NoDate \notin {start, end} THEN Custom(start, end, today) ELSE Named(key, today)

DaysIn(window) == window.end - window.start + 1

-----------------------------------------------------------------------------
(* v_current_board: active tickets that have a signal, with their last one. *)

LatestSignal(t) == LastSignal(t, FinalDay(t))

OnTheBoard == {t \in Ticket : board[t].shown /\ DaysOf(t) # {}}

\* Mutant: no queues is no restriction.
ScopeUnlessEmpty(queues, of) == IF queues = {} THEN Queue ELSE queues \cap of

\* Insights.scope: of the queues "of", those in the caller's.
Scope(queues, of) == queues \cap of

InScope(tickets, queues) ==
    {t \in tickets : board[t].queue \in Scope(queues, Queue)}

Board(tickets, queues) == {t \in InScope(tickets, queues) : ~board[t].snoozed}

Number(rows, P(_)) == Cardinality({t \in rows : P(LatestSignal(t))})

\* Insights.daily: a row per day that has one, summed across the queues.
InRange(d) == LET window == Named(DefaultRange, day) IN d \in window.start..window.end

DaysWithRows(trend, queues) ==
    {d \in Day : InRange(d) /\ \E q \in Scope(queues, Queue) : trend[d][q] # NoRow}

\* Mutant: one of the queues stands for the day.
DailyOfOne(trend, queues, column) ==
    [d \in DaysWithRows(trend, queues) |->
        trend[d][CHOOSE q \in Scope(queues, Queue) : trend[d][q] # NoRow][column]]

Daily(trend, queues, column) ==
    [d \in DaysWithRows(trend, queues) |->
        MapThenSumSet(LAMBDA q : trend[d][q][column], Scope(queues, Queue))]

-----------------------------------------------------------------------------
(* The pages.                                                               *)

Unassigned(rows) == Cardinality({t \in rows : Holder[t] = Nobody})

Operations(tickets, queues) ==
    LET rows == Board(tickets, queues)
    IN  [total      |-> Cardinality(rows),
         team       |-> Number(rows, LAMBDA p : p.team),
         breached   |-> Number(rows, LAMBDA p : p.breached),
         stale      |-> Number(rows, LAMBDA p : p.stale),
         soon       |-> Number(rows, LAMBDA p : ~p.breached /\ p.due \in 1..2),
         unassigned |-> Unassigned(rows)]

\* Breached or not, a bar each; and how near a breach the others are.
Runway(rows) ==
    [under50  |-> Number(rows, LAMBDA p : p.used = "under50"),
     to75     |-> Number(rows, LAMBDA p : p.used = "to75"),
     to100    |-> Number(rows, LAMBDA p : p.used \in {"over75", "over100"} /\ ~p.breached),
     breached |-> Number(rows, LAMBDA p : p.breached),
     noSla    |-> Number(rows, LAMBDA p : p.used = "none"),
     buckets  |-> [d \in 1..3 |-> Number(rows, LAMBDA p : ~p.breached /\ p.due = d)]]

\* Mutant: one of the queries forgets what is snoozed.
RiskWithSnoozed(tickets, queues) == Runway(InScope(tickets, queues))

Risk(tickets, queues) == Runway(Board(tickets, queues))

\* By who holds them; the twenty busiest are everybody here.
People(tickets, queues) ==
    LET rows   == Board(tickets, queues)
        agents == {Holder[t] : t \in rows}
        of(a)  == Cardinality({t \in rows : Holder[t] = a})
    IN  [agents     |-> Cardinality(agents),
         total      |-> MapThenSumSet(of, agents),
         busiest    |-> IF agents = {} THEN 0 ELSE Max({of(a) : a \in agents}),
         breached   |-> MapThenSumSet(LAMBDA a :
                            Number({t \in rows : Holder[t] = a}, LAMBDA p : p.breached), agents),
         unassigned |-> IF Nobody \in agents THEN of(Nobody) ELSE 0]

Sum(series) == MapThenSumSet(LAMBDA d : series[d], DOMAIN series)

\* Absent until a rollup has written a row of the range.
Backlog(trend, queues) ==
    LET tickets == Daily(trend, queues, "tickets")
        days    == DOMAIN tickets
    IN  IF days = {} THEN [awaiting |-> TRUE]
        ELSE [now     |-> tickets[Max(days)],
              change  |-> tickets[Max(days)] - tickets[Min(days)],
              arrived |-> Sum(Daily(trend, queues, "newly")),
              retired |-> Sum(Daily(trend, queues, "retired"))]

\* Of the summary, the tiles that read the rollup.
Summary(trend, queues) ==
    LET last(column) == LET s == Daily(trend, queues, column) IN s[Max(DOMAIN s)]
    IN  IF DaysWithRows(trend, queues) = {} THEN [awaiting |-> TRUE]
        ELSE [now |-> last("tickets"), breached |-> last("breached"), over30 |-> last("over30"),
              opened |-> Sum(Daily(trend, queues, "newly")),
              closed |-> Sum(Daily(trend, queues, "retired"))]

Pages(tickets, trend, queues) ==
    <<Operations(tickets, queues), Risk(tickets, queues), People(tickets, queues),
      Backlog(trend, queues), Summary(trend, queues)>>

-----------------------------------------------------------------------------
(* Properties.                                                              *)

\* Whatever is asked for, no page reads beyond today or before what retention keeps, nor an
\* empty window - unless both dates lie on one side of that.
RangeIsSound ==
    LET dates == (day - MaxRangeDays - 1)..(day + 2)
    IN  \A start \in dates, end \in dates :
            LET w == ParseRange("custom", start, end, day)
            IN  /\ w.end <= day /\ DaysIn(w) <= MaxRangeDays
                /\ w = ParseRange("", end, start, day)
                /\ \/ DaysIn(w) >= 1
                   \/ start > day /\ end > day
                   \/ start <= day - MaxRangeDays /\ end <= day - MaxRangeDays

Without(trend, queues) ==
    [d \in Day |-> [q \in Queue |-> IF q \in queues THEN trend[d][q] ELSE NoRow]]

\* No figure of a page tells anything of a queue the caller does not have: it is what it
\* would be if the tickets and the trends of the others did not exist.  ("An unprovisioned
\* account must see an empty page, never the estate.")
ScopedPages ==
    \A queues \in SUBSET Queue :
        Pages(OnTheBoard, daily, queues)
            = Pages({t \in OnTheBoard : board[t].queue \in queues}, Without(daily, queues), queues)

\* Pages read side by side do not contradict each other, though each asks on its own.
PagesAgree ==
    \A queues \in SUBSET Queue :
        LET o == Operations(OnTheBoard, queues)
            r == Risk(OnTheBoard, queues)
            p == People(OnTheBoard, queues)
        IN  /\ o.total = p.total /\ o.unassigned = p.unassigned
            /\ o.total = r.under50 + r.to75 + r.to100 + r.breached + r.noSla
            /\ o.breached = r.breached /\ o.breached = p.breached
            /\ o.soon = r.buckets[1] + r.buckets[2]

\* After a night whose rollup succeeded, what the trends say of now is what the board shows,
\* snoozed tickets included, until a ticket comes, goes or moves or the day is over -
\* whichever earlier passes and nights were missed, for callers some queue of whom has any.
HeadlineAgrees ==
    built[day] = day /\ history.still =>
        \A queues \in SUBSET Queue :
            LET rows == InScope(OnTheBoard, queues)
                s    == Summary(daily, queues)
            IN  rows # {} =>
                  /\ s.now = Cardinality(rows) /\ Backlog(daily, queues).now = s.now
                  /\ s.breached = Number(rows, LAMBDA p : p.breached)
                  /\ s.over30 = Number(rows, LAMBDA p : p.over30)
=============================================================================
