------------------------------- MODULE Rollup -------------------------------
(***************************************************************************)
(* The trends: the signals the passes leave behind, day by day, the rollup  *)
(* of the trailing days the nightly job writes to signal_daily, and the     *)
(* prune that follows it, while tickets come, go and change and while       *)
(* passes and nights are missed.                                            *)
(*                                                                          *)
(* A day has a pass before the nightly job and one after it.  A signal is   *)
(* one of a few profiles: what the rollup counts of a ticket.               *)
(***************************************************************************)
EXTENDS Naturals, FiniteSets

CONSTANTS
    Ticket, Queue,
    Profile,      \* what a pass may find: records of team, breached, over30
    Opening,      \* the board the story begins with
    WindowDays,   \* DEFAULT_WINDOW_DAYS
    RetainDays,   \* prune: retain_days
    LastDay,      \* bound: days the story lasts
    MaxEvents     \* bound: changes of the board, missed passes, failed jobs

VARIABLES
    day, part,   \* today; "early", "rollup", "prune", "late"
    board,       \* by ticket: [queue, shown, snoozed, profile]
    signals,     \* ticket_signal, nothing dropped: by ticket and day, the profiles of its passes
    kept,        \* the day prune has reached, counted from one; 0: it dropped nothing
    daily,       \* signal_daily: by day and queue
    next,        \* the day the rollup builds next
    built,       \* history: by day, the day of its last build
    history,     \* history: has a ticket moved, or come back; is the board still that of today's pass
    events

vars == <<day, part, board, signals, kept, daily, next, built, history, events>>

Day   == 0..LastDay
Shift == {"early", "late"}

NoRow    == [tickets |-> 0, team |-> 0, breached |-> 0, over30 |-> 0, newly |-> 0, retired |-> 0]
Never    == LastDay + 1
Silence  == [s \in Shift |-> {}]

Happens == events < MaxEvents /\ events' = events + 1

-----------------------------------------------------------------------------
(* The passes and the board.                                                *)

Signalled(shift) ==
    signals' = [t \in Ticket |->
                  IF board[t].shown THEN [signals[t] EXCEPT ![day][shift] = {board[t].profile}]
                  ELSE signals[t]]

\* Mutant: only today is rolled up.
OnlyToday(today) == today

FirstOfWindow(today) == IF today + 1 > WindowDays THEN today + 1 - WindowDays ELSE 0

Onward ==
    IF part = "early"
    THEN part' = "rollup" /\ day' = day /\ next' = FirstOfWindow(day)
    ELSE part' = "early" /\ day' = day + 1 /\ next' = next

PassOfTheDay ==
    /\ part \in Shift /\ (part = "late" => day < LastDay)
    /\ Signalled(part) /\ Onward
    /\ history' = [history EXCEPT !.still = part = "early"]
    /\ UNCHANGED <<board, kept, daily, built, events>>

PassMissed ==
    /\ part \in Shift /\ (part = "late" => day < LastDay)
    /\ Happens /\ Onward
    /\ history' = [history EXCEPT !.still = FALSE]
    /\ UNCHANGED <<board, signals, kept, daily, built>>

Appears(t) == \E d \in Day, s \in Shift : signals[t][d][s] # {}

BoardChanges ==
    /\ part \in Shift /\ Happens
    /\ \E t \in Ticket :
         \/ /\ board' = [board EXCEPT ![t].shown = ~@]
            /\ history' = [history EXCEPT !.returned = @ \/ (~board[t].shown /\ Appears(t)),
                                          !.still = FALSE]
         \/ /\ \E q \in Queue \ {board[t].queue} : board' = [board EXCEPT ![t].queue = q]
            /\ history' = [history EXCEPT !.moved = TRUE, !.still = FALSE]
         \/ /\ \E p \in Profile \ {board[t].profile} : board' = [board EXCEPT ![t].profile = p]
            /\ UNCHANGED history
         \/ board' = [board EXCEPT ![t].snoozed = ~@] /\ UNCHANGED history
    /\ UNCHANGED <<day, part, signals, kept, daily, next, built>>

-----------------------------------------------------------------------------
(* build_day over what ticket_signal still holds.                           *)

Rows(t, d) ==
    {s \in Shift : /\ signals[t][d][s] # {}
                   /\ d + 1 > kept \/ (d + 1 = kept /\ s = "late")}

Held(t, d)  == Rows(t, d) # {}
DaysOf(t)   == {d \in Day : Held(t, d)}
FirstDay(t) == CHOOSE d \in DaysOf(t) : \A e \in DaysOf(t) : d <= e
FinalDay(t) == CHOOSE d \in DaysOf(t) : \A e \in DaysOf(t) : d >= e

LastSignal(t, d) ==
    CHOOSE p \in Profile : p \in signals[t][d][IF "late" \in Rows(t, d) THEN "late" ELSE "early"]

\* watched_ticket is joined as it is now.
Items(d, q) == {t \in Ticket : Held(t, d) /\ board[t].queue = q}

Aggregate(d, items) ==
    [tickets  |-> Cardinality(items),
     team     |-> Cardinality({t \in items : LastSignal(t, d).team}),
     breached |-> Cardinality({t \in items : LastSignal(t, d).breached}),
     over30   |-> Cardinality({t \in items : LastSignal(t, d).over30})]

\* A departure is counted on the day after the last.
Flow(d, q) ==
    LET of == {t \in Ticket : board[t].queue = q /\ DaysOf(t) # {}}
    IN  [newly   |-> Cardinality({t \in of : FirstDay(t) = d}),
         retired |-> Cardinality({t \in of : FinalDay(t) + 1 = d})]

\* A queue without a signal that day keeps whatever row it has.
Record(d, q) ==
    LET of == Aggregate(d, Items(d, q))
    IN  IF Items(d, q) = {} THEN daily[d][q]
        ELSE [f \in DOMAIN NoRow |-> IF f \in DOMAIN of THEN of[f] ELSE Flow(d, q)[f]]

-----------------------------------------------------------------------------
(* nightly_maintenance: the rollup of the window, then the prune.           *)

BuildDay ==
    /\ part = "rollup" /\ next <= day
    /\ daily' = [daily EXCEPT ![next] = [q \in Queue |-> Record(next, q)]]
    /\ built' = [built EXCEPT ![next] = day]
    /\ next' = next + 1
    /\ UNCHANGED <<day, part, board, signals, kept, history, events>>

RollupDone ==
    /\ part = "rollup" /\ next > day
    /\ part' = "prune"
    /\ UNCHANGED <<day, board, signals, kept, daily, next, built, history, events>>

\* Each stage has its own try: a rollup that fails does not hold up the prune.
RollupFails ==
    /\ part = "rollup" /\ next <= day /\ Happens
    /\ part' = "prune"
    /\ UNCHANGED <<day, board, signals, kept, daily, next, built, history>>

\* Mutant: today is counted among the days to drop.
KeptFromTomorrow(today) == IF today + 1 >= RetainDays THEN today - RetainDays + 2 ELSE 0

\* What is older than retain_days goes: all before the day of that number, counted from
\* one, and of that day the signals from before this hour.
KeptFrom(today) == IF today >= RetainDays THEN today - RetainDays + 1 ELSE 0

Prune ==
    /\ part = "prune"
    /\ part' = "late" /\ kept' = KeptFrom(day)
    /\ UNCHANGED <<day, board, signals, daily, next, built, history, events>>

PruneFails ==
    /\ part = "prune" /\ Happens
    /\ part' = "late"
    /\ UNCHANGED <<day, board, signals, kept, daily, next, built, history>>

Init ==
    /\ day = 0 /\ part = "early"
    /\ board = Opening
    /\ signals = [t \in Ticket |-> [d \in Day |-> Silence]]
    /\ kept = 0
    /\ daily = [d \in Day |-> [q \in Queue |-> NoRow]]
    /\ next = 0 /\ built = [d \in Day |-> Never]
    /\ history = [moved |-> FALSE, returned |-> FALSE, still |-> FALSE]
    /\ events = 0

Next ==
    \/ PassOfTheDay \/ PassMissed \/ BoardChanges
    \/ BuildDay \/ RollupDone \/ RollupFails
    \/ Prune \/ PruneFails

Spec == Init /\ [][Next]_vars

-----------------------------------------------------------------------------
(* Properties.                                                              *)

Had(t, d)     == \E s \in Shift : signals[t][d][s] # {}
Before(t, d)  == \E e \in Day : e < d /\ Had(t, e)
After(t, d)   == \E e \in Day : e >= d /\ Had(t, e)
LastThat(t, d) == IF signals[t][d]["late"] # {} THEN signals[t][d]["late"]
                  ELSE signals[t][d]["early"]

\* What the trend should say of a day, from everything the passes ever found.
Truth(d, q) ==
    LET there(t) == board[t].queue = q /\ Had(t, d)
    IN  [tickets  |-> Cardinality({t \in Ticket : there(t)}),
         team     |-> Cardinality({t \in Ticket : there(t) /\ \E p \in LastThat(t, d) : p.team}),
         breached |-> Cardinality({t \in Ticket : there(t) /\ \E p \in LastThat(t, d) : p.breached}),
         over30   |-> Cardinality({t \in Ticket : there(t) /\ \E p \in LastThat(t, d) : p.over30}),
         newly    |-> Cardinality({t \in Ticket : there(t) /\ ~Before(t, d)}),
         retired  |-> Cardinality({t \in Ticket : /\ board[t].queue = q
                                                  /\ d > 0 /\ Had(t, d - 1) /\ ~After(t, d)})]

\* Was the day rolled up after it was over, or does tonight's window reach back to it?
Settled(d) ==
    \/ built[d] # Never /\ d < built[d]
    \/ built[day] = day /\ d < day /\ d + WindowDays > day

\* Of the signals before that day, one is kept until the window has left the day behind.
Remembered(t, d) ==
    Before(t, d) => \E e \in Day : e < d /\ Had(t, e) /\ d + WindowDays <= e + RetainDays + 1

\* A night that succeeds leaves every past day of its window right, and a day that is once
\* right stays so: whichever nights failed before or after, and however much has been pruned
\* since - for queues that had any tickets, as long as tickets do not move or come back, nor
\* passes fail for so long that retention forgets who was there before.
TrendIsRight ==
    \A d \in Day, q \in Queue :
        /\ Settled(d)
        /\ ~history.moved /\ ~history.returned /\ Truth(d, q).tickets > 0
        /\ \A t \in Ticket : board[t].queue = q /\ Had(t, d) => Remembered(t, d)
        => daily[d][q] = Truth(d, q)
=============================================================================
