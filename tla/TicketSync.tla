----------------------------- MODULE TicketSync -----------------------------
(***************************************************************************)
(* The copy of ServiceNow's open incidents the board is drawn from          *)
(* (pipeline/sync.py over core/snow/incidents.py): watched_ticket, the      *)
(* delta watermark in sync_state, the delta and full runs of the scheduler, *)
(* which may overlap each other, and the webhook's single-ticket refresh    *)
(* (web/app.py _refresh_single).                                            *)
(*                                                                          *)
(* ServiceNow is external: an incident is where it is (place), when it was  *)
(* opened and last updated, and a version that tells two updates within     *)
(* one second apart.  A query is a snapshot; every row a run stores is a    *)
(* transaction of its own.  The service's clock runs Skew ahead of          *)
(* ServiceNow's, and both count in the unit sys_updated_on is kept in.      *)
(***************************************************************************)
EXTENDS Integers, FiniteSets

CONSTANTS
    Ticket,       \* incident numbers
    Run,          \* the jobs of the scheduler that synchronise
    FullRuns,     \* those that run a full sync; the others run a delta
    NoMark,       \* no watermark stored
    Overlap,      \* OVERLAP_MINUTES
    AgedAfter,    \* settings.aged_after_days
    Window,       \* COLD_START_DAYS
    Skew,         \* how far the service's clock is ahead of ServiceNow's
    Ceiling,      \* sync.max_reconcile_per_run
    Overlapping,  \* may two runs be in flight at once?
    WebhookOn,    \* does ServiceNow push updates?
    Places,       \* where an update may leave an incident
    MaxTime,      \* bound on ServiceNow's clock
    MaxVersion,   \* bound on the updates of one incident
    MaxFailures   \* bound on errors and restarts

ASSUME RunAssumption      == FullRuns \subseteq Run
ASSUME MarkAssumption     == NoMark \notin Int
ASSUME ClockAssumption    == Overlap \in Nat /\ AgedAfter \in Nat /\ Window \in Nat /\ Skew \in Nat
ASSUME SkewAssumption     == Skew < Overlap /\ Skew < Window
ASSUME WindowAssumption   == AgedAfter < Window
ASSUME SwitchAssumption   == Overlapping \in BOOLEAN /\ WebhookOn \in BOOLEAN
ASSUME PlacesAssumption   == Places \subseteq {"ours", "resolved", "moved", "deleted"}
ASSUME SyncBoundAssumption ==
    MaxTime \in Nat /\ MaxVersion \in Nat /\ MaxFailures \in Nat /\ Ceiling \in Nat

VARIABLES
    now,        \* ServiceNow's clock
    snow,       \* ServiceNow's incidents
    row,        \* watched_ticket
    watermark,  \* sync_state
    run,        \* the run each job has in flight
    hook,       \* the webhook refresh in flight for each ticket
    posted,     \* pushes ServiceNow has sent that nobody has picked up
    failures,   \* errors and restarts so far
    seen        \* history: the newest version of each incident ever stored

vars == <<now, snow, row, watermark, run, hook, posted, failures, seen>>

Place == {"none", "ours", "resolved", "moved", "deleted"}
Copy  == [place : Place, opened : Nat, stamp : Nat, ver : Nat]
Phase == {"idle", "started", "aged", "persist", "reconcile", "refresh", "judge", "failing"}

\* since: the delta's lower bound, or the watermark a failing run is about to restore.
\* rows: what the run has fetched.  todo: rows to store, then tickets to re-read.
\* excused: history, the tickets a full run is not answerable for - updated since it
\* began, unreadable, or beyond the ceiling.
RunState == [phase : Phase, started : Nat, since : Int \cup {NoMark}, high : Nat,
             rows : [Ticket -> Copy], todo : SUBSET Ticket, cur : SUBSET Ticket,
             excused : SUBSET Ticket]

Absent == [place |-> "none", opened |-> 0, stamp |-> 0, ver |-> 0]
NoRow  == [copy |-> Absent, active |-> FALSE]
Idle   == [phase |-> "idle", started |-> 0, since |-> NoMark, high |-> 0,
           rows |-> [t \in Ticket |-> Absent], todo |-> {}, cur |-> {}, excused |-> {}]

TypeOK ==
    /\ now \in Nat
    /\ snow \in [Ticket -> Copy]
    /\ row \in [Ticket -> [copy : Copy, active : BOOLEAN]]
    /\ watermark \in Nat \cup {NoMark}
    /\ run \in [Run -> RunState]
    /\ hook \in [Ticket -> Copy]
    /\ posted \subseteq Ticket
    /\ failures \in 0..MaxFailures
    /\ seen \in [Ticket -> Nat]

Init ==
    /\ now = 1
    /\ snow = [t \in Ticket |-> Absent]
    /\ row = [t \in Ticket |-> NoRow]
    /\ watermark = NoMark
    /\ run = [p \in Run |-> Idle]
    /\ hook = [t \in Ticket |-> Absent]
    /\ posted = {}
    /\ failures = 0
    /\ seen = [t \in Ticket |-> 0]

\* What every query asks for: active, in an open state, in a tracked group.
Ours(t) == snow[t].place = "ours"

-----------------------------------------------------------------------------
(* ServiceNow: time passes; an incident is opened or updated, and the       *)
(* business rule may push it.                                               *)

Tick ==
    /\ now < MaxTime
    /\ now' = now + 1
    /\ UNCHANGED <<snow, row, watermark, run, hook, posted, failures, seen>>

Excuse(p, T) == IF p \in FullRuns /\ run[p].phase # "idle"
                THEN [run[p] EXCEPT !.excused = @ \cup T] ELSE run[p]

Update(t, place) ==
    /\ snow[t].place # "deleted" /\ snow[t].ver < MaxVersion
    /\ snow' = [snow EXCEPT ![t] =
                  [place |-> place, stamp |-> now, ver |-> @.ver + 1,
                   opened |-> IF @.place = "none" THEN now ELSE @.opened]]
    /\ run' = [p \in Run |-> Excuse(p, {t})]
    /\ \/ WebhookOn /\ posted' = posted \cup {t}
       \/ UNCHANGED posted
    /\ UNCHANGED <<now, row, watermark, hook, failures, seen>>

-----------------------------------------------------------------------------
(* TicketSync.run: fetch.                                                   *)

\* Mutant: the delta starts exactly at the watermark.
StartAtMark(p) ==
    /\ run[p].phase = "idle"
    /\ Overlapping \/ \A q \in Run : run[q].phase = "idle"
    /\ run' = [run EXCEPT ![p] =
                 [Idle EXCEPT !.phase = "started", !.started = now + Skew,
                              !.since = IF p \in FullRuns THEN NoMark ELSE watermark]]
    /\ UNCHANGED <<now, snow, row, watermark, hook, posted, failures, seen>>

\* utc_now() of the service, and the watermark a delta starts from.
Start(p) ==
    /\ run[p].phase = "idle"
    /\ Overlapping \/ \A q \in Run : run[q].phase = "idle"
    /\ run' = [run EXCEPT ![p] =
                 [Idle EXCEPT !.phase = "started", !.started = now + Skew,
                              !.since = IF p \in FullRuns \/ watermark = NoMark
                                        THEN NoMark ELSE watermark - Overlap]]
    /\ UNCHANGED <<now, snow, row, watermark, hook, posted, failures, seen>>

\* get_aged_open_incidents, the first query of _fetch_full.
FetchAged(p) ==
    /\ run[p].phase = "started" /\ run[p].since = NoMark
    /\ run' = [run EXCEPT ![p] =
                 [@ EXCEPT !.phase = "aged",
                           !.rows = [t \in Ticket |->
                               IF Ours(t) /\ snow[t].opened < run[p].started - AgedAfter
                               THEN snow[t] ELSE Absent]]]
    /\ UNCHANGED <<now, snow, row, watermark, hook, posted, failures, seen>>

Numbers(rows) == {t \in Ticket : rows[t] # Absent}

\* _high_water: the newest stamp fetched, or the run's own start when nothing was.
IsHighWater(h, rows, started) ==
    \/ Numbers(rows) = {} /\ h = started
    \/ /\ \E t \in Numbers(rows) : rows[t].stamp = h
       /\ \A t \in Numbers(rows) : rows[t].stamp <= h

Fetched(p, rows) ==
    \E h \in 0..now + Skew :
        /\ IsHighWater(h, rows, run[p].started)
        /\ run' = [run EXCEPT ![p] = [Idle EXCEPT !.phase = "persist", !.rows = rows,
                                                  !.todo = Numbers(rows), !.high = h,
                                                  !.excused = run[p].excused]]

\* get_changed_since(now - COLD_START_DAYS), the second; merged over the first.
FetchRecent(p) ==
    /\ run[p].phase = "aged"
    /\ Fetched(p, [t \in Ticket |->
                     IF Ours(t) /\ snow[t].stamp > run[p].started - Window
                     THEN snow[t] ELSE run[p].rows[t]])
    /\ UNCHANGED <<now, snow, row, watermark, hook, posted, failures, seen>>

\* get_changed_since(watermark - OVERLAP_MINUTES).
FetchDelta(p) ==
    /\ run[p].phase = "started" /\ run[p].since # NoMark
    /\ Fetched(p, [t \in Ticket |->
                     IF Ours(t) /\ snow[t].stamp > run[p].since
                     THEN snow[t] ELSE Absent])
    /\ UNCHANGED <<now, snow, row, watermark, hook, posted, failures, seen>>

-----------------------------------------------------------------------------
(* TicketSync.run: store, reconcile, move the watermark.                    *)

\* The upsert of flatten_incident's record: active is always 1, and nothing
\* compares the record with the stored one.
Store(t, copy) ==
    /\ row' = [row EXCEPT ![t] = [copy |-> copy, active |-> TRUE]]
    /\ seen' = [seen EXCEPT ![t] = IF copy.ver > @ THEN copy.ver ELSE @]

Persist(p, t) ==
    /\ run[p].phase = "persist" /\ t \in run[p].todo
    /\ Store(t, run[p].rows[t])
    /\ run' = [run EXCEPT ![p].todo = @ \ {t}]
    /\ UNCHANGED <<now, snow, watermark, hook, posted, failures>>

\* Tracked tickets that left the fetch.
Gone(p) == {t \in Ticket : row[t].active} \ Numbers(run[p].rows)

\* _retire_closed: at most max_reconcile_per_run of them are looked at.
Reconcile(p) ==
    /\ run[p].phase = "persist" /\ run[p].todo = {} /\ p \in FullRuns
    /\ \E G \in SUBSET Gone(p) :
          /\ \/ G = Gone(p) /\ Cardinality(G) <= Ceiling
             \/ Cardinality(G) = Ceiling /\ Cardinality(Gone(p)) > Ceiling
          /\ run' = [run EXCEPT ![p] = [Excuse(p, Gone(p) \ G) EXCEPT !.phase = "reconcile",
                                                                     !.todo = G]]
    /\ UNCHANGED <<now, snow, row, watermark, hook, posted, failures, seen>>

\* Mutant: the row is retired as it stands, without the refresh.
RereadOnly(p, t) ==
    /\ run[p].phase = "reconcile" /\ t \in run[p].todo
    /\ run' = [run EXCEPT ![p] = [run[p] EXCEPT !.phase = "judge", !.cur = {t},
                                                !.rows[t] = snow[t], !.todo = @ \ {t}]]
    /\ UNCHANGED <<now, snow, row, watermark, hook, posted, failures, seen>>

\* get_by_number, answered.  A deleted incident reads as None and is not refreshed.
Reread(p, t) ==
    /\ run[p].phase = "reconcile" /\ t \in run[p].todo
    /\ run' = [run EXCEPT ![p] =
                 [run[p] EXCEPT !.phase = IF snow[t].place = "deleted" THEN "judge"
                                          ELSE "refresh",
                                !.rows[t] = snow[t], !.todo = @ \ {t}, !.cur = {t}]]
    /\ UNCHANGED <<now, snow, row, watermark, hook, posted, failures, seen>>

\* get_by_number raises: the ticket is left untouched.
Unreadable(p, t) ==
    /\ run[p].phase = "reconcile" /\ t \in run[p].todo
    /\ failures < MaxFailures /\ failures' = failures + 1
    /\ run' = [run EXCEPT ![p] = [Excuse(p, {t}) EXCEPT !.todo = @ \ {t}]]
    /\ UNCHANGED <<now, snow, row, watermark, hook, posted, seen>>

\* Refresh first, retire second.
Refresh(p, t) ==
    /\ run[p].phase = "refresh" /\ run[p].cur = {t}
    /\ Store(t, run[p].rows[t])
    /\ run' = [run EXCEPT ![p].phase = "judge"]
    /\ UNCHANGED <<now, snow, watermark, hook, posted, failures>>

\* Mutants: "is it still active?" misses a resolved ticket; whatever left the fetch
\* is retired.
DepartedByFlag(copy) == copy.place \notin {"ours", "resolved"}
DepartedAlways(copy) == TRUE

\* Closed, resolved, reassigned or unreadable for good: retire.
Departed(copy) == copy.place # "ours"

Judge(p) ==
    /\ run[p].phase = "judge"
    /\ row' = [t \in Ticket |-> IF t \in run[p].cur /\ Departed(run[p].rows[t])
                                THEN [row[t] EXCEPT !.active = FALSE] ELSE row[t]]
    /\ run' = [run EXCEPT ![p] = [@ EXCEPT !.phase = "reconcile", !.cur = {}]]
    /\ UNCHANGED <<now, snow, watermark, hook, posted, failures, seen>>

\* Mutant: the watermark moves before every row is stored.
FinishEarly(p) ==
    /\ run[p].phase \in {"persist", "reconcile"}
    /\ watermark' = run[p].high
    /\ run' = [run EXCEPT ![p] = Idle]
    /\ UNCHANGED <<now, snow, row, hook, posted, failures, seen>>

\* set_sync_watermark(..., 'OK').
Finish(p) ==
    /\ run[p].phase = IF p \in FullRuns THEN "reconcile" ELSE "persist"
    /\ run[p].todo = {}
    /\ watermark' = run[p].high
    /\ run' = [run EXCEPT ![p] = Idle]
    /\ UNCHANGED <<now, snow, row, hook, posted, failures, seen>>

\* Mutant: a failed run puts back the bound it started from.
FailRewound(p) ==
    /\ run[p].phase \notin {"idle", "failing"}
    /\ failures < MaxFailures /\ failures' = failures + 1
    /\ run' = [run EXCEPT ![p] = [Idle EXCEPT !.phase = "failing", !.since = run[p].since]]
    /\ UNCHANGED <<now, snow, row, watermark, hook, posted, seen>>

\* Any exception: the watermark is read, and then written back with 'ERROR'.
Fail(p) ==
    /\ run[p].phase \notin {"idle", "failing"}
    /\ failures < MaxFailures /\ failures' = failures + 1
    /\ run' = [run EXCEPT ![p] = [Idle EXCEPT !.phase = "failing", !.since = watermark]]
    /\ UNCHANGED <<now, snow, row, watermark, hook, posted, seen>>

Restore(p) ==
    /\ run[p].phase = "failing"
    /\ watermark' = run[p].since
    /\ run' = [run EXCEPT ![p] = Idle]
    /\ UNCHANGED <<now, snow, row, hook, posted, failures, seen>>

-----------------------------------------------------------------------------
(* The webhook's background task, and a restart of the service.             *)

\* get_by_number of the pushed incident; nothing happens when it reads as None.
HookRead(t) ==
    /\ t \in posted /\ hook[t] = Absent
    /\ posted' = posted \ {t}
    /\ hook' = [hook EXCEPT ![t] = IF snow[t].place = "deleted" THEN Absent ELSE snow[t]]
    /\ UNCHANGED <<now, snow, row, watermark, run, failures, seen>>

\* The same upsert, whatever state or group the incident is in.
HookStore(t) ==
    /\ hook[t] # Absent
    /\ Store(t, hook[t])
    /\ hook' = [hook EXCEPT ![t] = Absent]
    /\ UNCHANGED <<now, snow, watermark, run, posted, failures>>

Restart ==
    /\ failures < MaxFailures /\ failures' = failures + 1
    /\ run' = [p \in Run |-> Idle]
    /\ hook' = [t \in Ticket |-> Absent]
    /\ UNCHANGED <<now, snow, row, watermark, posted, seen>>

RunStep(p) ==
    \/ Start(p) \/ FetchAged(p) \/ FetchRecent(p) \/ FetchDelta(p)
    \/ \E t \in Ticket : Persist(p, t) \/ Reread(p, t) \/ Refresh(p, t)
    \/ Reconcile(p) \/ Judge(p) \/ Finish(p) \/ Restore(p)

HookStep(t) == HookRead(t) \/ HookStore(t)

Next ==
    \/ Tick
    \/ \E t \in Ticket, place \in Places : Update(t, place)
    \/ \E p \in Run : RunStep(p) \/ Fail(p)
    \/ \E p \in Run, t \in Ticket : Unreadable(p, t)
    \/ \E t \in Ticket : HookStep(t)
    \/ Restart

Spec == Init /\ [][Next]_vars

\* The scheduler starts each job again and again and a started job runs on; a pushed
\* ticket is refreshed.  ServiceNow owes nothing.
Fairness ==
    /\ \A p \in Run : WF_vars(RunStep(p))
    /\ \A t \in Ticket : WF_vars(HookStep(t))

FairSpec == Spec /\ Fairness

-----------------------------------------------------------------------------
(* Properties.                                                              *)

\* "An exact-boundary watermark drops updates": with the overlap, an in-scope incident
\* either has been stored at its current version or will be in the next delta - through
\* overlapping runs, failures, restarts, a skewed clock and updates in one second.
NothingSkipped ==
    watermark # NoMark =>
        \A t \in Ticket : Ours(t) => \/ seen[t] = snow[t].ver
                                     \/ snow[t].stamp > watermark - Overlap

\* After a full sync the board holds exactly the in-scope tickets, but for those that
\* changed during it, could not be read or were beyond the ceiling: "hourly bounds
\* that to the hour" (scheduler/jobs.py).
FullSyncSettles ==
    [][\A p \in FullRuns : Finish(p) =>
          \A t \in Ticket \ run[p].excused : row[t].active <=> Ours(t)]_vars

\* "The stored row should say where the ticket went": a retired row that was refreshed
\* does not still read as an open ticket of ours (a deleted one cannot be refreshed).
RetiredRowSaysWhere ==
    \A t \in Ticket : ~row[t].active /\ snow[t].place # "deleted"
                         => row[t].copy.place # "ours"

\* A ticket "that is still open and still in scope", and whose row says so, is not
\* taken off the board.
InScopeStays ==
    [][\A t \in Ticket : row[t].active /\ Ours(t) /\ row[t].copy = snow[t]
                            => row'[t].active]_vars

\* Once ServiceNow goes quiet, the board comes to hold exactly the in-scope tickets,
\* whatever overlapped, failed or was pushed before.
BoardConverges == <>[](\A t \in Ticket : row[t].active <=> Ours(t))

-----------------------------------------------------------------------------
(* The strengthening of NothingSkipped that is inductive.                   *)

\* Stored at the current version, or newer than mark.
Safe(t, mark) == seen[t] = snow[t].ver \/ snow[t].stamp > mark

\* An incident was opened before its last update, and neither the board nor a pushed
\* copy knows a version it has not had.
Versions ==
    \A t \in Ticket :
        /\ snow[t].opened <= snow[t].stamp /\ snow[t].stamp <= now
        /\ seen[t] <= snow[t].ver /\ hook[t].ver <= snow[t].ver

\* The watermark is not from the future.
Clock == watermark # NoMark => watermark <= now + Skew

\* Why the watermark the run n leaves will be safe for an incident in scope, step by step.
WillBeSafe(n, t) ==
    /\ n.phase = "started" /\ n.since # NoMark => Safe(t, n.since)
    /\ n.phase = "aged" => n.rows[t] = snow[t] \/ snow[t].stamp > n.started - Window
    /\ n.phase = "persist" => \/ Safe(t, n.high - Overlap)
                              \/ t \in n.todo /\ n.rows[t] = snow[t]
    /\ n.phase \in {"reconcile", "refresh", "judge"} => Safe(t, n.high - Overlap)
    /\ n.phase = "failing" /\ n.since # NoMark => Safe(t, n.since - Overlap)

\* What holds of a run in flight: no copy and no clock reading is from the future.
RunInv(n) ==
    /\ \A t \in Ticket : n.rows[t].ver <= snow[t].ver
    /\ n.started <= now + Skew /\ n.high <= now + Skew
    /\ n.phase = "started" /\ n.since # NoMark => n.since < now
    /\ n.phase = "failing" /\ n.since # NoMark => n.since >= 0 /\ n.since <= now + Skew
    /\ \A t \in Ticket : Ours(t) => WillBeSafe(n, t)

IInv == TypeOK /\ Versions /\ Clock /\ NothingSkipped /\ \A p \in Run : RunInv(run[p])

=============================================================================
