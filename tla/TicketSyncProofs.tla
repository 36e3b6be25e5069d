-------------------------- MODULE TicketSyncProofs --------------------------
(***************************************************************************)
(* No update of an incident in scope is ever behind the watermark unstored: *)
(* for any incidents, any jobs, any overlap of them, and any number of      *)
(* errors and restarts.                                                     *)
(*                                                                          *)
(* NothingSkipped is about the watermark that is stored; what endangers it  *)
(* is the one a run is about to store.  RunInv says of each phase why that  *)
(* one will be safe, and the proof follows a run through its phases.        *)
(***************************************************************************)
EXTENDS TicketSync, TLAPS

RowType == [copy : Copy, active : BOOLEAN]

-----------------------------------------------------------------------------
(* Types of the parts.                                                      *)

LEMMA PartTypes == Absent \in Copy /\ Idle \in RunState /\ NoRow \in RowType
BY DEF Absent, Copy, Place, Idle, RunState, Phase, NoRow, RowType

\* The records the steps make of a run.
LEMMA SetPhase ==
  ASSUME NEW n \in RunState, NEW x \in Phase
  PROVE  /\ [n EXCEPT !.phase = x] \in RunState
         /\ [n EXCEPT !.phase = x].phase = x
         /\ [n EXCEPT !.phase = x].started = n.started
         /\ [n EXCEPT !.phase = x].since = n.since
         /\ [n EXCEPT !.phase = x].high = n.high
         /\ [n EXCEPT !.phase = x].rows = n.rows
         /\ [n EXCEPT !.phase = x].todo = n.todo
BY DEF RunState

LEMMA SetTodo ==
  ASSUME NEW n \in RunState, NEW T \in SUBSET Ticket
  PROVE  /\ [n EXCEPT !.todo = T] \in RunState
         /\ [n EXCEPT !.todo = T].phase = n.phase
         /\ [n EXCEPT !.todo = T].started = n.started
         /\ [n EXCEPT !.todo = T].since = n.since
         /\ [n EXCEPT !.todo = T].high = n.high
         /\ [n EXCEPT !.todo = T].rows = n.rows
         /\ [n EXCEPT !.todo = T].todo = T
BY DEF RunState

LEMMA SetExcused ==
  ASSUME NEW n \in RunState, NEW T \in SUBSET Ticket
  PROVE  /\ [n EXCEPT !.excused = T] \in RunState
         /\ [n EXCEPT !.excused = T].phase = n.phase
         /\ [n EXCEPT !.excused = T].started = n.started
         /\ [n EXCEPT !.excused = T].since = n.since
         /\ [n EXCEPT !.excused = T].high = n.high
         /\ [n EXCEPT !.excused = T].rows = n.rows
         /\ [n EXCEPT !.excused = T].todo = n.todo
BY DEF RunState

\* Being excused changes nothing else of a run.
LEMMA ExcuseEffect ==
  ASSUME TypeOK, NEW p \in Run, NEW T \in SUBSET Ticket
  PROVE  /\ Excuse(p, T) \in RunState
         /\ Excuse(p, T).phase = run[p].phase
         /\ Excuse(p, T).started = run[p].started
         /\ Excuse(p, T).since = run[p].since
         /\ Excuse(p, T).high = run[p].high
         /\ Excuse(p, T).rows = run[p].rows
         /\ Excuse(p, T).todo = run[p].todo
<1>1. run[p] \in RunState
  BY DEF TypeOK
<1>2. run[p].excused \cup T \in SUBSET Ticket
  BY <1>1 DEF RunState
<1>3. [run[p] EXCEPT !.excused = @ \cup T] = [run[p] EXCEPT !.excused = run[p].excused \cup T]
  OBVIOUS
<1>4. CASE p \in FullRuns /\ run[p].phase # "idle"
  <2>1. Excuse(p, T) = [run[p] EXCEPT !.excused = run[p].excused \cup T]
    BY <1>3, <1>4 DEF Excuse
  <2> QED BY <1>1, <1>2, <2>1, SetExcused
<1>5. CASE ~(p \in FullRuns /\ run[p].phase # "idle")
  BY <1>1, <1>5 DEF Excuse
<1> QED BY <1>4, <1>5

-----------------------------------------------------------------------------
(* What a step has to show of the run it moves, and of a stored row.        *)

\* What a run carries of the invariant depends on these fields only.
LEMMA RunInvOfFields ==
  ASSUME NEW n \in RunState, NEW m \in RunState, RunInv(n),
         m.phase = n.phase, m.started = n.started, m.since = n.since, m.high = n.high,
         m.rows = n.rows, m.todo = n.todo
  PROVE  RunInv(m)
BY DEF RunInv, WillBeSafe

LEMMA IdleInv == ASSUME TypeOK PROVE RunInv(Idle)
BY ClockAssumption DEF RunInv, WillBeSafe, Idle, TypeOK, Absent, Copy

\* Steps that leave ServiceNow, the watermark and what is known alone.
LEMMA RunMoves ==
  ASSUME IInv, NEW p \in Run, NEW n \in RunState, RunInv(n), run' = [run EXCEPT ![p] = n],
         row' \in [Ticket -> RowType], posted' \subseteq Ticket, failures' \in 0..MaxFailures,
         UNCHANGED <<now, snow, watermark, hook, seen>>
  PROVE  IInv'
<1>1. TypeOK'
  BY DEF IInv, TypeOK, RowType
<1>2. Versions' /\ Clock' /\ NothingSkipped'
  BY DEF IInv, Versions, Clock, NothingSkipped, Ours
<1>3. ASSUME NEW q \in Run PROVE RunInv(run[q])'
  <2>1. run'[q] = IF q = p THEN n ELSE run[q]
    BY DEF IInv, TypeOK
  <2>2. RunInv(run'[q])
    BY <2>1 DEF IInv
  <2> QED BY <2>2 DEF RunInv, WillBeSafe, Safe, Ours
<1> QED BY <1>1, <1>2, <1>3 DEF IInv

\* A copy that is stored is known from then on, and nothing known is forgotten.
LEMMA StoreEffect ==
  ASSUME TypeOK, Versions, NEW t \in Ticket, NEW copy \in Copy, copy.ver <= snow[t].ver,
         Store(t, copy), UNCHANGED snow
  PROVE  /\ row' \in [Ticket -> RowType]
         /\ seen' \in [Ticket -> Nat]
         /\ \A u \in Ticket : seen[u] <= seen'[u] /\ seen'[u] <= snow[u].ver
         /\ copy.ver = snow[t].ver => seen'[t] = snow[t].ver
         /\ \A u \in Ticket, mark \in Int : Safe(u, mark) => Safe(u, mark)'
<1>1. row' \in [Ticket -> RowType]
  BY DEF Store, TypeOK, RowType
<1>2. /\ seen' \in [Ticket -> Nat]
      /\ \A u \in Ticket : seen'[u] = IF u = t /\ copy.ver > seen[t] THEN copy.ver ELSE seen[u]
  BY DEF Store, TypeOK, Copy
<1>3. \A u \in Ticket : seen[u] \in Nat /\ snow[u].ver \in Nat /\ seen[u] <= snow[u].ver
  BY DEF TypeOK, Versions, Copy
<1>4. copy.ver \in Nat
  BY DEF Copy
<1>5. /\ \A u \in Ticket : seen[u] <= seen'[u] /\ seen'[u] <= snow[u].ver
      /\ copy.ver = snow[t].ver => seen'[t] = snow[t].ver
  BY <1>2, <1>3, <1>4
<1>6. ASSUME NEW u \in Ticket, NEW mark \in Int, Safe(u, mark) PROVE Safe(u, mark)'
  BY <1>2, <1>3, <1>5, <1>6 DEF Safe
<1> QED BY <1>1, <1>2, <1>5, <1>6

\* ... and no run is the worse for it.
LEMMA RunInvAfterStore ==
  ASSUME TypeOK, Versions, NEW t \in Ticket, NEW copy \in Copy, copy.ver <= snow[t].ver,
         Store(t, copy), UNCHANGED <<now, snow>>, NEW n \in RunState, RunInv(n)
  PROVE  RunInv(n)'
<1>1. \A u \in Ticket, mark \in Int : Safe(u, mark) => Safe(u, mark)'
  BY StoreEffect
<1>2. n.high - Overlap \in Int /\ (n.since # NoMark => n.since \in Int /\ n.since - Overlap \in Int)
  BY ClockAssumption DEF RunState
<1>3. ASSUME NEW u \in Ticket, Ours(u) PROVE WillBeSafe(n, u)'
  <2>1. WillBeSafe(n, u)
    BY <1>3 DEF RunInv
  <2> QED BY <1>1, <1>2, <2>1 DEF WillBeSafe
<1> QED BY <1>3 DEF RunInv, Ours

\* A run that stores a row and moves on.
LEMMA RunStores ==
  ASSUME IInv, NEW p \in Run, NEW n \in RunState, NEW t \in Ticket, NEW copy \in Copy,
         copy.ver <= snow[t].ver, Store(t, copy), RunInv(n)', run' = [run EXCEPT ![p] = n],
         UNCHANGED <<now, snow, watermark, hook, posted, failures>>
  PROVE  IInv'
<1>1. TypeOK /\ Versions
  BY DEF IInv
<1>2. TypeOK'
  BY <1>1, StoreEffect DEF TypeOK, RowType
<1>3. Versions' /\ Clock'
  BY <1>1, StoreEffect DEF IInv, Versions, Clock
<1>4. NothingSkipped'
  <2> SUFFICES ASSUME watermark # NoMark, NEW u \in Ticket, Ours(u) PROVE Safe(u, watermark - Overlap)'
    BY DEF NothingSkipped, Safe, Ours
  <2>1. Safe(u, watermark - Overlap)
    BY DEF IInv, NothingSkipped, Safe
  <2>2. watermark - Overlap \in Int
    BY ClockAssumption DEF IInv, TypeOK
  <2>3. Safe(u, watermark - Overlap)'
    BY <1>1, <2>1, <2>2, StoreEffect
  <2> QED BY <2>3
<1>5. ASSUME NEW q \in Run PROVE RunInv(run[q])'
  <2>1. CASE q = p
    <3>1. run'[q] = n
      BY <2>1 DEF IInv, TypeOK
    <3> QED BY <3>1
  <2>2. CASE q # p
    <3>1. run'[q] = run[q] /\ run[q] \in RunState /\ RunInv(run[q])
      BY <2>2 DEF IInv, TypeOK
    <3>2. ASSUME NEW m \in RunState, RunInv(m) PROVE RunInv(m)'
      BY <1>1, <3>2, RunInvAfterStore
    <3> QED BY <3>1, <3>2 DEF RunInv, WillBeSafe
  <2> QED BY <2>1, <2>2
<1> QED BY <1>2, <1>3, <1>4, <1>5 DEF IInv

-----------------------------------------------------------------------------
(* ServiceNow's steps.                                                      *)

LEMMA TickStep == ASSUME IInv, Tick PROVE IInv'
<1>1. now \in Nat /\ now' = now + 1 /\ UNCHANGED <<snow, row, watermark, run, hook, posted, failures, seen>>
  BY DEF IInv, TypeOK, Tick
<1>2. TypeOK'
  BY <1>1 DEF IInv, TypeOK
<1>3. Versions'
  <2>1. \A t \in Ticket : snow[t].opened \in Nat /\ snow[t].stamp \in Nat
    BY DEF IInv, TypeOK, Copy
  <2> QED BY <1>1, <2>1 DEF IInv, Versions
<1>4. Clock' /\ NothingSkipped'
  BY <1>1, ClockAssumption DEF IInv, TypeOK, Clock, NothingSkipped, Ours
<1>5. ASSUME NEW q \in Run PROVE RunInv(run[q])'
  <2>1. run[q] \in RunState /\ RunInv(run[q]) /\ run'[q] = run[q]
    BY <1>1 DEF IInv, TypeOK
  <2>2. /\ run[q].started \in Nat /\ run[q].high \in Nat
        /\ run[q].since # NoMark => run[q].since \in Int
    BY <2>1 DEF RunState
  <2>3. /\ run[q].started <= now + 1 + Skew /\ run[q].high <= now + 1 + Skew
        /\ run[q].phase = "started" /\ run[q].since # NoMark => run[q].since < now + 1
        /\ run[q].phase = "failing" /\ run[q].since # NoMark
              => run[q].since >= 0 /\ run[q].since <= now + 1 + Skew
    BY <1>1, <2>1, <2>2, ClockAssumption DEF RunInv
  <2>4. /\ \A t \in Ticket : run[q].rows[t].ver <= snow[t].ver
        /\ \A t \in Ticket : Ours(t) => WillBeSafe(run[q], t)
    BY <2>1 DEF RunInv
  <2>5. \A t \in Ticket : (WillBeSafe(run[q], t) <=> WillBeSafe(run[q], t)') /\ (Ours(t) <=> Ours(t)')
    BY <1>1, <2>1 DEF WillBeSafe, Safe, Ours
  <2> QED BY <1>1, <2>1, <2>3, <2>4, <2>5 DEF RunInv
<1> QED BY <1>2, <1>3, <1>4, <1>5 DEF IInv

\* After an update the stamp is later than any watermark can claim.
LEMMA UpdateStep ==
  ASSUME IInv, NEW t \in Ticket, NEW place \in Places, Update(t, place) PROVE IInv'
<1> DEFINE new == [place |-> place, stamp |-> now, ver |-> snow[t].ver + 1,
                   opened |-> IF snow[t].place = "none" THEN now ELSE snow[t].opened]
<1> DEFINE Later(u, mark) == seen'[u] = snow'[u].ver \/ snow'[u].stamp > mark
<1>1. TypeOK /\ Versions /\ Clock /\ NothingSkipped /\ now \in Nat
  BY DEF IInv, TypeOK
<1>2. snow[t] \in Copy /\ place \in Place
  BY <1>1, PlacesAssumption DEF TypeOK, Place
<1>3. new \in Copy
  BY <1>1, <1>2 DEF Copy
<1>4. /\ snow' = [snow EXCEPT ![t] = new]
      /\ run' = [p \in Run |-> Excuse(p, {t})]
      /\ posted' \subseteq Ticket
      /\ UNCHANGED <<now, row, watermark, hook, failures, seen>>
  BY <1>1 DEF Update, TypeOK
<1>5. \A u \in Ticket : snow'[u] = IF u = t THEN new ELSE snow[u]
  BY <1>1, <1>4 DEF TypeOK
<1>6. /\ snow'[t].stamp = now /\ snow'[t].ver = snow[t].ver + 1 /\ snow'[t].opened <= now
      /\ snow[t].ver \in Nat /\ snow[t].opened \in Nat
  BY <1>1, <1>2, <1>5 DEF Versions, Copy
<1>7. TypeOK'
  <2>1. run' \in [Run -> RunState]
    BY <1>1, <1>4, ExcuseEffect
  <2> QED BY <1>1, <1>3, <1>4, <2>1 DEF TypeOK
<1>8. Versions'
  <2>1. \A u \in Ticket : seen[u] \in Nat /\ hook[u].ver \in Nat
    BY <1>1 DEF TypeOK, Copy
  <2> QED BY <1>1, <1>4, <1>5, <1>6, <2>1 DEF Versions
<1>9. Clock'
  BY <1>1, <1>4 DEF Clock
<1>10. ASSUME NEW mark \in Int, mark < now, NEW u \in Ticket, u = t \/ (Ours(u) => Safe(u, mark))
       PROVE Ours(u)' => Later(u, mark)
  BY <1>4, <1>5, <1>6, <1>10 DEF Safe, Ours
<1>11. NothingSkipped'
  <2> SUFFICES ASSUME watermark # NoMark, NEW u \in Ticket, Ours(u)' PROVE Later(u, watermark - Overlap)
    BY <1>4 DEF NothingSkipped
  <2>1. watermark - Overlap \in Int /\ watermark - Overlap < now
    BY <1>1, ClockAssumption, SkewAssumption DEF TypeOK, Clock
  <2>2. Ours(u) => Safe(u, watermark - Overlap)
    BY <1>1 DEF NothingSkipped, Safe
  <2> QED BY <1>10, <2>1, <2>2
<1>12. ASSUME NEW q \in Run PROVE RunInv(run[q])'
  <2> PICK n \in RunState : n = run[q] /\ RunInv(n)
    BY <1>1 DEF IInv, TypeOK
  <2>1. n \in RunState /\ RunInv(n)
    OBVIOUS
  <2>2. /\ run'[q].phase = n.phase /\ run'[q].started = n.started /\ run'[q].since = n.since
        /\ run'[q].high = n.high /\ run'[q].rows = n.rows /\ run'[q].todo = n.todo
    BY <1>1, <1>4, ExcuseEffect
  <2>3. /\ n.started \in Nat /\ n.high \in Nat /\ (n.since # NoMark => n.since \in Int)
        /\ \A u \in Ticket : n.rows[u].ver \in Nat
    BY <2>1 DEF RunState, Copy
  <2>4. \A u \in Ticket : n.rows[u].ver <= snow'[u].ver
    BY <1>5, <1>6, <2>1, <2>3 DEF RunInv
  <2>5. ASSUME NEW u \in Ticket, Ours(u)' PROVE WillBeSafe(run[q], u)'
    <3>1. u # t => Ours(u) /\ WillBeSafe(n, u) /\ snow'[u] = snow[u]
      BY <1>5, <2>1, <2>5 DEF Ours, RunInv
    <3>2. n.phase = "started" /\ n.since # NoMark => Later(u, n.since)
      BY <1>10, <2>1, <2>3, <2>5, <3>1 DEF RunInv, WillBeSafe
    <3>3. n.phase = "aged" => n.rows[u] = snow'[u] \/ snow'[u].stamp > n.started - Window
      <4>1. n.started - Window < now
        BY <1>1, <2>1, <2>3, ClockAssumption, SkewAssumption DEF RunInv
      <4>2. CASE u = t
        BY <1>1, <1>6, <2>3, <4>1, <4>2, ClockAssumption
      <4>3. CASE u # t
        BY <3>1, <4>3 DEF WillBeSafe
      <4> QED BY <4>2, <4>3
    <3>4. n.high - Overlap \in Int /\ n.high - Overlap < now
      BY <1>1, <2>1, <2>3, ClockAssumption, SkewAssumption DEF RunInv
    <3>5. n.phase = "persist" => Later(u, n.high - Overlap) \/ (u \in n.todo /\ n.rows[u] = snow'[u])
      <4>1. CASE u = t
        BY <1>10, <2>5, <3>4, <4>1
      <4>2. CASE u # t
        BY <1>10, <2>5, <3>1, <3>4, <4>2 DEF WillBeSafe
      <4> QED BY <4>1, <4>2
    <3>6. n.phase \in {"reconcile", "refresh", "judge"} => Later(u, n.high - Overlap)
      BY <1>10, <2>5, <3>1, <3>4 DEF WillBeSafe
    <3>7. n.phase = "failing" /\ n.since # NoMark => Later(u, n.since - Overlap)
      <4>1. SUFFICES ASSUME n.phase = "failing", n.since # NoMark PROVE Later(u, n.since - Overlap)
        OBVIOUS
      <4>2. n.since - Overlap \in Int /\ n.since - Overlap < now
        BY <1>1, <2>1, <2>3, <4>1, ClockAssumption, SkewAssumption DEF RunInv
      <4>3. Ours(u) => u = t \/ Safe(u, n.since - Overlap)
        BY <3>1, <4>1 DEF WillBeSafe
      <4> QED BY <1>10, <2>5, <4>2, <4>3
    <3> QED BY <2>2, <3>2, <3>3, <3>5, <3>6, <3>7 DEF WillBeSafe, Safe
  <2> QED BY <1>4, <2>1, <2>2, <2>4, <2>5 DEF RunInv
<1> QED BY <1>7, <1>8, <1>9, <1>11, <1>12 DEF IInv

-----------------------------------------------------------------------------
(* A run fetches.                                                           *)

LEMMA StartStep == ASSUME IInv, NEW p \in Run, Start(p) PROVE IInv'
<1> DEFINE mark == IF p \in FullRuns \/ watermark = NoMark THEN NoMark ELSE watermark - Overlap
           n == [Idle EXCEPT !.phase = "started", !.started = now + Skew, !.since = mark]
<1>1. TypeOK /\ Clock /\ NothingSkipped /\ now \in Nat /\ now + Skew \in Nat
  BY ClockAssumption DEF IInv, TypeOK
<1>2. mark \in Int \cup {NoMark} /\ (mark # NoMark => mark < now)
  BY <1>1, ClockAssumption, SkewAssumption DEF TypeOK, Clock
<1>3. mark # NoMark => \A t \in Ticket : Ours(t) => Safe(t, mark)
  BY <1>1 DEF NothingSkipped, Safe
<1> HIDE DEF mark
<1>4. /\ n \in RunState /\ n.phase = "started" /\ n.started = now + Skew /\ n.since = mark
      /\ n.high = 0 /\ n.rows = [t \in Ticket |-> Absent]
  BY <1>1, <1>2, PartTypes DEF Idle, RunState, Phase
<1>5. /\ run' = [run EXCEPT ![p] = n]
      /\ UNCHANGED <<now, snow, row, watermark, hook, posted, failures, seen>>
  BY DEF Start, mark
<1> HIDE DEF n
<1>6. \A t \in Ticket : n.rows[t].ver = 0 /\ snow[t].ver \in Nat
  BY <1>1, <1>4 DEF Absent, TypeOK, Copy
<1>7. RunInv(n)
  <2>1. \A t \in Ticket : Ours(t) => WillBeSafe(n, t)
    BY <1>3, <1>4 DEF WillBeSafe
  <2> QED BY <1>1, <1>2, <1>4, <1>6, <2>1, ClockAssumption DEF RunInv
<1> QED BY <1>1, <1>4, <1>5, <1>7, RunMoves DEF TypeOK, RowType

\* What the first query of a full run misses is too recent for the second to miss.
LEMMA FetchAgedStep == ASSUME IInv, NEW p \in Run, FetchAged(p) PROVE IInv'
<1> DEFINE rows == [t \in Ticket |->
                      IF Ours(t) /\ snow[t].opened < run[p].started - AgedAfter
                      THEN snow[t] ELSE Absent]
<1>1. TypeOK /\ Versions /\ run[p] \in RunState /\ RunInv(run[p])
  BY DEF IInv, TypeOK
<1>2. rows \in [Ticket -> Copy]
  BY <1>1, PartTypes DEF TypeOK
<1>3. \A t \in Ticket : /\ rows[t].ver <= snow[t].ver
                        /\ Ours(t) => \/ rows[t] = snow[t]
                                      \/ snow[t].stamp > run[p].started - Window
  <2> SUFFICES ASSUME NEW t \in Ticket
               PROVE  /\ rows[t].ver <= snow[t].ver
                      /\ Ours(t) => rows[t] = snow[t] \/ snow[t].stamp > run[p].started - Window
    OBVIOUS
  <2>1. /\ snow[t].opened \in Nat /\ snow[t].stamp \in Nat /\ snow[t].ver \in Nat
        /\ snow[t].opened <= snow[t].stamp /\ run[p].started \in Nat
    BY <1>1 DEF TypeOK, Versions, Copy, RunState
  <2>2. CASE Ours(t) /\ snow[t].opened < run[p].started - AgedAfter
    BY <2>1, <2>2
  <2>3. CASE ~(Ours(t) /\ snow[t].opened < run[p].started - AgedAfter)
    <3>1. rows[t].ver = 0
      BY <2>3 DEF Absent
    <3> HIDE DEF rows
    <3> QED BY <2>1, <2>3, <3>1, ClockAssumption, WindowAssumption
  <2> QED BY <2>2, <2>3
<1> DEFINE n == [run[p] EXCEPT !.phase = "aged", !.rows = rows]
<1>4. /\ run' = [run EXCEPT ![p] = n]
      /\ UNCHANGED <<now, snow, row, watermark, hook, posted, failures, seen>>
  BY DEF FetchAged
<1> HIDE DEF rows
<1>5. /\ n \in RunState /\ n.phase = "aged" /\ n.started = run[p].started /\ n.high = run[p].high
      /\ n.rows = rows
  BY <1>1, <1>2 DEF RunState, Phase
<1> HIDE DEF n
<1>6. RunInv(n)
  <2>1. \A t \in Ticket : Ours(t) => WillBeSafe(n, t)
    BY <1>3, <1>5 DEF WillBeSafe
  <2> QED BY <1>1, <1>3, <1>5, <2>1 DEF RunInv
<1> QED BY <1>1, <1>4, <1>5, <1>6, RunMoves DEF TypeOK, RowType

\* The rows of a fetch are in hand when they are to be stored.
LEMMA FetchedStep ==
  ASSUME IInv, NEW p \in Run, NEW rows \in [Ticket -> Copy], Fetched(p, rows),
         \A t \in Ticket : rows[t].ver <= snow[t].ver,
         \A t \in Ticket : Ours(t) => rows[t] = snow[t] \/ seen[t] = snow[t].ver,
         UNCHANGED <<now, snow, row, watermark, hook, posted, failures, seen>>
  PROVE  IInv'
<1>1. TypeOK /\ run[p] \in RunState
  BY DEF IInv, TypeOK
<1>2. PICK h \in 0..now + Skew :
        run' = [run EXCEPT ![p] = [Idle EXCEPT !.phase = "persist", !.rows = rows,
                                               !.todo = Numbers(rows), !.high = h,
                                               !.excused = run[p].excused]]
  BY DEF Fetched
<1> DEFINE n == [Idle EXCEPT !.phase = "persist", !.rows = rows, !.todo = Numbers(rows),
                             !.high = h, !.excused = run[p].excused]
<1>3. h \in Nat /\ h <= now + Skew /\ now \in Nat
  BY <1>1, ClockAssumption DEF TypeOK
<1>4. Numbers(rows) \subseteq Ticket /\ run[p].excused \subseteq Ticket
  BY <1>1 DEF Numbers, RunState
<1>5. /\ n \in RunState /\ n.phase = "persist" /\ n.started = 0 /\ n.high = h
      /\ n.rows = rows /\ n.todo = Numbers(rows)
  BY <1>3, <1>4 DEF Idle, RunState, Phase
<1>6. run' = [run EXCEPT ![p] = n]
  BY <1>2
<1> HIDE DEF n
<1>7. RunInv(n)
  <2>1. ASSUME NEW t \in Ticket, Ours(t) PROVE WillBeSafe(n, t)
    <3>1. Absent # snow[t]
      BY <2>1 DEF Ours, Absent
    <3>2. rows[t] = snow[t] => t \in Numbers(rows)
      BY <3>1 DEF Numbers
    <3> QED BY <1>5, <2>1, <3>2 DEF WillBeSafe, Safe
  <2> QED BY <1>3, <1>5, <2>1, ClockAssumption DEF RunInv
<1> QED BY <1>1, <1>5, <1>6, <1>7, RunMoves DEF TypeOK, RowType

LEMMA FetchRecentStep == ASSUME IInv, NEW p \in Run, FetchRecent(p) PROVE IInv'
<1> DEFINE rows == [t \in Ticket |-> IF Ours(t) /\ snow[t].stamp > run[p].started - Window
                                     THEN snow[t] ELSE run[p].rows[t]]
<1>1. TypeOK /\ run[p] \in RunState /\ RunInv(run[p]) /\ run[p].phase = "aged"
  BY DEF IInv, TypeOK, FetchRecent
<1>2. rows \in [Ticket -> Copy]
  BY <1>1 DEF TypeOK, RunState
<1>3. \A t \in Ticket : snow[t].ver \in Nat
  BY <1>1 DEF TypeOK, Copy
<1>4. \A t \in Ticket : /\ rows[t].ver <= snow[t].ver
                        /\ Ours(t) => rows[t] = snow[t]
  BY <1>1, <1>3 DEF RunInv, WillBeSafe
<1>5. Fetched(p, rows) /\ UNCHANGED <<now, snow, row, watermark, hook, posted, failures, seen>>
  BY DEF FetchRecent
<1> HIDE DEF rows
<1> QED BY <1>2, <1>4, <1>5, FetchedStep

LEMMA FetchDeltaStep == ASSUME IInv, NEW p \in Run, FetchDelta(p) PROVE IInv'
<1> DEFINE rows == [t \in Ticket |-> IF Ours(t) /\ snow[t].stamp > run[p].since
                                     THEN snow[t] ELSE Absent]
<1>1. /\ TypeOK /\ run[p] \in RunState /\ RunInv(run[p])
      /\ run[p].phase = "started" /\ run[p].since # NoMark
  BY DEF IInv, TypeOK, FetchDelta
<1>2. rows \in [Ticket -> Copy]
  BY <1>1, PartTypes DEF TypeOK
<1>3. \A t \in Ticket : snow[t].ver \in Nat /\ Absent.ver = 0
  BY <1>1 DEF TypeOK, Copy, Absent
<1>4. \A t \in Ticket : /\ rows[t].ver <= snow[t].ver
                        /\ Ours(t) => rows[t] = snow[t] \/ seen[t] = snow[t].ver
  BY <1>1, <1>3 DEF RunInv, WillBeSafe, Safe
<1>5. Fetched(p, rows) /\ UNCHANGED <<now, snow, row, watermark, hook, posted, failures, seen>>
  BY DEF FetchDelta
<1> HIDE DEF rows
<1> QED BY <1>2, <1>4, <1>5, FetchedStep

-----------------------------------------------------------------------------
(* A run stores, reconciles and ends.                                       *)

LEMMA PersistStep == ASSUME IInv, NEW p \in Run, NEW t \in Ticket, Persist(p, t) PROVE IInv'
<1>1. /\ TypeOK /\ Versions /\ run[p] \in RunState /\ RunInv(run[p])
      /\ run[p].phase = "persist"
  BY DEF IInv, TypeOK, Persist
<1> PICK m \in RunState : m = run[p]
  BY <1>1
<1> PICK copy \in Copy : copy = m.rows[t]
  BY DEF RunState
<1>2. copy.ver <= snow[t].ver /\ m.todo \ {t} \in SUBSET Ticket
  BY <1>1 DEF RunState, RunInv
<1> PICK rest \in SUBSET Ticket : rest = m.todo \ {t}
  BY <1>2
<1>3. PICK n \in RunState : /\ n = [m EXCEPT !.todo = rest]
                            /\ n.phase = "persist" /\ n.started = m.started
                            /\ n.high = m.high /\ n.rows = m.rows /\ n.todo = m.todo \ {t}
  <2> DEFINE x == [m EXCEPT !.todo = rest]
  <2>1. /\ x \in RunState /\ x.phase = m.phase /\ x.started = m.started
        /\ x.high = m.high /\ x.rows = m.rows /\ x.todo = rest
    BY SetTodo
  <2> HIDE DEF x
  <2>2. \E n \in RunState : /\ n = x
                           /\ n.phase = "persist" /\ n.started = m.started
                           /\ n.high = m.high /\ n.rows = m.rows /\ n.todo = m.todo \ {t}
    BY <1>1, <2>1
  <2> QED BY <2>2 DEF x
<1>4. /\ Store(t, copy) /\ run' = [run EXCEPT ![p] = n]
      /\ UNCHANGED <<now, snow, watermark, hook, posted, failures>>
  BY <1>3 DEF Persist
<1>5. RunInv(m)'
  BY <1>1, <1>2, <1>4, RunInvAfterStore
<1>6. ASSUME NEW u \in Ticket, Ours(u)' PROVE WillBeSafe(n, u)'
  <2>1. \/ Safe(u, m.high - Overlap)'
        \/ u \in m.todo /\ m.rows[u] = snow'[u]
    BY <1>1, <1>5, <1>6 DEF RunInv, WillBeSafe
  <2>2. CASE u = t /\ m.rows[u] = snow'[u]
    <3>1. seen'[t] = snow'[t].ver
      BY <1>1, <1>2, <1>4, <2>2, StoreEffect
    <3> QED BY <1>3, <2>2, <3>1 DEF WillBeSafe, Safe
  <2>3. CASE ~(u = t /\ m.rows[u] = snow'[u])
    BY <1>3, <2>1, <2>3 DEF WillBeSafe, Safe
  <2> QED BY <2>2, <2>3
<1>7. RunInv(n)'
  BY <1>3, <1>5, <1>6 DEF RunInv
<1> QED BY <1>2, <1>4, <1>7, RunStores

\* Everything fetched is stored by then.
LEMMA ReconcileStep == ASSUME IInv, NEW p \in Run, Reconcile(p) PROVE IInv'
<1>1. /\ TypeOK /\ run[p] \in RunState /\ RunInv(run[p])
      /\ run[p].phase = "persist" /\ run[p].todo = {}
  BY DEF IInv, TypeOK, Reconcile
<1>2. PICK G \in SUBSET Gone(p) :
        run' = [run EXCEPT ![p] = [Excuse(p, Gone(p) \ G) EXCEPT !.phase = "reconcile", !.todo = G]]
  BY DEF Reconcile
<1>3. Gone(p) \in SUBSET Ticket
  BY DEF Gone
<1>4. PICK m \in RunState : /\ m = Excuse(p, Gone(p) \ G)
                            /\ m.started = run[p].started /\ m.high = run[p].high
                            /\ m.rows = run[p].rows
  <2>1. Gone(p) \ G \in SUBSET Ticket
    BY <1>3
  <2> QED BY <1>1, <2>1, ExcuseEffect
<1> DEFINE n == [m EXCEPT !.phase = "reconcile", !.todo = G]
<1>5. /\ n \in RunState /\ n.phase = "reconcile" /\ n.started = run[p].started
      /\ n.high = run[p].high /\ n.rows = run[p].rows
  BY <1>3, <1>4 DEF RunState, Phase
<1>6. run' = [run EXCEPT ![p] = n]
  BY <1>2, <1>4
<1> HIDE DEF n
<1>7. RunInv(n)
  BY <1>1, <1>5 DEF RunInv, WillBeSafe
<1> QED BY <1>1, <1>5, <1>6, <1>7, RunMoves DEF TypeOK, RowType, Reconcile

LEMMA RereadStep == ASSUME IInv, NEW p \in Run, NEW t \in Ticket, Reread(p, t) PROVE IInv'
<1>1. /\ TypeOK /\ run[p] \in RunState /\ RunInv(run[p]) /\ run[p].phase = "reconcile"
  BY DEF IInv, TypeOK, Reread
<1> DEFINE x    == IF snow[t].place = "deleted" THEN "judge" ELSE "refresh"
           rows == [run[p].rows EXCEPT ![t] = snow[t]]
           n    == [run[p] EXCEPT !.phase = x, !.rows = rows, !.todo = @ \ {t}, !.cur = {t}]
<1>2. rows \in [Ticket -> Copy] /\ \A u \in Ticket : rows[u].ver <= snow[u].ver
  <2>1. \A u \in Ticket : snow[u] \in Copy /\ snow[u].ver \in Nat
    BY <1>1 DEF TypeOK, Copy
  <2>2. \A u \in Ticket : rows[u] = IF u = t THEN snow[u] ELSE run[p].rows[u]
    BY <1>1 DEF RunState
  <2> QED BY <1>1, <2>1, <2>2 DEF RunState, RunInv
<1>3. run' = [run EXCEPT ![p] = n]
  BY <1>1 DEF Reread, RunState
<1>4. x \in {"judge", "refresh"}
  OBVIOUS
<1> HIDE DEF rows, x
<1>5. /\ n \in RunState /\ n.phase = x /\ n.started = run[p].started
      /\ n.high = run[p].high /\ n.rows = rows
  BY <1>1, <1>2, <1>4 DEF RunState, Phase
<1> HIDE DEF n
<1>6. RunInv(n)
  BY <1>1, <1>2, <1>4, <1>5 DEF RunInv, WillBeSafe
<1> QED BY <1>1, <1>3, <1>5, <1>6, RunMoves DEF TypeOK, RowType, Reread

LEMMA UnreadableStep == ASSUME IInv, NEW p \in Run, NEW t \in Ticket, Unreadable(p, t) PROVE IInv'
<1>1. /\ TypeOK /\ run[p] \in RunState /\ RunInv(run[p]) /\ run[p].phase = "reconcile"
  BY DEF IInv, TypeOK, Unreadable
<1>2. PICK m \in RunState : /\ m = Excuse(p, {t})
                            /\ m.phase = run[p].phase /\ m.started = run[p].started
                            /\ m.high = run[p].high /\ m.rows = run[p].rows
  BY <1>1, ExcuseEffect
<1> DEFINE n == [m EXCEPT !.todo = m.todo \ {t}]
<1>3. m.todo \ {t} \in SUBSET Ticket
  BY DEF RunState
<1>4. /\ n \in RunState /\ n.phase = run[p].phase /\ n.started = run[p].started
      /\ n.high = run[p].high /\ n.rows = run[p].rows
  BY <1>2, <1>3, SetTodo
<1>5. run' = [run EXCEPT ![p] = n]
  BY <1>2 DEF Unreadable
<1> HIDE DEF n
<1>6. RunInv(n)
  BY <1>1, <1>4 DEF RunInv, WillBeSafe
<1>7. failures' \in 0..MaxFailures
  BY <1>1, SyncBoundAssumption DEF TypeOK, Unreadable
<1> QED BY <1>1, <1>4, <1>5, <1>6, <1>7, RunMoves DEF TypeOK, RowType, Unreadable

LEMMA RefreshStep == ASSUME IInv, NEW p \in Run, NEW t \in Ticket, Refresh(p, t) PROVE IInv'
<1>1. /\ TypeOK /\ Versions /\ run[p] \in RunState /\ RunInv(run[p])
      /\ run[p].phase = "refresh"
  BY DEF IInv, TypeOK, Refresh
<1> PICK copy \in Copy : copy = run[p].rows[t]
  BY <1>1 DEF RunState
<1>2. copy.ver <= snow[t].ver
  BY <1>1 DEF RunInv
<1>a. "judge" \in Phase
  BY DEF Phase
<1> DEFINE m == [run[p] EXCEPT !.phase = "judge"]
<1>b. /\ m \in RunState /\ m.phase = "judge" /\ m.started = run[p].started
      /\ m.high = run[p].high /\ m.rows = run[p].rows
  BY <1>1, <1>a, SetPhase
<1>c. Refresh(p, t) => run' = [run EXCEPT ![p] = m]
  BY DEF Refresh
<1> HIDE DEF m
<1>3. PICK n \in RunState : /\ n = m /\ n.phase = "judge" /\ n.started = run[p].started
                            /\ n.high = run[p].high /\ n.rows = run[p].rows
  BY <1>b
<1>4. /\ Store(t, copy) /\ run' = [run EXCEPT ![p] = n]
      /\ UNCHANGED <<now, snow, watermark, hook, posted, failures>>
  BY <1>3, <1>c DEF Refresh
<1>5. RunInv(n)
  BY <1>1, <1>3 DEF RunInv, WillBeSafe
<1>6. RunInv(n)'
  BY <1>1, <1>2, <1>4, <1>5, RunInvAfterStore
<1> QED BY <1>2, <1>4, <1>6, RunStores

LEMMA JudgeStep == ASSUME IInv, NEW p \in Run, Judge(p) PROVE IInv'
<1> DEFINE n == [run[p] EXCEPT !.phase = "reconcile", !.cur = {}]
<1>1. /\ TypeOK /\ run[p] \in RunState /\ RunInv(run[p]) /\ run[p].phase = "judge"
  BY DEF IInv, TypeOK, Judge
<1>2. run' = [run EXCEPT ![p] = n]
  BY DEF Judge
<1>3. /\ n \in RunState /\ n.phase = "reconcile" /\ n.started = run[p].started
      /\ n.high = run[p].high /\ n.rows = run[p].rows
  BY <1>1 DEF RunState, Phase
<1> HIDE DEF n
<1>4. RunInv(n)
  BY <1>1, <1>3 DEF RunInv, WillBeSafe
<1>5. row' \in [Ticket -> RowType]
  <2>1. \A t \in Ticket : row[t] \in RowType /\ [row[t] EXCEPT !.active = FALSE] \in RowType
    BY <1>1 DEF TypeOK, RowType
  <2> QED BY <2>1 DEF Judge
<1> QED BY <1>1, <1>2, <1>3, <1>4, <1>5, RunMoves DEF TypeOK, Judge

\* A run that ends leaves a watermark that was safe already.
LEMMA RunEnds ==
  ASSUME IInv, NEW p \in Run, run' = [run EXCEPT ![p] = Idle],
         watermark' \in Nat \cup {NoMark}, watermark' # NoMark => watermark' <= now + Skew,
         watermark' # NoMark => \A t \in Ticket : Ours(t) => Safe(t, watermark' - Overlap),
         UNCHANGED <<now, snow, row, hook, posted, failures, seen>>
  PROVE  IInv'
<1>1. TypeOK
  BY DEF IInv
<1>2. TypeOK'
  BY <1>1, PartTypes DEF TypeOK
<1>3. Versions' /\ Clock' /\ NothingSkipped'
  BY DEF IInv, Versions, Clock, NothingSkipped, Safe, Ours
<1>4. ASSUME NEW q \in Run PROVE RunInv(run[q])'
  <2>1. run'[q] = IF q = p THEN Idle ELSE run[q]
    BY <1>1 DEF TypeOK
  <2>2. RunInv(run'[q])
    BY <1>1, <2>1, IdleInv DEF IInv
  <2> QED BY <2>2 DEF RunInv, WillBeSafe, Safe, Ours
<1> QED BY <1>2, <1>3, <1>4 DEF IInv

LEMMA FinishStep == ASSUME IInv, NEW p \in Run, Finish(p) PROVE IInv'
<1>1. /\ TypeOK /\ run[p] \in RunState /\ RunInv(run[p])
      /\ run[p].phase \in {"reconcile", "persist"} /\ run[p].todo = {}
  BY DEF IInv, TypeOK, Finish
<1>2. \A t \in Ticket : Ours(t) => Safe(t, run[p].high - Overlap)
  BY <1>1 DEF RunInv, WillBeSafe
<1>3. run[p].high \in Nat /\ run[p].high <= now + Skew
  BY <1>1 DEF RunState, RunInv
<1> QED BY <1>2, <1>3, RunEnds DEF Finish

LEMMA RestoreStep == ASSUME IInv, NEW p \in Run, Restore(p) PROVE IInv'
<1>1. /\ TypeOK /\ run[p] \in RunState /\ RunInv(run[p]) /\ run[p].phase = "failing"
  BY DEF IInv, TypeOK, Restore
<1>2. run[p].since # NoMark => \A t \in Ticket : Ours(t) => Safe(t, run[p].since - Overlap)
  BY <1>1 DEF RunInv, WillBeSafe
<1>3. /\ run[p].since \in Nat \cup {NoMark}
      /\ run[p].since # NoMark => run[p].since <= now + Skew
  BY <1>1 DEF RunState, RunInv
<1> QED BY <1>2, <1>3, RunEnds DEF Restore

LEMMA FailStep == ASSUME IInv, NEW p \in Run, Fail(p) PROVE IInv'
<1> DEFINE n == [Idle EXCEPT !.phase = "failing", !.since = watermark]
<1>1. /\ TypeOK /\ Clock /\ NothingSkipped /\ now \in Nat
      /\ watermark \in Nat \cup {NoMark} /\ watermark \in Int \cup {NoMark}
  BY DEF IInv, TypeOK
<1>2. /\ n \in RunState /\ n.phase = "failing" /\ n.started = 0 /\ n.since = watermark
      /\ n.high = 0 /\ n.rows = [t \in Ticket |-> Absent]
  BY <1>1, PartTypes DEF Idle, RunState, Phase
<1>3. run' = [run EXCEPT ![p] = n]
  BY DEF Fail
<1> HIDE DEF n
<1>4. \A t \in Ticket : n.rows[t].ver = 0 /\ snow[t].ver \in Nat
  BY <1>1, <1>2 DEF Absent, TypeOK, Copy
<1>5. RunInv(n)
  <2>1. \A t \in Ticket : Ours(t) => WillBeSafe(n, t)
    BY <1>1, <1>2 DEF WillBeSafe, NothingSkipped, Safe
  <2> QED BY <1>1, <1>2, <1>4, <2>1, ClockAssumption DEF RunInv, Clock
<1>6. failures' \in 0..MaxFailures
  BY <1>1, SyncBoundAssumption DEF TypeOK, Fail
<1> QED BY <1>1, <1>2, <1>3, <1>5, <1>6, RunMoves DEF TypeOK, RowType, Fail

-----------------------------------------------------------------------------
(* The webhook, and a restart.                                              *)

LEMMA HookReadStep == ASSUME IInv, NEW t \in Ticket, HookRead(t) PROVE IInv'
<1>1. TypeOK /\ Versions
  BY DEF IInv
<1>2. /\ hook' \in [Ticket -> Copy] /\ posted' \subseteq Ticket
      /\ \A u \in Ticket : hook'[u].ver <= snow[u].ver
  <2>1. \A u \in Ticket : snow[u] \in Copy /\ snow[u].ver \in Nat /\ Absent.ver = 0
    BY <1>1 DEF TypeOK, Copy, Absent
  <2>2. \A u \in Ticket : hook'[u] = IF u = t THEN IF snow[t].place = "deleted" THEN Absent ELSE snow[t]
                                     ELSE hook[u]
    BY <1>1 DEF HookRead, TypeOK
  <2>3. hook' \in [Ticket -> Copy] /\ posted' \subseteq Ticket
    BY <1>1, <2>1, PartTypes DEF HookRead, TypeOK
  <2> QED BY <1>1, <2>1, <2>2, <2>3 DEF Versions
<1>3. UNCHANGED <<now, snow, row, watermark, run, failures, seen>>
  BY DEF HookRead
<1>4. TypeOK' /\ Versions' /\ Clock' /\ NothingSkipped'
  BY <1>1, <1>2, <1>3 DEF IInv, TypeOK, Versions, Clock, NothingSkipped, Ours
<1>5. \A q \in Run : RunInv(run[q])'
  BY <1>3 DEF IInv, RunInv, WillBeSafe, Safe, Ours
<1> QED BY <1>4, <1>5 DEF IInv

LEMMA HookStoreStep == ASSUME IInv, NEW t \in Ticket, HookStore(t) PROVE IInv'
<1>1. TypeOK /\ Versions /\ Clock /\ NothingSkipped
  BY DEF IInv
<1>2. hook[t] \in Copy /\ hook[t].ver <= snow[t].ver
  BY <1>1 DEF TypeOK, Versions
<1>3. /\ Store(t, hook[t]) /\ hook' = [hook EXCEPT ![t] = Absent]
      /\ UNCHANGED <<now, snow, watermark, run, posted, failures>>
  BY DEF HookStore
<1>4. /\ row' \in [Ticket -> RowType] /\ seen' \in [Ticket -> Nat]
      /\ \A u \in Ticket : seen[u] <= seen'[u] /\ seen'[u] <= snow[u].ver
      /\ \A u \in Ticket, mark \in Int : Safe(u, mark) => Safe(u, mark)'
  BY <1>1, <1>2, <1>3, StoreEffect
<1>5. TypeOK'
  BY <1>1, <1>3, <1>4, PartTypes DEF TypeOK, RowType
<1>6. Versions'
  <2>1. \A u \in Ticket : snow[u].ver \in Nat /\ Absent.ver = 0
    BY <1>1 DEF TypeOK, Copy, Absent
  <2>2. \A u \in Ticket : hook'[u] = IF u = t THEN Absent ELSE hook[u]
    BY <1>1, <1>3 DEF TypeOK
  <2> QED BY <1>1, <1>3, <1>4, <2>1, <2>2 DEF Versions
<1>7. Clock'
  BY <1>1, <1>3 DEF Clock
<1>8. NothingSkipped'
  <2> SUFFICES ASSUME watermark # NoMark, NEW u \in Ticket, Ours(u)
               PROVE  seen'[u] = snow[u].ver \/ snow[u].stamp > watermark - Overlap
    BY <1>3 DEF NothingSkipped, Ours
  <2>1. PICK mark \in Int : mark = watermark - Overlap
    BY <1>1, ClockAssumption DEF TypeOK
  <2>2. Safe(u, mark)'
    BY <1>1, <1>4, <2>1 DEF NothingSkipped, Safe
  <2> QED BY <1>3, <2>1, <2>2 DEF Safe
<1>9. ASSUME NEW q \in Run PROVE RunInv(run[q])'
  <2>1. PICK n \in RunState : n = run[q] /\ RunInv(n)
    BY <1>1 DEF IInv, TypeOK
  <2>2. RunInv(n)'
    BY <1>1, <1>2, <1>3, <2>1, RunInvAfterStore
  <2> QED BY <1>3, <2>1, <2>2
<1> QED BY <1>5, <1>6, <1>7, <1>8, <1>9 DEF IInv

LEMMA RestartStep == ASSUME IInv, Restart PROVE IInv'
<1>1. TypeOK /\ Versions /\ Clock /\ NothingSkipped
  BY DEF IInv
<1>2. /\ run' = [p \in Run |-> Idle] /\ hook' = [t \in Ticket |-> Absent]
      /\ UNCHANGED <<now, snow, row, watermark, posted, seen>>
  BY DEF Restart
<1>3. failures' \in 0..MaxFailures
  BY <1>1, SyncBoundAssumption DEF TypeOK, Restart
<1>4. TypeOK'
  BY <1>1, <1>2, <1>3, PartTypes DEF TypeOK
<1>5. Versions' /\ Clock' /\ NothingSkipped'
  <2>1. \A t \in Ticket : snow[t].ver \in Nat /\ Absent.ver = 0
    BY <1>1 DEF TypeOK, Copy, Absent
  <2> QED BY <1>1, <1>2, <2>1 DEF Versions, Clock, NothingSkipped, Ours
<1>6. \A q \in Run : RunInv(run[q])'
  BY <1>1, <1>2, IdleInv DEF RunInv, WillBeSafe, Safe, Ours
<1> QED BY <1>4, <1>5, <1>6 DEF IInv

-----------------------------------------------------------------------------
(* The theorems.                                                            *)

LEMMA Initially == Init => IInv
<1> SUFFICES ASSUME Init PROVE IInv
  OBVIOUS
<1>1. TypeOK
  BY PartTypes, SyncBoundAssumption DEF Init, TypeOK, RowType
<1>2. Versions /\ Clock /\ NothingSkipped
  BY MarkAssumption DEF Init, Versions, Clock, NothingSkipped, Absent, Ours
<1>3. \A p \in Run : RunInv(run[p])
  BY <1>1, IdleInv DEF Init
<1> QED BY <1>1, <1>2, <1>3 DEF IInv

LEMMA Preserved == IInv /\ [Next]_vars => IInv'
<1> SUFFICES ASSUME IInv, [Next]_vars PROVE IInv'
  OBVIOUS
<1>1. ASSUME NEW p \in Run, RunStep(p) PROVE IInv'
  BY <1>1, StartStep, FetchAgedStep, FetchRecentStep, FetchDeltaStep, PersistStep, RereadStep,
     RefreshStep, ReconcileStep, JudgeStep, FinishStep, RestoreStep DEF RunStep
<1>2. CASE Next
  BY <1>1, <1>2, TickStep, UpdateStep, FailStep, UnreadableStep, HookReadStep, HookStoreStep,
     RestartStep DEF Next, HookStep
<1>3. CASE UNCHANGED vars
  <2>1. TypeOK' /\ Versions' /\ Clock' /\ NothingSkipped'
    BY <1>3 DEF IInv, TypeOK, Versions, Clock, NothingSkipped, Ours, vars
  <2>2. \A q \in Run : RunInv(run[q])'
    BY <1>3 DEF IInv, RunInv, WillBeSafe, Safe, Ours, vars
  <2> QED BY <2>1, <2>2 DEF IInv
<1> QED BY <1>2, <1>3

\* At each phase of a run it is known why the watermark the run will leave is safe.
THEOREM SyncStrengthening == Spec => []IInv
<1> QED BY Initially, Preserved, PTL DEF Spec

\* Incidents, rows, the watermark, the runs and the webhook's copies keep their types.
THEOREM SyncTypeCorrect == Spec => []TypeOK
<1>1. IInv => TypeOK
  BY DEF IInv
<1> QED BY <1>1, SyncStrengthening, PTL

\* No update of an incident in scope is behind the watermark unstored, whatever overlaps,
\* fails and is cut off (pipeline/sync.py, OVERLAP_MINUTES).
THEOREM WatermarkSkipsNothing == Spec => []NothingSkipped
<1>1. IInv => NothingSkipped
  BY DEF IInv
<1> QED BY <1>1, SyncStrengthening, PTL

-----------------------------------------------------------------------------
(* Where a retired row says the ticket went: with one run at a time and     *)
(* nothing pushed, nobody stores a row between the refresh of it and its    *)
(* retirement.                                                              *)

Alone == /\ \A p, q \in Run : run[p].phase # "idle" /\ run[q].phase # "idle" => p = q
         /\ posted = {} /\ \A t \in Ticket : hook[t] = Absent

\* What a run knows of the ticket it is about to judge.
Judging(n) ==
    /\ n.phase = "refresh" => \A t \in n.cur : n.rows[t].place # "deleted"
    /\ n.phase = "judge" => \A t \in n.cur :
          IF n.rows[t].place = "deleted" THEN snow[t].place = "deleted"
          ELSE row[t].copy = n.rows[t]

InTurn == Alone /\ RetiredRowSaysWhere /\ \A p \in Run : Judging(run[p])

LEMMA AbsentIsNoPlace == Absent.place = "none"
BY DEF Absent

\* A step of the run in flight: the others are idle and judge nothing.
LEMMA OneRunMoves ==
  ASSUME TypeOK, InTurn, NEW p \in Run, run[p].phase # "idle", Judging(run[p])',
         \A q \in Run \ {p} : run'[q] = run[q], UNCHANGED <<posted, hook>>,
         RetiredRowSaysWhere'
  PROVE  InTurn'
<1>1. \A q \in Run \ {p} : run'[q].phase = "idle"
  BY DEF InTurn, Alone
<1>2. \A q \in Run : Judging(run[q])'
  BY <1>1 DEF Judging
<1>3. Alone'
  BY <1>1 DEF InTurn, Alone
<1> QED BY <1>2, <1>3 DEF InTurn

\* ... that neither refreshes nor judges next, and leaves the board alone.
LEMMA OneRunGoesOn ==
  ASSUME TypeOK, InTurn, NEW p \in Run, run[p].phase # "idle",
         run'[p].phase \notin {"refresh", "judge"},
         \A q \in Run \ {p} : run'[q] = run[q], UNCHANGED <<snow, row, posted, hook>>
  PROVE  InTurn'
<1>1. Judging(run[p])'
  BY DEF Judging
<1>2. RetiredRowSaysWhere'
  BY DEF InTurn, RetiredRowSaysWhere
<1> QED BY <1>1, <1>2, OneRunMoves

\* A stored row is on the board.
LEMMA StoredIsNotRetired ==
  ASSUME TypeOK, RetiredRowSaysWhere, NEW t \in Ticket, NEW copy \in Copy, Store(t, copy),
         UNCHANGED snow
  PROVE  RetiredRowSaysWhere' /\ row'[t].copy = copy
<1>1. \A u \in Ticket : row'[u] = IF u = t THEN [copy |-> copy, active |-> TRUE] ELSE row[u]
  BY DEF Store, TypeOK
<1> QED BY <1>1 DEF RetiredRowSaysWhere

LEMMA InTurnStart ==
  ASSUME ~Overlapping, TypeOK, InTurn, NEW p \in Run, Start(p) PROVE InTurn'
<1>1. \A q \in Run : run[q].phase = "idle"
  BY DEF Start
<1>2. /\ \A q \in Run \ {p} : run'[q] = run[q]
      /\ UNCHANGED <<snow, row, posted, hook>>
  BY DEF Start, TypeOK
<1>3. run'[p].phase = "started"
  BY DEF Start, TypeOK, Idle
<1>4. \A q \in Run : Judging(run[q])'
  BY <1>1, <1>2, <1>3 DEF Judging
<1>5. Alone' /\ RetiredRowSaysWhere'
  BY <1>1, <1>2 DEF InTurn, Alone, RetiredRowSaysWhere
<1> QED BY <1>4, <1>5 DEF InTurn

LEMMA InTurnFetches ==
  ASSUME TypeOK, InTurn, NEW p \in Run, FetchAged(p) \/ FetchRecent(p) \/ FetchDelta(p)
  PROVE  InTurn'
<1>1. CASE FetchAged(p)
  <2>1. run'[p].phase = "aged" /\ run[p].phase # "idle"
    BY <1>1 DEF FetchAged, TypeOK, RunState
  <2> QED BY <1>1, <2>1, OneRunGoesOn DEF FetchAged, TypeOK
<1>2. ASSUME NEW rows, Fetched(p, rows), run[p].phase # "idle", UNCHANGED <<snow, row, posted, hook>>
      PROVE  InTurn'
  <2>1. run'[p].phase = "persist" /\ \A q \in Run \ {p} : run'[q] = run[q]
    BY <1>2 DEF Fetched, TypeOK, Idle
  <2> QED BY <1>2, <2>1, OneRunGoesOn
<1>3. CASE FetchRecent(p)
  BY <1>2, <1>3 DEF FetchRecent
<1>4. CASE FetchDelta(p)
  BY <1>2, <1>4 DEF FetchDelta
<1> QED BY <1>1, <1>3, <1>4

LEMMA InTurnEnds ==
  ASSUME TypeOK, InTurn, NEW p \in Run, Finish(p) \/ Restore(p) \/ Fail(p) PROVE InTurn'
<1>1. run'[p].phase \in {"idle", "failing"} /\ run[p].phase # "idle"
  <2>1. CASE Finish(p)
    BY <2>1 DEF Finish, TypeOK, Idle
  <2>2. CASE Restore(p)
    BY <2>2 DEF Restore, TypeOK, Idle
  <2>3. CASE Fail(p)
    BY <2>3 DEF Fail, TypeOK, Idle
  <2> QED BY <2>1, <2>2, <2>3
<1>2. (\A q \in Run \ {p} : run'[q] = run[q]) /\ UNCHANGED <<snow, row, posted, hook>>
  BY DEF Finish, Restore, Fail, TypeOK
<1> QED BY <1>1, <1>2, OneRunGoesOn

LEMMA InTurnReconciles ==
  ASSUME TypeOK, InTurn, NEW p \in Run, Reconcile(p) \/ \E t \in Ticket : Unreadable(p, t)
  PROVE  InTurn'
<1>1. CASE Reconcile(p)
  <2>1. PICK G \in SUBSET Gone(p) :
          run' = [run EXCEPT ![p] = [Excuse(p, Gone(p) \ G) EXCEPT !.phase = "reconcile", !.todo = G]]
    BY <1>1 DEF Reconcile
  <2>2. Excuse(p, Gone(p) \ G) \in RunState
    BY ExcuseEffect DEF Gone
  <2>3. run'[p].phase = "reconcile"
    BY <2>1, <2>2 DEF TypeOK, RunState
  <2> QED BY <1>1, <2>1, <2>3, OneRunGoesOn DEF Reconcile, TypeOK
<1>2. ASSUME NEW t \in Ticket, Unreadable(p, t) PROVE InTurn'
  <2>1. Excuse(p, {t}) \in RunState /\ Excuse(p, {t}).phase = run[p].phase
    BY ExcuseEffect
  <2>2. run' = [run EXCEPT ![p] = [Excuse(p, {t}) EXCEPT !.todo = @ \ {t}]] /\ run[p].phase = "reconcile"
    BY <1>2 DEF Unreadable
  <2>3. run'[p].phase = "reconcile"
    BY <2>1, <2>2 DEF TypeOK, RunState
  <2> QED BY <1>2, <2>2, <2>3, OneRunGoesOn DEF Unreadable, TypeOK
<1> QED BY <1>1, <1>2

LEMMA InTurnPersists ==
  ASSUME TypeOK, InTurn, NEW p \in Run, NEW t \in Ticket, Persist(p, t) PROVE InTurn'
<1>1. run[p] \in RunState /\ run[p].rows[t] \in Copy /\ run[p].phase = "persist"
  BY DEF Persist, TypeOK, RunState
<1>2. RetiredRowSaysWhere'
  BY <1>1, StoredIsNotRetired DEF Persist, InTurn
<1>3. run'[p].phase = "persist"
  BY <1>1 DEF Persist, TypeOK, RunState
<1>4. Judging(run[p])'
  BY <1>3 DEF Judging
<1> QED BY <1>1, <1>2, <1>4, OneRunMoves DEF Persist, TypeOK

LEMMA InTurnRereads ==
  ASSUME TypeOK, InTurn, NEW p \in Run, NEW t \in Ticket, Reread(p, t) PROVE InTurn'
<1>1. run[p] \in RunState /\ run[p].phase = "reconcile" /\ run[p].rows \in [Ticket -> Copy]
  BY DEF Reread, TypeOK, RunState
<1>2. /\ run'[p].phase = IF snow[t].place = "deleted" THEN "judge" ELSE "refresh"
      /\ run'[p].cur = {t} /\ run'[p].rows[t] = snow[t]
  BY <1>1 DEF Reread, TypeOK, RunState
<1>3. UNCHANGED <<snow, row, posted, hook>> /\ \A q \in Run \ {p} : run'[q] = run[q]
  BY DEF Reread, TypeOK
<1>4. Judging(run[p])'
  BY <1>2, <1>3 DEF Judging
<1>5. RetiredRowSaysWhere'
  BY <1>3 DEF InTurn, RetiredRowSaysWhere
<1> QED BY <1>1, <1>3, <1>4, <1>5, OneRunMoves

LEMMA InTurnRefreshes ==
  ASSUME TypeOK, InTurn, NEW p \in Run, NEW t \in Ticket, Refresh(p, t) PROVE InTurn'
<1>1. /\ run[p] \in RunState /\ run[p].phase = "refresh" /\ run[p].cur = {t}
      /\ run[p].rows[t] \in Copy /\ run[p].rows[t].place # "deleted"
  BY DEF Refresh, TypeOK, RunState, InTurn, Judging
<1>2. RetiredRowSaysWhere' /\ row'[t].copy = run[p].rows[t]
  BY <1>1, StoredIsNotRetired DEF Refresh, InTurn
<1>3. run'[p].phase = "judge" /\ run'[p].cur = {t} /\ run'[p].rows = run[p].rows
  BY <1>1 DEF Refresh, TypeOK, RunState
<1>4. Judging(run[p])'
  BY <1>1, <1>2, <1>3 DEF Judging
<1> QED BY <1>1, <1>2, <1>4, OneRunMoves DEF Refresh, TypeOK

\* The row that is retired was refreshed, or the incident is gone for good.
LEMMA InTurnJudges ==
  ASSUME TypeOK, InTurn, NEW p \in Run, Judge(p) PROVE InTurn'
<1>1. run[p] \in RunState /\ run[p].phase = "judge" /\ Judging(run[p])
  BY DEF Judge, TypeOK, InTurn
<1>2. run'[p].phase = "reconcile"
  BY <1>1 DEF Judge, TypeOK, RunState
<1>3. Judging(run[p])'
  BY <1>2 DEF Judging
<1>4. RetiredRowSaysWhere'
  <2> SUFFICES ASSUME NEW t \in Ticket, ~row'[t].active, snow[t].place # "deleted"
               PROVE  row'[t].copy.place # "ours"
    BY DEF Judge, RetiredRowSaysWhere
  <2>1. row[t] \in RowType
    BY DEF TypeOK, RowType
  <2>2. CASE t \in run[p].cur /\ Departed(run[p].rows[t])
    <3>1. row[t].copy = run[p].rows[t]
      BY <1>1, <2>2 DEF Judging
    <3>2. row'[t].copy = row[t].copy
      BY <2>1, <2>2 DEF Judge, RowType
    <3> QED BY <2>2, <3>1, <3>2 DEF Departed
  <2>3. CASE ~(t \in run[p].cur /\ Departed(run[p].rows[t]))
    <3>1. row'[t] = row[t]
      BY <2>3 DEF Judge
    <3> QED BY <3>1 DEF InTurn, RetiredRowSaysWhere
  <2> QED BY <2>2, <2>3
<1> QED BY <1>1, <1>3, <1>4, OneRunMoves DEF Judge, TypeOK

\* An incident that is deleted stays deleted.
LEMMA InTurnUpdate ==
  ASSUME ~WebhookOn, TypeOK, InTurn, NEW t \in Ticket, NEW place \in Places, Update(t, place)
  PROVE  InTurn'
<1>1. /\ snow[t].place # "deleted"
      /\ \A u \in Ticket \ {t} : snow'[u] = snow[u]
      /\ run' = [p \in Run |-> Excuse(p, {t})]
      /\ UNCHANGED <<row, hook, posted>>
  BY DEF Update, TypeOK
<1>2. \A p \in Run : run'[p].phase = run[p].phase /\ run'[p].rows = run[p].rows
  BY <1>1, ExcuseEffect
<1>3. \A p \in Run : run'[p].cur = run[p].cur
  BY <1>1 DEF Excuse, TypeOK, RunState
<1>4. RetiredRowSaysWhere'
  BY <1>1 DEF InTurn, RetiredRowSaysWhere
<1>5. \A p \in Run : Judging(run[p])'
  <2> SUFFICES ASSUME NEW p \in Run PROVE Judging(run[p])'
    OBVIOUS
  <2> DEFINE n == run[p]
             m == run'[p]
  <2>1. n.cur \subseteq Ticket /\ Judging(n)
    BY DEF TypeOK, RunState, InTurn
  <2>2. m.phase = n.phase /\ m.rows = n.rows /\ m.cur = n.cur
    BY <1>2, <1>3
  <2>3. \A u \in Ticket : snow[u].place = "deleted" => snow'[u].place = "deleted"
    BY <1>1
  <2> HIDE DEF n, m
  <2>4. /\ m.phase = "refresh" => \A u \in m.cur : m.rows[u].place # "deleted"
        /\ m.phase = "judge" => \A u \in m.cur :
              IF m.rows[u].place = "deleted" THEN snow'[u].place = "deleted"
              ELSE row'[u].copy = m.rows[u]
    BY <1>1, <2>1, <2>2, <2>3 DEF Judging
  <2> QED BY <2>4 DEF Judging, m
<1>6. Alone'
  BY <1>1, <1>2 DEF InTurn, Alone
<1> QED BY <1>4, <1>5, <1>6 DEF InTurn

LEMMA InTurnPreserved ==
  ASSUME ~Overlapping, ~WebhookOn, TypeOK, InTurn, [Next]_vars PROVE InTurn'
<1>1. ASSUME NEW p \in Run, RunStep(p) PROVE InTurn'
  BY <1>1, InTurnStart, InTurnFetches, InTurnPersists, InTurnRereads, InTurnRefreshes,
     InTurnReconciles, InTurnJudges, InTurnEnds DEF RunStep
<1>2. CASE Tick \/ UNCHANGED vars
  BY <1>2 DEF InTurn, Alone, RetiredRowSaysWhere, Judging, Tick, vars
<1>3. ASSUME NEW t \in Ticket, HookStep(t) PROVE InTurn'
  BY <1>3 DEF HookStep, HookRead, HookStore, InTurn, Alone
<1>4. CASE Restart
  <2>1. \A p \in Run : run'[p].phase = "idle"
    BY <1>4 DEF Restart, Idle
  <2> QED BY <1>4, <2>1 DEF Restart, InTurn, Alone, RetiredRowSaysWhere, Judging
<1>5. ASSUME NEW p \in Run, NEW t \in Ticket, Unreadable(p, t) PROVE InTurn'
  BY <1>5, InTurnReconciles
<1>6. ASSUME NEW p \in Run, Fail(p) PROVE InTurn'
  BY <1>6, InTurnEnds
<1> QED BY <1>1, <1>2, <1>3, <1>4, <1>5, <1>6, InTurnUpdate DEF Next

LEMMA RunsInTurn ==
  ASSUME ~Overlapping, ~WebhookOn
  PROVE  Spec => []InTurn
<1>1. Init => InTurn
  <2> SUFFICES ASSUME Init PROVE InTurn
    OBVIOUS
  <2>1. Alone /\ RetiredRowSaysWhere
    BY AbsentIsNoPlace DEF Init, Alone, RetiredRowSaysWhere, Idle, NoRow
  <2>2. \A p \in Run : Judging(run[p])
    BY DEF Init, Judging, Idle
  <2> QED BY <2>1, <2>2 DEF InTurn
<1>2. TypeOK /\ InTurn /\ [Next]_vars => InTurn'
  BY InTurnPreserved
<1> QED BY <1>1, <1>2, SyncTypeCorrect, PTL DEF Spec

\* One run at a time, and nothing pushed: a retired row says where the ticket went, for any
\* incidents, jobs and ceiling and any number of errors and restarts ("the stored row should
\* say where the ticket went", pipeline/sync.py).
THEOREM RetiredRowsSayWhere ==
  ASSUME ~Overlapping, ~WebhookOn
  PROVE  Spec => []RetiredRowSaysWhere
<1>1. InTurn => RetiredRowSaysWhere
  BY DEF InTurn
<1> QED BY <1>1, RunsInTurn, PTL

\* Only a run that looked takes a row off the board, and it judges what the row says.
LEMMA JudgedRowsLeft ==
  ASSUME TypeOK, InTurn, [Next]_vars, NEW t \in Ticket, row[t].active, Ours(t),
         row[t].copy = snow[t]
  PROVE  row'[t].active
<1>1. row \in [Ticket -> RowType]
  BY DEF TypeOK, RowType
<1>2. ASSUME NEW u \in Ticket, NEW copy, Store(u, copy) PROVE row'[t].active
  BY <1>1, <1>2 DEF Store, RowType
<1>3. ASSUME NEW p \in Run, Judge(p) PROVE row'[t].active
  <2>1. Judging(run[p]) /\ run[p].phase = "judge"
    BY <1>3 DEF InTurn, Judge
  <2>2. t \in run[p].cur => run[p].rows[t].place = "ours"
    BY <2>1 DEF Judging, Ours
  <2> QED BY <1>3, <2>2 DEF Judge, Departed
<1>4. ASSUME NEW p \in Run, RunStep(p) PROVE row'[t].active
  BY <1>2, <1>3, <1>4
  DEF RunStep, Start, FetchAged, FetchRecent, FetchDelta, Persist, Reread, Refresh, Reconcile,
      Finish, Restore
<1>5. ASSUME NEW u \in Ticket, HookStep(u) PROVE row'[t].active
  BY <1>2, <1>5 DEF HookStep, HookRead, HookStore
<1> QED BY <1>4, <1>5 DEF Next, Tick, Update, Fail, Unreadable, Restart, vars

\* In turn, no run takes a ticket off the board that is in scope and whose row says so
\* ("still open and still ours", pipeline/sync.py line 291).
THEOREM InScopeIsLeftAlone ==
  ASSUME ~Overlapping, ~WebhookOn
  PROVE  Spec => InScopeStays
<1>1. TypeOK /\ InTurn /\ [Next]_vars =>
        [\A t \in Ticket : row[t].active /\ Ours(t) /\ row[t].copy = snow[t]
                             => row'[t].active]_vars
  BY JudgedRowsLeft
<1> QED BY <1>1, RunsInTurn, SyncTypeCorrect, PTL DEF Spec, InScopeStays
-----------------------------------------------------------------------------
(* What a full run leaves on the board: the run is followed from its first  *)
(* query to its end, ticket by ticket, but for those it is not answerable   *)
(* for.  With one run at a time and nothing pushed, what it has found of    *)
(* any other ticket still is so, and nobody else writes the ticket's row.   *)

Settles(n, t) ==
    /\ n.phase = "started" => n.since = NoMark
    /\ n.phase = "aged" =>
          n.rows[t] = IF Ours(t) /\ snow[t].opened < n.started - AgedAfter
                      THEN snow[t] ELSE Absent
    /\ n.phase = "persist" =>
          /\ n.rows[t] = IF Ours(t) THEN snow[t] ELSE Absent
          /\ Ours(t) => t \in n.todo \/ row[t].active
    /\ n.phase \in {"reconcile", "refresh", "judge"} => (Ours(t) => row[t].active)
    /\ n.phase = "reconcile" => (row[t].active => Ours(t) \/ t \in n.todo)
    /\ n.phase \in {"refresh", "judge"} =>
          /\ row[t].active => Ours(t) \/ t \in n.todo \cup n.cur
          /\ t \in n.cur => n.rows[t] = snow[t]

FullRunsSettle == \A p \in FullRuns : \A t \in Ticket \ run[p].excused : Settles(run[p], t)

Single == Alone /\ FullRunsSettle

\* A step of the run in flight: what is to be shown is about that run.
LEMMA SingleMoves ==
  ASSUME TypeOK, Single, NEW p \in Run, run[p].phase # "idle",
         \A q \in Run \ {p} : run'[q] = run[q],
         p \in FullRuns => \A t \in Ticket \ run'[p].excused : Settles(run[p], t)'
  PROVE  FullRunsSettle'
<1>1. \A q \in Run \ {p} : run'[q].phase = "idle"
  BY DEF Single, Alone
<1>2. ASSUME NEW q \in FullRuns, NEW t \in Ticket, t \notin run'[q].excused
      PROVE  Settles(run[q], t)'
  <2>1. CASE q = p
    BY <1>2, <2>1
  <2>2. CASE q # p
    <3>1. run'[q].phase = "idle"
      BY <1>1, <2>2, RunAssumption
    <3> QED BY <3>1 DEF Settles
  <2> QED BY <2>1, <2>2
<1> QED BY <1>2 DEF FullRunsSettle

LEMMA OursIsThere == ASSUME NEW t \in Ticket, Ours(t) PROVE snow[t] # Absent
BY DEF Ours, Absent

\* The two queries of a full run find every incident in scope: one that was not touched in
\* the window was opened before it, and is aged.
LEMMA SettlesFetch ==
  ASSUME TypeOK, Versions, Single, NEW p \in Run,
         FetchAged(p) \/ FetchRecent(p) \/ FetchDelta(p)
  PROVE  FullRunsSettle'
<1> DEFINE n == run[p]
           m == run'[p]
<1>1. n \in RunState
  BY DEF TypeOK
<1>2. (\A q \in Run \ {p} : run'[q] = run[q]) /\ UNCHANGED <<snow, row>>
  BY DEF FetchAged, FetchRecent, FetchDelta, Fetched, TypeOK
<1>3. CASE FetchAged(p)
  <2>1. /\ m.phase = "aged" /\ m.started = n.started
        /\ \A t \in Ticket : m.rows[t] = IF Ours(t) /\ snow[t].opened < n.started - AgedAfter
                                         THEN snow[t] ELSE Absent
    BY <1>1, <1>3 DEF FetchAged, TypeOK, RunState
  <2>2. \A t \in Ticket : Settles(run[p], t)'
    BY <1>2, <2>1 DEF Settles, Ours
  <2>3. n.phase # "idle"
    BY <1>3 DEF FetchAged
  <2> QED BY <1>2, <2>2, <2>3, SingleMoves
<1>4. CASE FetchRecent(p)
  <2> DEFINE rows == [t \in Ticket |-> IF Ours(t) /\ snow[t].stamp > n.started - Window
                                       THEN snow[t] ELSE n.rows[t]]
  <2>1. n.phase = "aged" /\ Fetched(p, rows)
    BY <1>4 DEF FetchRecent
  <2>2. /\ m.phase = "persist" /\ m.rows = rows /\ m.todo = Numbers(rows)
        /\ m.excused = n.excused
    <3> HIDE DEF rows
    <3> QED BY <2>1 DEF Fetched, TypeOK, Idle
  <2>3. ASSUME p \in FullRuns, NEW t \in Ticket, t \notin m.excused PROVE Settles(run[p], t)'
    <3>1. n.rows[t] = IF Ours(t) /\ snow[t].opened < n.started - AgedAfter
                      THEN snow[t] ELSE Absent
      BY <2>1, <2>2, <2>3 DEF Single, FullRunsSettle, Settles
    <3>2. /\ snow[t].opened \in Nat /\ snow[t].stamp \in Nat /\ snow[t].opened <= snow[t].stamp
          /\ n.started \in Nat
      BY <1>1 DEF TypeOK, Copy, RunState, Versions
    <3>3. snow[t].stamp > n.started - Window \/ snow[t].opened < n.started - AgedAfter
      BY <3>2, ClockAssumption, WindowAssumption
    <3>4. rows[t] = IF Ours(t) THEN snow[t] ELSE Absent
      BY <3>1, <3>3
    <3> HIDE DEF rows
    <3>5. Ours(t) => t \in m.todo
      BY <2>2, <3>4, OursIsThere DEF Numbers
    <3> QED BY <1>2, <2>2, <3>4, <3>5 DEF Settles, Ours
  <2> HIDE DEF rows
  <2> QED BY <1>2, <2>1, <2>3, SingleMoves
<1>5. CASE FetchDelta(p)
  <2>1. n.phase = "started" /\ n.since # NoMark
    BY <1>5 DEF FetchDelta
  <2>2. p \in FullRuns => Ticket \subseteq n.excused
    BY <2>1 DEF Single, FullRunsSettle, Settles
  <2>3. m.excused = n.excused
    BY <1>5 DEF FetchDelta, Fetched, TypeOK, Idle
  <2> QED BY <1>2, <2>1, <2>2, <2>3, SingleMoves
<1> QED BY <1>3, <1>4, <1>5

LEMMA SettlesStart == ASSUME TypeOK, Single, NEW p \in Run, Start(p), ~Overlapping PROVE FullRunsSettle'
<1>1. \A q \in Run \ {p} : run'[q] = run[q] /\ run[q].phase = "idle"
  BY DEF Start, TypeOK
<1>2. p \in FullRuns => run'[p].phase = "started" /\ run'[p].since = NoMark
  BY DEF Start, TypeOK, Idle
<1>3. ASSUME NEW q \in FullRuns, NEW t \in Ticket PROVE Settles(run[q], t)'
  <2>1. CASE q = p
    BY <1>2, <2>1 DEF Settles
  <2>2. CASE q # p
    BY <1>1, <2>2, RunAssumption DEF Settles
  <2> QED BY <2>1, <2>2
<1> QED BY <1>3 DEF FullRunsSettle

\* Stored is on the board.
LEMMA StoredIsActive ==
  ASSUME TypeOK, NEW t \in Ticket, NEW copy, Store(t, copy)
  PROVE  /\ row'[t].active
         /\ \A u \in Ticket \ {t} : row'[u] = row[u]
BY DEF Store, TypeOK

LEMMA SettlesPersist ==
  ASSUME TypeOK, Single, NEW p \in Run, NEW t \in Ticket, Persist(p, t) PROVE FullRunsSettle'
<1> DEFINE n == run[p]
           m == run'[p]
<1>1. n \in RunState /\ n.phase = "persist"
  BY DEF Persist, TypeOK
<1>2. (\A q \in Run \ {p} : run'[q] = run[q]) /\ UNCHANGED snow
  BY DEF Persist, TypeOK
<1>3. m.phase = "persist" /\ m.rows = n.rows /\ m.todo = n.todo \ {t} /\ m.excused = n.excused
  BY <1>1 DEF Persist, TypeOK, RunState
<1>4. row'[t].active /\ \A u \in Ticket \ {t} : row'[u] = row[u]
  BY StoredIsActive DEF Persist
<1>5. ASSUME p \in FullRuns, NEW u \in Ticket, u \notin m.excused PROVE Settles(run[p], u)'
  <2>1. Settles(n, u)
    BY <1>3, <1>5 DEF Single, FullRunsSettle
  <2>2. Ours(u) => u \in m.todo \/ row'[u].active
    BY <1>1, <1>3, <1>4, <2>1 DEF Settles
  <2> QED BY <1>1, <1>2, <1>3, <2>1, <2>2 DEF Settles, Ours
<1> QED BY <1>1, <1>2, <1>5, SingleMoves

\* What left the fetch is looked at, or is beyond the ceiling.
LEMMA SettlesReconcile ==
  ASSUME TypeOK, Single, NEW p \in Run, Reconcile(p) PROVE FullRunsSettle'
<1> DEFINE n == run[p]
           m == run'[p]
<1>1. n \in RunState /\ n.phase = "persist" /\ n.todo = {} /\ p \in FullRuns
  BY DEF Reconcile, TypeOK
<1>2. (\A q \in Run \ {p} : run'[q] = run[q]) /\ UNCHANGED <<snow, row>>
  BY DEF Reconcile, TypeOK
<1>3. PICK G \in SUBSET Gone(p) :
        run' = [run EXCEPT ![p] = [Excuse(p, Gone(p) \ G) EXCEPT !.phase = "reconcile", !.todo = G]]
  BY DEF Reconcile
<1>4. /\ Excuse(p, Gone(p) \ G) \in RunState
      /\ Excuse(p, Gone(p) \ G).excused = n.excused \cup (Gone(p) \ G)
  BY <1>1, ExcuseEffect DEF Excuse, Gone, RunState
<1>5. m.phase = "reconcile" /\ m.todo = G /\ m.excused = n.excused \cup (Gone(p) \ G)
  BY <1>3, <1>4 DEF TypeOK, RunState
<1>6. ASSUME NEW u \in Ticket, u \notin m.excused PROVE Settles(run[p], u)'
  <2>1. Settles(n, u)
    BY <1>1, <1>5, <1>6 DEF Single, FullRunsSettle
  <2>2. Ours(u) => row[u].active
    BY <1>1, <2>1 DEF Settles
  <2>3. row[u].active /\ ~Ours(u) => u \in Gone(p)
    BY <1>1, <2>1 DEF Settles, Gone, Numbers
  <2>4. row[u].active => Ours(u) \/ u \in G
    BY <1>5, <1>6, <2>3
  <2> QED BY <1>2, <1>5, <2>2, <2>4 DEF Settles, Ours
<1> QED BY <1>1, <1>2, <1>6, SingleMoves

LEMMA SettlesReread ==
  ASSUME TypeOK, Single, NEW p \in Run, NEW t \in Ticket, Reread(p, t) PROVE FullRunsSettle'
<1> DEFINE n == run[p]
           m == run'[p]
<1>1. n \in RunState /\ n.phase = "reconcile" /\ n.rows \in [Ticket -> Copy]
  BY DEF Reread, TypeOK, RunState
<1>2. (\A q \in Run \ {p} : run'[q] = run[q]) /\ UNCHANGED <<snow, row>>
  BY DEF Reread, TypeOK
<1>3. /\ m.phase \in {"refresh", "judge"} /\ m.cur = {t} /\ m.rows[t] = snow[t]
      /\ m.todo = n.todo \ {t} /\ m.excused = n.excused
  BY <1>1 DEF Reread, TypeOK, RunState
<1>4. ASSUME p \in FullRuns, NEW u \in Ticket, u \notin m.excused PROVE Settles(run[p], u)'
  <2>1. Settles(n, u)
    BY <1>3, <1>4 DEF Single, FullRunsSettle
  <2>2. (Ours(u) => row[u].active) /\ (row[u].active => Ours(u) \/ u \in n.todo)
    BY <1>1, <2>1 DEF Settles
  <2>3. n.todo \subseteq m.todo \cup m.cur
    BY <1>3
  <2> QED BY <1>2, <1>3, <2>2, <2>3 DEF Settles, Ours
<1> QED BY <1>1, <1>2, <1>4, SingleMoves

\* Nobody answers for what cannot be read.
LEMMA SettlesUnreadable ==
  ASSUME TypeOK, Single, NEW p \in Run, NEW t \in Ticket, Unreadable(p, t) PROVE FullRunsSettle'
<1> DEFINE n == run[p]
           m == run'[p]
<1>1. n \in RunState /\ n.phase = "reconcile"
  BY DEF Unreadable, TypeOK
<1>2. (\A q \in Run \ {p} : run'[q] = run[q]) /\ UNCHANGED <<snow, row>>
  BY DEF Unreadable, TypeOK
<1>3. /\ Excuse(p, {t}) \in RunState /\ Excuse(p, {t}).phase = n.phase
      /\ Excuse(p, {t}).todo = n.todo
  BY ExcuseEffect
<1>4. p \in FullRuns => Excuse(p, {t}).excused = n.excused \cup {t}
  BY <1>1 DEF Excuse, RunState
<1>5. /\ m.phase = "reconcile" /\ m.todo = n.todo \ {t}
      /\ m.excused = Excuse(p, {t}).excused
  BY <1>1, <1>3 DEF Unreadable, TypeOK, RunState
<1>6. ASSUME p \in FullRuns, NEW u \in Ticket, u \notin m.excused PROVE Settles(run[p], u)'
  <2>1. Settles(n, u) /\ u # t
    BY <1>4, <1>5, <1>6 DEF Single, FullRunsSettle
  <2>2. (Ours(u) => row[u].active) /\ (row[u].active => Ours(u) \/ u \in m.todo)
    BY <1>1, <1>5, <2>1 DEF Settles
  <2> QED BY <1>2, <1>5, <2>2 DEF Settles, Ours
<1> QED BY <1>1, <1>2, <1>6, SingleMoves

LEMMA SettlesRefresh ==
  ASSUME TypeOK, Single, NEW p \in Run, NEW t \in Ticket, Refresh(p, t) PROVE FullRunsSettle'
<1> DEFINE n == run[p]
           m == run'[p]
<1>1. n \in RunState /\ n.phase = "refresh" /\ n.cur = {t}
  BY DEF Refresh, TypeOK
<1>2. (\A q \in Run \ {p} : run'[q] = run[q]) /\ UNCHANGED snow
  BY DEF Refresh, TypeOK
<1>3. /\ m.phase = "judge" /\ m.cur = {t} /\ m.rows = n.rows /\ m.todo = n.todo
      /\ m.excused = n.excused
  BY <1>1 DEF Refresh, TypeOK, RunState
<1>4. row'[t].active /\ \A u \in Ticket \ {t} : row'[u] = row[u]
  BY StoredIsActive DEF Refresh
<1>5. ASSUME p \in FullRuns, NEW u \in Ticket, u \notin m.excused PROVE Settles(run[p], u)'
  <2>1. Settles(n, u)
    BY <1>3, <1>5 DEF Single, FullRunsSettle
  <2>2. /\ Ours(u) => row[u].active
        /\ row[u].active => Ours(u) \/ u \in n.todo \cup n.cur
        /\ u \in n.cur => n.rows[u] = snow[u]
    BY <1>1, <2>1 DEF Settles
  <2>3. (Ours(u) => row'[u].active) /\ (row'[u].active => Ours(u) \/ u \in m.todo \cup m.cur)
    BY <1>1, <1>3, <1>4, <2>2
  <2> QED BY <1>1, <1>2, <1>3, <2>2, <2>3 DEF Settles, Ours
<1> QED BY <1>1, <1>2, <1>5, SingleMoves

\* The row is retired exactly when the incident has left.
LEMMA SettlesJudge ==
  ASSUME TypeOK, Single, NEW p \in Run, Judge(p) PROVE FullRunsSettle'
<1> DEFINE n == run[p]
           m == run'[p]
<1>1. n \in RunState /\ n.phase = "judge"
  BY DEF Judge, TypeOK
<1>2. (\A q \in Run \ {p} : run'[q] = run[q]) /\ UNCHANGED snow
  BY DEF Judge, TypeOK
<1>3. m.phase = "reconcile" /\ m.todo = n.todo /\ m.excused = n.excused
  BY <1>1 DEF Judge, TypeOK, RunState
<1>4. \A u \in Ticket : row'[u].active =
          IF u \in n.cur /\ Departed(n.rows[u]) THEN FALSE ELSE row[u].active
  BY DEF Judge, TypeOK
<1>5. ASSUME p \in FullRuns, NEW u \in Ticket, u \notin m.excused PROVE Settles(run[p], u)'
  <2>1. Settles(n, u)
    BY <1>3, <1>5 DEF Single, FullRunsSettle
  <2>2. /\ Ours(u) => row[u].active
        /\ row[u].active => Ours(u) \/ u \in n.todo \cup n.cur
        /\ u \in n.cur => n.rows[u] = snow[u]
    BY <1>1, <2>1 DEF Settles
  <2>3. u \in n.cur => (Departed(n.rows[u]) <=> ~Ours(u))
    BY <2>2 DEF Departed, Ours
  <2>4. (Ours(u) => row'[u].active) /\ (row'[u].active => Ours(u) \/ u \in m.todo)
    BY <1>3, <1>4, <2>2, <2>3
  <2> QED BY <1>2, <1>3, <2>4 DEF Settles, Ours
<1> QED BY <1>1, <1>2, <1>5, SingleMoves

\* A run that ends, or is about to, has nothing to answer for.
LEMMA SettlesEnd ==
  ASSUME TypeOK, Single, NEW p \in Run, Finish(p) \/ Restore(p) \/ Fail(p) PROVE FullRunsSettle'
<1>1. run'[p].phase \in {"idle", "failing"} /\ run[p].phase # "idle"
  <2>1. CASE Finish(p)
    BY <2>1 DEF Finish, TypeOK, Idle
  <2>2. CASE Restore(p)
    BY <2>2 DEF Restore, TypeOK, Idle
  <2>3. CASE Fail(p)
    BY <2>3 DEF Fail, TypeOK, Idle
  <2> QED BY <2>1, <2>2, <2>3
<1>2. \A q \in Run \ {p} : run'[q] = run[q]
  BY DEF Finish, Restore, Fail, TypeOK
<1>3. \A t \in Ticket : Settles(run[p], t)'
  BY <1>1 DEF Settles
<1> QED BY <1>1, <1>2, <1>3, SingleMoves

\* A ticket that is updated while a full run is under way is excused.
LEMMA SettlesUpdate ==
  ASSUME TypeOK, Single, NEW t \in Ticket, NEW place \in Places, Update(t, place)
  PROVE  FullRunsSettle'
<1>1. /\ \A u \in Ticket \ {t} : snow'[u] = snow[u]
      /\ run' = [p \in Run |-> Excuse(p, {t})] /\ row' = row
  BY DEF Update, TypeOK
<1>2. ASSUME NEW p \in FullRuns, NEW u \in Ticket, u \notin run'[p].excused
      PROVE  Settles(run[p], u)'
  <2> DEFINE n == run[p]
             m == run'[p]
  <2>1. n \in RunState /\ m = Excuse(p, {t})
    BY <1>1, RunAssumption DEF TypeOK
  <2>2. CASE n.phase = "idle"
    <3>1. m.phase = "idle"
      BY <2>1, <2>2 DEF Excuse
    <3> QED BY <3>1 DEF Settles
  <2>3. CASE n.phase # "idle"
    <3>1. m.excused = n.excused \cup {t} /\ m.cur = n.cur
      BY <2>1, <2>3 DEF Excuse, RunState
    <3>2. /\ m.phase = n.phase /\ m.started = n.started /\ m.since = n.since
          /\ m.rows = n.rows /\ m.todo = n.todo
      BY <2>1, RunAssumption, ExcuseEffect
    <3>3. u # t /\ Settles(n, u)
      BY <1>2, <3>1 DEF Single, FullRunsSettle
    <3>4. snow'[u] = snow[u]
      BY <1>1, <3>3
    <3> QED BY <1>1, <3>1, <3>2, <3>3, <3>4 DEF Settles, Ours
  <2> QED BY <2>2, <2>3
<1> QED BY <1>2 DEF FullRunsSettle

LEMMA SinglePreserved ==
  ASSUME ~Overlapping, ~WebhookOn, TypeOK, Versions, InTurn, InTurn', Single, [Next]_vars
  PROVE  Single'
<1>1. Alone'
  BY DEF InTurn
<1>2. ASSUME NEW p \in Run, RunStep(p) PROVE FullRunsSettle'
  BY <1>2, SettlesStart, SettlesFetch, SettlesPersist, SettlesReread, SettlesRefresh,
     SettlesReconcile, SettlesJudge, SettlesEnd DEF RunStep
<1>3. ASSUME Tick \/ UNCHANGED vars PROVE FullRunsSettle'
  <2>1. run' = run /\ snow' = snow /\ row' = row
    BY <1>3 DEF Tick, vars
  <2>2. ASSUME NEW p \in FullRuns, NEW t \in Ticket, t \notin run'[p].excused
        PROVE  Settles(run[p], t)'
    <3>1. Settles(run[p], t)
      BY <2>1, <2>2 DEF Single, FullRunsSettle
    <3> QED BY <2>1, <3>1 DEF Settles, Ours
  <2> QED BY <2>2 DEF FullRunsSettle
<1>4. ASSUME NEW t \in Ticket, HookStep(t) PROVE FullRunsSettle'
  BY <1>4 DEF HookStep, HookRead, HookStore, Single, Alone
<1>5. ASSUME Restart PROVE FullRunsSettle'
  <2>1. \A p \in FullRuns : run'[p].phase = "idle"
    BY <1>5, RunAssumption DEF Restart, Idle
  <2>2. \A p \in FullRuns, t \in Ticket : Settles(run[p], t)'
    BY <2>1 DEF Settles
  <2> QED BY <2>2 DEF FullRunsSettle
<1>6. ASSUME NEW p \in Run, NEW t \in Ticket, Unreadable(p, t) PROVE FullRunsSettle'
  BY <1>6, SettlesUnreadable
<1>7. ASSUME NEW p \in Run, Fail(p) PROVE FullRunsSettle'
  BY <1>7, SettlesEnd
<1>8. FullRunsSettle'
  BY <1>2, <1>3, <1>4, <1>5, <1>6, <1>7, SettlesUpdate DEF Next
<1> QED BY <1>1, <1>8 DEF Single

\* In turn, a full run leaves on the board exactly what is in scope, but for the tickets that
\* changed while it ran, could not be read or were beyond the ceiling ("hourly bounds that to
\* the hour", scheduler/jobs.py): for any incidents, jobs, ceiling and number of errors.
THEOREM FullSyncsSettle ==
  ASSUME ~Overlapping, ~WebhookOn
  PROVE  Spec => FullSyncSettles
<1>1. Init => Single
  <2>1. \A p \in Run : Init => run[p].phase = "idle"
    BY DEF Init, Idle
  <2>2. Init => Alone
    BY <2>1 DEF Init, Alone
  <2>3. Init => FullRunsSettle
    BY <2>1, RunAssumption DEF FullRunsSettle, Settles
  <2> QED BY <2>2, <2>3 DEF Single
<1>2. IInv /\ InTurn /\ InTurn' /\ Single /\ [Next]_vars => Single'
  BY SinglePreserved DEF IInv
<1>3. Single => [\A p \in FullRuns : Finish(p) =>
                    \A t \in Ticket \ run[p].excused : row[t].active <=> Ours(t)]_vars
  <2> SUFFICES ASSUME Single, NEW p \in FullRuns, Finish(p), NEW t \in Ticket \ run[p].excused
               PROVE  row[t].active <=> Ours(t)
    OBVIOUS
  <2>1. Settles(run[p], t) /\ run[p].phase = "reconcile" /\ run[p].todo = {}
    BY DEF Single, FullRunsSettle, Finish
  <2> QED BY <2>1 DEF Settles
<1> QED BY <1>1, <1>2, <1>3, RunsInTurn, SyncStrengthening, PTL DEF Spec, FullSyncSettles
=============================================================================
