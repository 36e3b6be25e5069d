--------------------------- MODULE AdvisingProofs ---------------------------
(***************************************************************************)
(* What holds of an incident's recommendation, of the index its evidence    *)
(* comes from and of the verdicts on it, for any jobs, any processes, any   *)
(* texts and any answers of the model.                                      *)
(*                                                                          *)
(* Each part has an invariant of its own, kept by its steps and, since the  *)
(* parts share no variable, by the steps of the others (OnePartAdvises).    *)
(*   - IInv: superseding and storing are two transactions, so               *)
(*     OneAnalysisLive alone is not inductive: nothing would keep a second  *)
(*     row from becoming live between them.  NothingLiveWhileStoring says   *)
(*     nothing does, and OneWay is why a rule-based row is not written      *)
(*     there either.                                                        *)
(*   - EvidenceInv: a copy is the store unless the process that holds it is *)
(*     between the first row it writes and dropping its copy, which the     *)
(*     vectors and texts that still wait (BuildHolds) tell.                 *)
(*   - VerdictInv: what an open page shows is in force until something      *)
(*     newer is analysed, and an answer is booked only when its articles    *)
(*     are recorded.                                                        *)
(*   - CallsInv: the redactor of a call has met every word that is hidden   *)
(*     in its prompt, and no others than the ticket's own.                  *)
(***************************************************************************)
EXTENDS Advising, SetInduction, FunctionTheorems, SequenceTheorems

LEMMA OnePartAdvises ==
  ASSUME [AllNext]_allVars
  PROVE  /\ [Next]_vars /\ [Index!Next]_indexVars /\ [Verdict!Next]_verdictVars
         /\ [Model!Next]_modelVars
BY DEF AllNext, allVars, AboutShown, AboutIndex, AboutModel, AboutVerdicts

-----------------------------------------------------------------------------
(* The recommendation of one incident: what supersedes what.                 *)


\* The two properties that speak of the rows in force.
InForce == NothingLiveWhileStoring /\ OneAnalysisLive

-----------------------------------------------------------------------------
(* Types of the parts, and what the shared pieces of the actions do.        *)

LEMMA PartTypes == Blank \in Row /\ Idle \in PassState /\ Idle.phase = "idle" /\ ~Blank.live
BY BoundAssumption DEF Blank, Row, Day, Idle, PassState, Phase

LEMMA FieldTypes ==
  ASSUME TypeOK, NEW p \in Pass
  PROVE  /\ pass[p] \in PassState /\ pass[p].phase \in Phase
         /\ pass[p].ticket \in Fact \cup {Unread} /\ pass[p].signals \in Fact \cup {Unread}
BY DEF TypeOK, PassState

\* A pass takes a step of its own and leaves the others alone.
LEMMA ToEffect ==
  ASSUME TypeOK, NEW p \in Pass, NEW x \in Phase, To(p, x)
  PROVE  /\ pass' \in [Pass -> PassState]
         /\ pass'[p].phase = x
         /\ pass'[p].ticket = pass[p].ticket /\ pass'[p].signals = pass[p].signals
         /\ \A q \in Pass \ {p} : pass'[q] = pass[q]
BY DEF TypeOK, To, PassState

LEMMA DoneEffect ==
  ASSUME TypeOK, NEW p \in Pass, Done(p)
  PROVE  /\ pass' \in [Pass -> PassState]
         /\ pass'[p] = Idle
         /\ \A q \in Pass \ {p} : pass'[q] = pass[q]
BY PartTypes DEF TypeOK, Done

LEMMA SupersededEffect ==
  ASSUME NEW K, NEW rows \in [K -> Row]
  PROVE  /\ Superseded(rows) \in [K -> Row]
         /\ \A k \in K : ~Superseded(rows)[k].live
BY DEF Superseded, Row

\* prune deletes rows and puts none in force.
LEMMA KeptEffect ==
  ASSUME NEW K, NEW rows \in [K -> Row]
  PROVE  /\ Kept(rows) \in [K -> Row]
         /\ \A k \in K : Kept(rows)[k].live => rows[k].live /\ Kept(rows)[k] = rows[k]
BY PartTypes DEF Kept, Row

-----------------------------------------------------------------------------
(* Steps that put no row in force and bring no pass nearer to storing.      *)

LEMMA InForceKept ==
  ASSUME TypeOK, InForce, crowded' = crowded,
         \A q \in Pass : Storing(q)' => Storing(q),
         \A h \in Hash : analysis'[h].live => analysis[h].live,
         \A d \in Day : fallback'[d].live => fallback[d].live
  PROVE  InForce'
BY DEF InForce, NothingLiveWhileStoring, OneAnalysisLive, Storing

\* ... of one pass.
LEMMA PassMoves ==
  ASSUME IInv, NEW p \in Pass, pass'[p].phase # "storing",
         \A q \in Pass \ {p} : pass'[q] = pass[q],
         UNCHANGED <<analysis, fallback, crowded>>
  PROVE  InForce'
<1>1. TypeOK /\ InForce
  BY DEF IInv, InForce
<1>2. \A q \in Pass : Storing(q)' => Storing(q)
  BY DEF Storing
<1> QED BY <1>1, <1>2, InForceKept

\* The parts of the invariant, for a step of one pass.
LEMMA OneWayKept ==
  ASSUME OneWay, llm' = llm, NEW p \in Pass,
         \A q \in Pass \ {p} : pass'[q] = pass[q],
         /\ pass'[p].phase = "falling" => ~llm
         /\ pass'[p].phase \in {"begun", "loaded", "asking", "storing"} =>
               llm /\ pass'[p].ticket \in Fact
         /\ pass'[p].phase \in {"loaded", "asking", "storing"} => pass'[p].signals \in Fact
  PROVE  OneWay'
<1>1. ASSUME NEW q \in Pass
      PROVE  /\ pass'[q].phase = "falling" => ~llm'
             /\ pass'[q].phase \in {"begun", "loaded", "asking", "storing"} =>
                   llm' /\ pass'[q].ticket \in Fact
             /\ pass'[q].phase \in {"loaded", "asking", "storing"} => pass'[q].signals \in Fact
  <2>1. CASE q = p
    BY <2>1
  <2>2. CASE q # p
    BY <2>2 DEF OneWay
  <2> QED BY <2>1, <2>2
<1> QED BY <1>1 DEF OneWay

LEMMA Parts == IInv <=> TypeOK /\ OneWay /\ InForce
BY DEF IInv, InForce

-----------------------------------------------------------------------------
(* The actions.                                                             *)

LEMMA BeginInv == ASSUME IInv, NEW p \in Pass, Begin(p) PROVE IInv'
<1> DEFINE n == IF llm THEN [Idle EXCEPT !.phase = "begun", !.ticket = ticket]
                       ELSE [Idle EXCEPT !.phase = "falling"]
<1>1. TypeOK /\ OneWay
  BY DEF IInv
<1>2. /\ n \in PassState
      /\ IF llm THEN n.phase = "begun" /\ n.ticket = ticket ELSE n.phase = "falling"
  BY <1>1 DEF TypeOK, Idle, PassState, Phase
<1>3. pass' = [pass EXCEPT ![p] = n]
  BY DEF Begin
<1> HIDE DEF n
<1>4. /\ pass' \in [Pass -> PassState] /\ pass'[p] = n
      /\ \A q \in Pass \ {p} : pass'[q] = pass[q]
  BY <1>1, <1>2, <1>3 DEF TypeOK
<1>5. events' \in 0..MaxEvents
  BY <1>1, BoundAssumption DEF Begin, Event, TypeOK
<1>6. TypeOK'
  BY <1>1, <1>4, <1>5 DEF Begin, TypeOK
<1>7. OneWay'
  BY <1>1, <1>2, <1>4, OneWayKept DEF Begin, TypeOK
<1>8. InForce'
  BY <1>2, <1>4, PassMoves DEF Begin
<1> QED BY <1>6, <1>7, <1>8 DEF IInv, InForce

LEMMA LoadInv == ASSUME IInv, NEW p \in Pass, Load(p) PROVE IInv'
<1>1. TypeOK /\ OneWay
  BY DEF IInv
<1>2. /\ pass' \in [Pass -> PassState]
      /\ pass'[p].phase = "loaded" /\ pass'[p].ticket = pass[p].ticket
      /\ pass'[p].signals = signals
      /\ \A q \in Pass \ {p} : pass'[q] = pass[q]
  BY <1>1 DEF Load, TypeOK, PassState, Phase
<1>3. TypeOK'
  BY <1>1, <1>2 DEF Load, TypeOK
<1>4. OneWay'
  <2>1. llm /\ pass[p].ticket \in Fact /\ signals \in Fact
    BY <1>1 DEF Load, OneWay, TypeOK
  <2> QED BY <1>1, <1>2, <2>1, OneWayKept DEF Load
<1>5. InForce'
  BY <1>2, PassMoves DEF Load
<1> QED BY <1>3, <1>4, <1>5 DEF IInv, InForce

\* A pass that ends without writing: the cache answered, or the ticket failed.
LEMMA DoneInv ==
  ASSUME IInv, NEW p \in Pass, Done(p), events' \in 0..MaxEvents,
         UNCHANGED <<ticket, signals, analysis, fallback, nextId, llm, day, crowded>>
  PROVE  IInv'
<1>1. TypeOK /\ OneWay
  BY DEF IInv
<1>2. /\ pass' \in [Pass -> PassState] /\ pass'[p].phase = "idle"
      /\ \A q \in Pass \ {p} : pass'[q] = pass[q]
  BY <1>1, DoneEffect, PartTypes
<1>3. TypeOK'
  BY <1>1, <1>2 DEF TypeOK
<1>4. OneWay'
  BY <1>1, <1>2, OneWayKept
<1>5. InForce'
  BY <1>2, PassMoves
<1> QED BY <1>3, <1>4, <1>5 DEF IInv, InForce

LEMMA AskInv == ASSUME IInv, NEW p \in Pass, Ask(p) PROVE IInv'
<1>1. TypeOK /\ OneWay
  BY DEF IInv
<1>2. /\ pass' \in [Pass -> PassState] /\ pass'[p].phase = "asking"
      /\ pass'[p].ticket = pass[p].ticket /\ pass'[p].signals = pass[p].signals
      /\ \A q \in Pass \ {p} : pass'[q] = pass[q]
  BY <1>1, ToEffect DEF Ask, Phase
<1>3. TypeOK'
  BY <1>1, <1>2 DEF Ask, TypeOK
<1>4. OneWay'
  <2>1. llm /\ pass[p].ticket \in Fact /\ pass[p].signals \in Fact
    BY <1>1 DEF Ask, OneWay
  <2> QED BY <1>1, <1>2, <2>1, OneWayKept DEF Ask
<1>5. InForce'
  BY <1>2, PassMoves DEF Ask
<1> QED BY <1>3, <1>4, <1>5 DEF IInv, InForce

\* Nothing is in force after it; `crowded` says whether another pass is storing too.
LEMMA SupersedeInv == ASSUME IInv, NEW p \in Pass, Supersede(p) PROVE IInv'
<1>1. TypeOK /\ OneWay
  BY DEF IInv
<1>2. /\ pass' \in [Pass -> PassState] /\ pass'[p].phase = "storing"
      /\ pass'[p].ticket = pass[p].ticket /\ pass'[p].signals = pass[p].signals
      /\ \A q \in Pass \ {p} : pass'[q] = pass[q]
  BY <1>1, ToEffect DEF Supersede, Phase
<1>3. /\ analysis' \in [Hash -> Row] /\ \A h \in Hash : ~analysis'[h].live
      /\ fallback' \in [Day -> Row] /\ \A d \in Day : ~fallback'[d].live
  BY <1>1, SupersededEffect DEF Supersede, TypeOK
<1>4. TypeOK'
  BY <1>1, <1>2, <1>3 DEF Supersede, TypeOK
<1>5. OneWay'
  <2>1. llm /\ pass[p].ticket \in Fact /\ pass[p].signals \in Fact
    BY <1>1 DEF Supersede, OneWay
  <2> QED BY <1>1, <1>2, <2>1, OneWayKept DEF Supersede
<1>6. OneAnalysisLive'
  BY <1>3 DEF OneAnalysisLive
<1>7. NothingLiveWhileStoring'
  <2>1. ASSUME ~crowded', NEW q \in Pass, pass'[q].phase = "storing" PROVE q = p
    BY <1>2, <2>1 DEF Supersede
  <2> QED BY <1>3, <2>1 DEF NothingLiveWhileStoring, Storing
<1> QED BY <1>4, <1>5, <1>6, <1>7 DEF IInv

\* What an upsert of an analysis leaves in force.
LEMMA StoreEffect ==
  ASSUME IInv, NEW p \in Pass, Store(p)
  PROVE  /\ InputHash(p) \in Hash
         /\ analysis' \in [Hash -> Row] /\ nextId' \in Nat \ {0}
         /\ analysis'[InputHash(p)].live
         /\ ~crowded => /\ \A g \in Hash : analysis'[g].live => g = InputHash(p)
                        /\ \A d \in Day : ~fallback'[d].live
                        /\ \A q \in Pass : Storing(q) => q = p
<1> DEFINE h == InputHash(p)
<1>1. TypeOK /\ OneWay /\ NothingLiveWhileStoring
  BY DEF IInv
<1>2. h \in Hash
  BY <1>1 DEF Store, OneWay, InputHash, Hash
<1>3. /\ analysis' \in [Hash -> Row] /\ nextId' \in Nat \ {0}
      /\ analysis'[h].live
      /\ \A g \in Hash \ {h} : analysis'[g] = analysis[g]
  <2> DEFINE r == [id |-> IF analysis[h].id = 0 THEN nextId ELSE analysis[h].id,
                   live |-> TRUE, day |-> day]
  <2>1. analysis \in [Hash -> Row] /\ nextId \in Nat \ {0} /\ day \in Day
    BY <1>1 DEF TypeOK
  <2>2. r \in Row /\ r.live
    BY <1>2, <2>1 DEF Row
  <2>3. /\ analysis' = [analysis EXCEPT ![h] = r]
        /\ nextId' = IF analysis[h].id = 0 THEN nextId + 1 ELSE nextId
    BY <2>1 DEF Store, Upsert
  <2> HIDE DEF r, h
  <2> QED BY <1>2, <2>1, <2>2, <2>3
<1>4. ~crowded => /\ \A g \in Hash : ~analysis[g].live
                  /\ \A d \in Day : ~fallback'[d].live
                  /\ \A q \in Pass : Storing(q) => q = p
  BY <1>1 DEF Store, NothingLiveWhileStoring, Storing
<1> QED BY <1>2, <1>3, <1>4

LEMMA StoreInv == ASSUME IInv, NEW p \in Pass, Store(p) PROVE IInv'
<1>1. TypeOK /\ OneWay
  BY DEF IInv
<1>2. /\ pass' \in [Pass -> PassState] /\ pass'[p].phase = "idle"
      /\ \A q \in Pass \ {p} : pass'[q] = pass[q]
  BY <1>1, DoneEffect, PartTypes DEF Store
<1>3. /\ analysis' \in [Hash -> Row] /\ nextId' \in Nat \ {0}
      /\ ~crowded => /\ \A g \in Hash : analysis'[g].live => g = InputHash(p)
                     /\ \A q \in Pass : Storing(q) => q = p
  BY StoreEffect
<1>4. UNCHANGED <<ticket, signals, fallback, llm, day, events, crowded>>
  BY DEF Store
<1>5. TypeOK'
  BY <1>1, <1>2, <1>3, <1>4 DEF TypeOK
<1>6. OneWay'
  BY <1>1, <1>2, <1>4, OneWayKept
<1>7. OneAnalysisLive'
  BY <1>3, <1>4 DEF OneAnalysisLive
<1>8. NothingLiveWhileStoring'
  BY <1>2, <1>3, <1>4 DEF NothingLiveWhileStoring, Storing
<1> QED BY <1>5, <1>6, <1>7, <1>8 DEF IInv

\* Written only where there is no model, so where no pass is storing.
LEMMA FallbackInv == ASSUME IInv, NEW p \in Pass, Fallback(p) PROVE IInv'
<1>1. TypeOK /\ OneWay /\ OneAnalysisLive
  BY DEF IInv
<1>2. /\ pass' \in [Pass -> PassState] /\ pass'[p].phase = "idle"
      /\ \A q \in Pass \ {p} : pass'[q] = pass[q]
  BY <1>1, DoneEffect, PartTypes DEF Fallback
<1>3. fallback' \in [Day -> Row] /\ nextId' \in Nat \ {0}
  <2> DEFINE r == [id |-> IF fallback[day].id = 0 THEN nextId ELSE fallback[day].id,
                   live |-> TRUE, day |-> day]
  <2>1. fallback \in [Day -> Row] /\ nextId \in Nat \ {0} /\ day \in Day
    BY <1>1 DEF TypeOK
  <2>2. r \in Row
    BY <2>1 DEF Row
  <2>3. /\ fallback' = [fallback EXCEPT ![day] = r]
        /\ nextId' = IF fallback[day].id = 0 THEN nextId + 1 ELSE nextId
    BY <2>1 DEF Fallback, Upsert
  <2> HIDE DEF r
  <2> QED BY <2>1, <2>2, <2>3
<1>4. UNCHANGED <<ticket, signals, analysis, llm, day, events, crowded>>
  BY DEF Fallback
<1>5. TypeOK'
  BY <1>1, <1>2, <1>3, <1>4 DEF TypeOK
<1>6. OneWay'
  BY <1>1, <1>2, <1>4, OneWayKept
<1>7. OneAnalysisLive'
  BY <1>1, <1>4 DEF OneAnalysisLive
<1>8. NothingLiveWhileStoring'
  <2>1. ~llm
    BY <1>1 DEF Fallback, OneWay
  <2>2. \A q \in Pass : ~Storing(q)'
    BY <1>1, <1>2, <2>1 DEF OneWay, Storing
  <2> QED BY <2>2 DEF NothingLiveWhileStoring
<1> QED BY <1>5, <1>6, <1>7, <1>8 DEF IInv

LEMMA RestartInv == ASSUME IInv, Restart PROVE IInv'
<1>1. TypeOK /\ InForce
  BY DEF IInv, InForce
<1>2. pass' \in [Pass -> PassState] /\ \A q \in Pass : pass'[q].phase = "idle"
  BY PartTypes DEF Restart
<1>3. events' \in 0..MaxEvents
  BY <1>1, BoundAssumption DEF Restart, Event, TypeOK
<1>4. TypeOK'
  BY <1>1, <1>2, <1>3 DEF Restart, TypeOK
<1>5. OneWay'
  BY <1>2 DEF OneWay
<1>6. InForce'
  BY <1>1, <1>2, InForceKept DEF Restart, Storing
<1> QED BY <1>4, <1>5, <1>6 DEF IInv, InForce

LEMMA PruneInv == ASSUME IInv, Prune PROVE IInv'
<1>1. TypeOK /\ OneWay /\ InForce
  BY DEF IInv, InForce
<1>2. /\ analysis' \in [Hash -> Row] /\ fallback' \in [Day -> Row]
      /\ \A h \in Hash : analysis'[h].live => analysis[h].live
      /\ \A d \in Day : fallback'[d].live => fallback[d].live
  BY <1>1, KeptEffect DEF Prune, TypeOK
<1>3. TypeOK'
  BY <1>1, <1>2 DEF Prune, TypeOK
<1>4. OneWay'
  BY <1>1 DEF Prune, OneWay
<1>5. InForce'
  BY <1>1, <1>2, InForceKept DEF Prune, Storing
<1> QED BY <1>3, <1>4, <1>5 DEF IInv, InForce

\* What changes around the passes touches neither them nor the rows.
LEMMA AroundInv ==
  ASSUME IInv, TypeOK', UNCHANGED <<analysis, fallback, pass, llm, crowded>>
  PROVE  IInv'
<1>1. TypeOK /\ OneWay /\ InForce
  BY DEF IInv, InForce
<1>2. OneWay'
  BY <1>1 DEF OneWay
<1>3. InForce'
  BY <1>1, InForceKept DEF Storing
<1> QED BY <1>2, <1>3 DEF IInv, InForce

-----------------------------------------------------------------------------
(* The theorems.                                                            *)

LEMMA InitIInv == Init => IInv
<1> SUFFICES ASSUME Init PROVE IInv
  OBVIOUS
<1>1. TypeOK
  <2>1. 0 \in Day /\ 0 \in 0..MaxEvents
    BY BoundAssumption DEF Day
  <2>2. /\ [h \in Hash |-> Blank] \in [Hash -> Row] /\ [d \in Day |-> Blank] \in [Day -> Row]
        /\ [q \in Pass |-> Idle] \in [Pass -> PassState]
    BY PartTypes
  <2>3. analysis \in [Hash -> Row] /\ fallback \in [Day -> Row] /\ pass \in [Pass -> PassState]
    BY <2>2, Zenon DEF Init
  <2>4. nextId \in Nat \ {0} /\ day \in Day /\ events \in 0..MaxEvents
    BY <2>1 DEF Init
  <2>5. ticket \in Fact /\ signals \in Fact /\ llm \in BOOLEAN /\ crowded \in BOOLEAN
    BY DEF Init
  <2> QED BY <2>3, <2>4, <2>5 DEF TypeOK
<1>2. OneWay /\ NothingLiveWhileStoring
  BY PartTypes DEF Init, OneWay, NothingLiveWhileStoring, Storing
<1>3. OneAnalysisLive
  BY PartTypes DEF Init, OneAnalysisLive
<1> QED BY <1>1, <1>2, <1>3 DEF IInv

LEMMA NextIInv == IInv /\ [Next]_vars => IInv'
<1> SUFFICES ASSUME IInv, [Next]_vars PROVE IInv'
  OBVIOUS
<1>1. TypeOK
  BY DEF IInv
<1>2. ASSUME Event PROVE events' \in 0..MaxEvents
  BY <1>1, <1>2, BoundAssumption DEF Event, TypeOK
<1>3. ASSUME NEW p \in Pass, Begin(p) PROVE IInv'
  BY <1>3, BeginInv
<1>4. ASSUME NEW p \in Pass, Continue(p) PROVE IInv'
  <2>1. CASE Load(p)
    BY <2>1, LoadInv
  <2>2. CASE Reuse(p)
    BY <1>1, <2>2, DoneInv DEF Reuse, TypeOK
  <2>3. CASE Ask(p)
    BY <2>3, AskInv
  <2>4. CASE Supersede(p)
    BY <2>4, SupersedeInv
  <2>5. CASE Store(p)
    BY <2>5, StoreInv
  <2>6. CASE Fallback(p)
    BY <2>6, FallbackInv
  <2> QED BY <1>4, <2>1, <2>2, <2>3, <2>4, <2>5, <2>6 DEF Continue
<1>5. ASSUME NEW p \in Pass, Fail(p) PROVE IInv'
  BY <1>2, <1>5, DoneInv DEF Fail
<1>6. CASE TicketChanges
  <2>1. TypeOK'
    BY <1>1, <1>2, <1>6 DEF TicketChanges, TypeOK
  <2> QED BY <1>6, <2>1, AroundInv DEF TicketChanges
<1>7. CASE SignalsChange
  <2>1. TypeOK'
    BY <1>1, <1>2, <1>7 DEF SignalsChange, TypeOK
  <2> QED BY <1>7, <2>1, AroundInv DEF SignalsChange
<1>8. CASE NextDay
  <2>1. day' \in Day
    BY <1>1, <1>8, BoundAssumption DEF NextDay, TypeOK, Day
  <2>2. TypeOK'
    BY <1>1, <1>8, <2>1 DEF NextDay, TypeOK
  <2> QED BY <1>8, <2>2, AroundInv DEF NextDay
<1>9. CASE Restart
  BY <1>9, RestartInv
<1>10. CASE Prune
  BY <1>10, PruneInv
<1>11. CASE UNCHANGED vars
  <2>1. TypeOK'
    BY <1>1, <1>11 DEF vars, TypeOK
  <2> QED BY <1>11, <2>1, AroundInv DEF vars
<1> QED BY <1>3, <1>4, <1>5, <1>6, <1>7, <1>8, <1>9, <1>10, <1>11 DEF Next

\* The step behind the next theorem.
LEMMA StoreShows ==
  ASSUME IInv, IInv', NEW p \in Pass, NEW h \in Hash, Store(p), ~crowded, h = InputHash(p)
  PROVE  Shown(analysis[h])'
<1>1. /\ analysis' \in [Hash -> Row] /\ analysis'[h].live
      /\ \A g \in Hash : analysis'[g].live => g = h
      /\ \A d \in Day : ~fallback'[d].live
  BY StoreEffect
<1>2. analysis'[h].id \in Nat
  BY <1>1 DEF Row
<1> QED BY <1>1, <1>2 DEF Shown



-----------------------------------------------------------------------------
(* The index: builds, copies, and what is found in them.                     *)

Record == [key : Index!Item, text : Text, noted : BOOLEAN]
RowRecord == [key : Index!Item, vector : Text]

BuildState ==
    [at : {"rest"}] \cup [at : {"compare"}, kind : Index!Kind, records : SUBSET Record]
    \cup [at : {"embed", "invalidate"}, kind : Index!Kind, records : SUBSET Record,
          pending : Seq(Record), vectors : Seq(Text)]

EvidenceTypeOK ==
    /\ snow \in [Index!Item -> [text : Text, closed : BOOLEAN, noted : BOOLEAN]]
    /\ store \in [Index!Item -> {Index!NoRow} \cup [there : {TRUE}, hash : Text, vector : Text]]
    /\ memory \in [Adviser -> [Index!Kind -> SUBSET RowRecord]]
    /\ building \in [Process -> BuildState]
    /\ outdated \in [Adviser -> [Index!Kind -> BOOLEAN]] /\ overtaken \in [Process -> BOOLEAN]

Written(r) == store[r.key].there /\ store[r.key].hash = r.text

\* The vectors are of the texts that wait, one for one, and what a build has fetched is
\* written or waits, unless another wrote meanwhile.
BuildHolds(p) ==
    LET j == building[p]
    IN  /\ j.at # "rest" =>
              /\ \A r \in j.records : r.key \in Index!OfKind(j.kind)
              /\ \A r, q \in j.records : r.key = q.key => r = q
        /\ j.at \in {"embed", "invalidate"} =>
              /\ Len(j.vectors) <= Len(j.pending)
              /\ \A n \in 1..Len(j.pending) : j.pending[n] \in j.records
              /\ \A n \in 1..Len(j.vectors) : j.vectors[n] = j.pending[n].text
              /\ ~overtaken[p] =>
                    \A r \in j.records :
                        r.noted => Written(r) \/ \E n \in 1..Len(j.pending) : j.pending[n] = r
        /\ j.at = "invalidate" => j.pending = <<>>

\* Between the first row a build writes and the end of its kind the copy is of before.
Writing(p, kind) ==
    /\ building[p].at \in {"embed", "invalidate"} /\ building[p].kind = kind
    /\ building[p].at = "invalidate" \/ (Index!Embedded(p) /\ building[p].pending # <<>>)

CopyHolds(p, kind) ==
    /\ memory[p][kind] # {} /\ ~outdated[p][kind] /\ ~Writing(p, kind)
    => memory[p][kind] = Index!RowsOf(kind)

\* A row of a copy is known by its key.
RowsKeyed(rows) == IsFiniteSet(rows) /\ \A r, o \in rows : r.key = o.key => r = o

EvidenceInv ==
    /\ EvidenceTypeOK /\ Index!VectorsBelong
    /\ \A p \in Process : BuildHolds(p)
    /\ \A p \in Adviser, kind \in Index!Kind : CopyHolds(p, kind) /\ RowsKeyed(memory[p][kind])

-----------------------------------------------------------------------------
(* Sets as sequences.                                                        *)

LEMMA CountOfIndex == ASSUME NEW S PROVE Index!Cardinality(S) = Cardinality(S)
BY DEF Index!Cardinality, Cardinality

LEMMA AllListed ==
  ASSUME NEW S, IsFiniteSet(S), NEW f \in [1..Cardinality(S) -> S],
         \A m, n \in 1..Cardinality(S) : f[m] = f[n] => m = n
  PROVE  \A x \in S : \E n \in 1..Cardinality(S) : f[n] = x
<1>1. Cardinality(S) \in Nat
  BY FS_CardinalityType
<1>2. Cardinality(1..Cardinality(S)) = Cardinality(S)
  BY <1>1, FS_Interval
<1>3. f \in Injection(1..Cardinality(S), S)
  BY Fun_IsInj
<1>4. f \in Surjection(1..Cardinality(S), S)
  BY <1>2, <1>3, FS_Injection
<1> QED BY <1>4 DEF Surjection

LEMMA SetAsSequence ==
  ASSUME NEW S, IsFiniteSet(S)
  PROVE  /\ Index!SetToSeq(S) \in Seq(S)
         /\ \A x \in S : \E n \in 1..Len(Index!SetToSeq(S)) : Index!SetToSeq(S)[n] = x
<1> DEFINE f == Index!SetToSeq(S)
<1>1. Cardinality(S) \in Nat
  BY FS_CardinalityType
<1>2. \E g \in [1..Cardinality(S) -> S] : IsInjective(g)
  BY FS_CardinalityType DEF ExistsBijection, Bijection, Injection
<1>3. f \in [1..Cardinality(S) -> S] /\ IsInjective(f)
  <2>1. Index!SetToSeq(S) = CHOOSE g \in [1..Cardinality(S) -> S] : IsInjective(g)
    BY CountOfIndex DEF Index!SetToSeq, Index!IsInjective, IsInjective
  <2> QED BY <1>2, <2>1
<1> HIDE DEF f
<1>4. \A x \in S : \E n \in 1..Cardinality(S) : f[n] = x
  <2>1. \A m, n \in 1..Cardinality(S) : f[m] = f[n] => m = n
    BY <1>3 DEF IsInjective
  <2> QED BY <1>3, <2>1, AllListed
<1>5. f \in Seq(S) /\ Len(f) = Cardinality(S)
  BY <1>1, <1>3
<1> QED BY <1>4, <1>5 DEF f

\* A batch comes back in any order, and is put in its own by the index.
LEMMA InOrderIsOfBatch ==
  ASSUME NEW batch \in Seq(Record), NEW response \in Index!Responses(batch)
  PROVE  /\ Index!InOrder(response) \in Seq(Text) /\ Len(Index!InOrder(response)) = Len(batch)
         /\ \A n \in 1..Len(batch) : Index!InOrder(response)[n] = batch[n].text
<1> DEFINE N == Len(batch)
           item(n) == [index |-> n, vector |-> batch[n].text]
           S == {item(n) : n \in DOMAIN batch}
           D == 1..Cardinality(S)
           f == [n \in 1..N |-> item(n)]
<1>1. N \in Nat /\ DOMAIN batch = 1..N /\ \A n \in 1..N : batch[n].text \in Text
  <2>1. \A n \in 1..N : batch[n] \in Record
    OBVIOUS
  <2> QED BY <2>1 DEF Record
<1>2. IsFiniteSet(S) /\ Cardinality(S) = N
  <2>1. f \in [1..N -> S] /\ \A m, n \in 1..N : f[m] = f[n] => m = n
    BY <1>1
  <2>2. \A x \in S : \E n \in 1..N : f[n] = x
    BY <1>1
  <2> HIDE DEF f, S, N
  <2>3. f \in Bijection(1..N, S)
    BY <2>1, <2>2 DEF Bijection, Injection, Surjection, IsInjective
  <2>4. IsFiniteSet(1..N) /\ Cardinality(1..N) = N
    BY <1>1, FS_Interval
  <2> QED BY <2>3, <2>4, FS_Bijection DEF ExistsBijection
<1>3. response \in [D -> S] /\ \A m, n \in D : response[m] = response[n] => m = n
  <2>1. response \in Index!SetToSeqs(S)
    BY DEF Index!Responses
  <2> HIDE DEF S
  <2> QED BY <2>1, CountOfIndex DEF Index!SetToSeqs
<1>4. \A x \in S : \E n \in D : response[n] = x
  <2> HIDE DEF S
  <2> QED BY <1>2, <1>3, AllListed
<1>5. Index!ToSet(response) = S
  <2>1. DOMAIN response = D
    BY <1>3
  <2> HIDE DEF S, D
  <2> QED BY <1>3, <1>4, <2>1 DEF Index!ToSet
<1>6. ASSUME NEW n \in 1..N
      PROVE  (CHOOSE x \in Index!ToSet(response) : x.index = n) = item(n)
  <2>1. item(n) \in S /\ item(n).index = n /\ \A x \in S : x.index = n => x = item(n)
    BY <1>1
  <2> HIDE DEF S, item
  <2> QED BY <1>5, <2>1
<1>7. DOMAIN response = 1..N
  BY <1>2, <1>3
<1>8. Index!InOrder(response) = [n \in 1..N |-> batch[n].text]
  <2>1. ASSUME NEW n \in 1..N
        PROVE  (CHOOSE x \in Index!ToSet(response) : x.index = n).vector = batch[n].text
    <3>1. (CHOOSE x \in Index!ToSet(response) : x.index = n).vector = item(n).vector
      BY <1>6
    <3> QED BY <3>1
  <2> HIDE DEF N
  <2> QED BY <1>7, <2>1 DEF Index!InOrder
<1> QED BY <1>1, <1>8

-----------------------------------------------------------------------------
(* The steps of a build.                                                     *)

LEMMA Kinds == Index!Kind = {"incident", "kb"} /\ \A kind \in Index!Kind : Index!OfKind(kind) \subseteq Index!Item /\ IsFiniteSet(Index!OfKind(kind))
BY EvidenceAssumption DEF Index!Kind, Index!OfKind, Index!Item

LEMMA FetchedType ==
  ASSUME EvidenceTypeOK, NEW kind \in Index!Kind
  PROVE  /\ Index!Fetched(kind) \in SUBSET Record
         /\ \A r \in Index!Fetched(kind) : r.key \in Index!OfKind(kind)
         /\ \A r, q \in Index!Fetched(kind) : r.key = q.key => r = q
BY Kinds DEF Index!Fetched, EvidenceTypeOK, Record

\* What one process does to its build leaves those of the others, unless rows change.
LEMMA BuildStays ==
  ASSUME NEW p \in Process, BuildHolds(p), building'[p] = building[p], store' = store,
         overtaken'[p] = overtaken[p]
  PROVE  BuildHolds(p)'
BY DEF BuildHolds, Written

LEMMA CopyStays ==
  ASSUME NEW p \in Adviser, NEW kind \in Index!Kind, CopyHolds(p, kind), building'[p] = building[p],
         store' = store, memory'[p][kind] = memory[p][kind], outdated'[p][kind] = outdated[p][kind]
  PROVE  CopyHolds(p, kind)'
BY DEF CopyHolds, Writing, Index!RowsOf, Index!Embedded

\* A build goes on without writing: everything else stays.
LEMMA BuildMoves ==
  ASSUME EvidenceInv, NEW p \in Process, NEW s \in BuildState, building' = [building EXCEPT ![p] = s],
         BuildHolds(p)', overtaken' \in [Process -> BOOLEAN],
         \A q \in Process \ {p} : overtaken'[q] = overtaken[q],
         UNCHANGED <<snow, store, memory, outdated>>,
         \A kind \in Index!Kind : Writing(p, kind) => Writing(p, kind)'
  PROVE  EvidenceInv'
<1>1. /\ building' \in [Process -> BuildState] /\ building'[p] = s
      /\ \A q \in Process \ {p} : building'[q] = building[q]
  BY DEF EvidenceInv, EvidenceTypeOK
<1>2. EvidenceTypeOK'
  BY <1>1 DEF EvidenceInv, EvidenceTypeOK
<1>3. Index!VectorsBelong'
  BY DEF EvidenceInv, Index!VectorsBelong
<1>4. ASSUME NEW q \in Process PROVE BuildHolds(q)'
  <2>1. CASE q # p
    BY <1>1, <2>1, BuildStays DEF EvidenceInv
  <2> QED BY <2>1
<1>5. ASSUME NEW q \in Adviser, NEW kind \in Index!Kind PROVE CopyHolds(q, kind)'
  <2>1. q \in Process /\ CopyHolds(q, kind)
    BY EvidenceAssumption DEF EvidenceInv
  <2>2. CASE q # p
    BY <1>1, <2>1, <2>2, CopyStays
  <2>3. CASE q = p
    BY <2>1, <2>3 DEF CopyHolds, Index!RowsOf
  <2> QED BY <2>2, <2>3
<1> QED BY <1>2, <1>3, <1>4, <1>5 DEF EvidenceInv


LEMMA RestHolds ==
  ASSUME NEW p \in Process, building'[p] = Index!AtRest PROVE BuildHolds(p)' /\ Index!AtRest \in BuildState
BY DEF BuildHolds, Index!AtRest, BuildState

LEMMA BuildsType ==
  ASSUME EvidenceInv, NEW p \in Process
  PROVE  building[p] \in BuildState /\ BuildHolds(p)
BY DEF EvidenceInv, EvidenceTypeOK

\* A kind begins with what is fetched of it.
LEMMA FetchedHolds ==
  ASSUME EvidenceInv, NEW p \in Process, NEW kind \in Index!Kind, NEW s,
         s = [at |-> "compare", kind |-> kind, records |-> Index!Fetched(kind)], building'[p] = s
  PROVE  BuildHolds(p)' /\ s \in BuildState
<1>1. s \in BuildState
  BY FetchedType DEF EvidenceInv, BuildState
<1>2. /\ \A r \in building'[p].records : r.key \in Index!OfKind(building'[p].kind)
      /\ \A r, q \in building'[p].records : r.key = q.key => r = q
  BY FetchedType DEF EvidenceInv
<1>3. building'[p].at = "compare"
  OBVIOUS
<1> QED BY <1>1, <1>2, <1>3 DEF BuildHolds, Index!OfKind

LEMMA IndexStartInv == ASSUME EvidenceInv, NEW p \in Process, Index!Start(p) PROVE EvidenceInv'
<1> DEFINE s == [at |-> "compare", kind |-> "incident", records |-> Index!Fetched("incident")]
<1>1. building' = [building EXCEPT ![p] = s] /\ building'[p] = s
  BY DEF Index!Start, EvidenceInv, EvidenceTypeOK
<1>2. BuildHolds(p)' /\ s \in BuildState
  BY <1>1, FetchedHolds, Kinds
<1>3. ~\E kind \in Index!Kind : Writing(p, kind)
  BY DEF Index!Start, Writing
<1>4. overtaken' \in [Process -> BOOLEAN] /\ \A q \in Process \ {p} : overtaken'[q] = overtaken[q]
  BY DEF Index!Start, EvidenceInv, EvidenceTypeOK
<1> HIDE DEF s
<1> QED BY <1>1, <1>2, <1>3, <1>4, BuildMoves DEF Index!Start

LEMMA CompareInv == ASSUME EvidenceInv, NEW p \in Process, Index!Compare(p) PROVE EvidenceInv'
<1> DEFINE j == building[p]
           seq == Index!SetToSeq(Index!Pending(j.records))
           s == [at |-> "embed", kind |-> j.kind, records |-> j.records,
                 pending |-> seq, vectors |-> <<>>]
<1>1. building' = [building EXCEPT ![p] = s] /\ building'[p] = s
  BY DEF Index!Compare, EvidenceInv, EvidenceTypeOK
<1>2. j \in BuildState /\ BuildHolds(p) /\ j.at = "compare"
  BY BuildsType DEF Index!Compare
<1>3. j.kind \in Index!Kind /\ j.records \in SUBSET Record
  BY <1>2 DEF BuildState
<1>4. /\ \A r \in j.records : r.key \in Index!OfKind(j.kind)
      /\ \A r, q \in j.records : r.key = q.key => r = q
  BY <1>2 DEF BuildHolds
<1>5. IsFiniteSet(Index!Pending(j.records))
  <2> DEFINE f == [r \in Index!Pending(j.records) |-> r.key]
  <2>1. Index!Pending(j.records) \subseteq j.records
    BY DEF Index!Pending
  <2>2. f \in Injection(Index!Pending(j.records), Index!OfKind(j.kind))
    BY <1>4, <2>1, Fun_IsInj
  <2> QED BY <1>3, <2>2, Kinds, FS_Injection
<1>6. /\ seq \in Seq(Index!Pending(j.records))
      /\ \A r \in Index!Pending(j.records) : \E n \in 1..Len(seq) : seq[n] = r
  BY <1>5, SetAsSequence
<1> HIDE DEF seq
<1>7. seq \in Seq(j.records) /\ \A n \in 1..Len(seq) : seq[n] \in j.records
  <2>1. Index!Pending(j.records) \subseteq j.records
    BY DEF Index!Pending
  <2> QED BY <1>6, <2>1
<1>8. s \in BuildState
  <2>1. seq \in Seq(Record) /\ <<>> \in Seq(Text)
    BY <1>3, <1>7
  <2> QED BY <1>3, <2>1 DEF BuildState
<1>9. \A r \in j.records : r.noted => Written(r) \/ \E n \in 1..Len(seq) : seq[n] = r
  BY <1>6 DEF Index!Pending, Written
<1>10. BuildHolds(p)'
  <2>1. Len(seq) \in Nat
    BY <1>7
  <2>2. \A r \in j.records : Written(r)' <=> Written(r)
    BY DEF Index!Compare, Written
  <2> QED BY <1>1, <1>4, <1>7, <1>9, <2>1, <2>2 DEF BuildHolds
<1>11. ~\E kind \in Index!Kind : Writing(p, kind)
  BY <1>2 DEF Writing
<1>12. overtaken' \in [Process -> BOOLEAN] /\ overtaken' = overtaken
  BY DEF Index!Compare, EvidenceInv, EvidenceTypeOK
<1> HIDE DEF s
<1> QED BY <1>1, <1>8, <1>10, <1>11, <1>12, BuildMoves DEF Index!Compare

LEMMA EmbedInv == ASSUME EvidenceInv, NEW p \in Process, Index!Embed(p) PROVE EvidenceInv'
<1> DEFINE j == building[p]
           n == Len(j.vectors)
           m == Index!AtMost(n + BatchSize, Len(j.pending))
           batch == SubSeq(j.pending, n + 1, m)
<1>1. j \in BuildState /\ BuildHolds(p) /\ j.at = "embed" /\ n < Len(j.pending)
  BY BuildsType DEF Index!Embed
<1>2. /\ j.kind \in Index!Kind /\ j.records \in SUBSET Record
      /\ j.pending \in Seq(Record) /\ j.vectors \in Seq(Text)
  BY <1>1 DEF BuildState
<1>3. PICK response \in Index!Responses(batch) :
         building' = [building EXCEPT ![p].vectors = j.vectors \o Index!InOrder(response)]
  BY DEF Index!Embed
<1> DEFINE got == Index!InOrder(response)
           s == [j EXCEPT !.vectors = j.vectors \o got]
<1>4. n \in Nat /\ Len(j.pending) \in Nat /\ m \in Nat /\ n < m /\ m <= Len(j.pending)
  <2>1. n \in Nat /\ Len(j.pending) \in Nat /\ n < Len(j.pending)
    BY <1>1, <1>2
  <2>2. BatchSize \in Nat /\ BatchSize > 0
    BY EvidenceAssumption
  <2> DEFINE L == Len(j.pending)
  <2> HIDE DEF n, L
  <2>3. Index!AtMost(n + BatchSize, L) \in Nat /\ n < Index!AtMost(n + BatchSize, L) /\ Index!AtMost(n + BatchSize, L) <= L
    BY <2>1, <2>2 DEF Index!AtMost, L
  <2> QED BY <2>1, <2>3 DEF L
<1>5. /\ batch \in Seq(Record) /\ Len(batch) = m - n
      /\ \A i \in 1..(m - n) : batch[i] = j.pending[n + i]
  <2>1. \A i \in (n + 1)..m : j.pending[i] \in Record
    BY <1>2, <1>4
  <2> HIDE DEF m, n, j
  <2>2. n + 1 \in Int /\ m \in Int
    BY <1>4
  <2> QED BY <1>4, <2>1, <2>2, SubSeqProperties
<1>6. got \in Seq(Text) /\ Len(got) = m - n /\ \A i \in 1..(m - n) : got[i] = j.pending[n + i].text
  <2> HIDE DEF batch
  <2> QED BY <1>5, InOrderIsOfBatch
<1> HIDE DEF got, batch
<1>7. /\ s.vectors \in Seq(Text) /\ Len(s.vectors) = m
      /\ \A i \in 1..m : s.vectors[i] = j.pending[i].text
  <2> DEFINE v == j.vectors
  <2>1. s.vectors = v \o got
    BY <1>1 DEF BuildState
  <2>2. v \in Seq(Text) /\ \A i \in 1..n : v[i] = j.pending[i].text
    BY <1>1, <1>2 DEF BuildHolds
  <2> HIDE DEF m, s
  <2>3. Len(v \o got) = m /\ v \o got \in Seq(Text)
    BY <1>4, <1>6, <2>2
  <2>4. ASSUME NEW i \in 1..m PROVE (v \o got)[i] = j.pending[i].text
    <3>1. CASE i <= n
      BY <1>4, <1>6, <2>2, <3>1
    <3>2. CASE i > n
      <4>1. i - n \in 1..(m - n) /\ n + (i - n) = i
        BY <1>4, <3>2
      <4>2. (v \o got)[i] = got[i - n]
        BY <1>4, <1>6, <2>2, <3>2
      <4> QED BY <1>6, <4>1, <4>2
    <3>3. i <= n \/ i > n
      BY <1>4
    <3> QED BY <3>1, <3>2, <3>3
  <2> QED BY <2>1, <2>3, <2>4
<1>8. /\ s \in BuildState /\ s.at = "embed" /\ s.kind = j.kind /\ s.records = j.records
      /\ s.pending = j.pending
  <2>1. s.vectors \in Seq(Text)
    BY <1>7
  <2>2. j \in [at : {"embed", "invalidate"}, kind : Index!Kind, records : SUBSET Record,
                pending : Seq(Record), vectors : Seq(Text)]
    BY <1>1 DEF BuildState
  <2>3. j.vectors \o got \in Seq(Text)
    BY <1>2, <1>6
  <2> QED BY <1>1, <2>2, <2>3 DEF BuildState
<1>9. building' = [building EXCEPT ![p] = s] /\ building'[p] = s
  BY <1>3 DEF EvidenceInv, EvidenceTypeOK, got
<1> HIDE DEF s
<1>10. BuildHolds(p)'
  <2>1. UNCHANGED <<store, overtaken>>
    BY DEF Index!Embed
  <2>2. \A r \in j.records : Written(r)' <=> Written(r)
    BY <2>1 DEF Written
  <2> HIDE DEF m
  <2> QED BY <1>1, <1>4, <1>7, <1>8, <1>9, <2>1, <2>2 DEF BuildHolds
<1>11. ~\E kind \in Index!Kind : Writing(p, kind)
  BY <1>1 DEF Writing, Index!Embedded
<1>12. overtaken' \in [Process -> BOOLEAN] /\ overtaken' = overtaken
  BY DEF Index!Embed, EvidenceInv, EvidenceTypeOK
<1> QED BY <1>8, <1>9, <1>10, <1>11, <1>12, BuildMoves DEF Index!Embed

LEMMA EmbedFailsInv ==
  ASSUME EvidenceInv, NEW p \in Process, Index!EmbedFails(p)
  PROVE  EvidenceInv'
<1>1. building' = [building EXCEPT ![p] = Index!AtRest] /\ building'[p] = Index!AtRest
  BY DEF Index!EmbedFails, EvidenceInv, EvidenceTypeOK
<1>2. \A kind \in Index!Kind : ~Writing(p, kind)
  BY BuildsType DEF Index!EmbedFails, Writing, Index!Embedded, BuildHolds
<1>3. overtaken' \in [Process -> BOOLEAN] /\ overtaken' = overtaken
  BY DEF Index!EmbedFails, EvidenceInv, EvidenceTypeOK
<1> QED BY <1>1, <1>2, <1>3, RestHolds, BuildMoves DEF Index!EmbedFails


\* What waits is written one by one.
LEMMA WaitingFacts ==
  ASSUME EvidenceInv, NEW p \in Process, Index!Embedded(p)
  PROVE  /\ building[p].kind \in Index!Kind /\ building[p].records \in SUBSET Record
         /\ building[p].pending \in Seq(Record) /\ building[p].vectors \in Seq(Text)
         /\ Len(building[p].vectors) = Len(building[p].pending)
         /\ \A r \in building[p].records : r.key \in Index!OfKind(building[p].kind)
         /\ \A r, q \in building[p].records : r.key = q.key => r = q
         /\ \A n \in 1..Len(building[p].pending) : building[p].pending[n] \in building[p].records
         /\ \A n \in 1..Len(building[p].vectors) : building[p].vectors[n] = building[p].pending[n].text
         /\ ~overtaken[p] =>
               \A r \in building[p].records :
                  r.noted => Written(r) \/ \E n \in 1..Len(building[p].pending) : building[p].pending[n] = r
<1>1. building[p] \in BuildState /\ BuildHolds(p) /\ building[p].at = "embed"
  BY BuildsType DEF Index!Embedded
<1>2. /\ building[p].kind \in Index!Kind /\ building[p].records \in SUBSET Record
      /\ building[p].pending \in Seq(Record) /\ building[p].vectors \in Seq(Text)
  BY <1>1 DEF BuildState
<1>3. Len(building[p].vectors) = Len(building[p].pending)
  BY DEF Index!Embedded
<1> QED BY <1>1, <1>2, <1>3 DEF BuildHolds

LEMMA WriteInv == ASSUME EvidenceInv, NEW p \in Process, Index!Write(p) PROVE EvidenceInv'
<1> DEFINE j == building[p]
           r == Head(j.pending)
           row == [there |-> TRUE, hash |-> r.text, vector |-> Head(j.vectors)]
           s == [j EXCEPT !.pending = Tail(j.pending), !.vectors = Tail(j.vectors),
                          !.at = IF Len(j.pending) = 1 THEN "invalidate" ELSE j.at]
<1>1. Index!Embedded(p) /\ j.pending # <<>> /\ j.at = "embed" /\ j \in BuildState
  BY BuildsType DEF Index!Write, Index!Embedded
<1>2. /\ j.kind \in Index!Kind /\ j.records \in SUBSET Record
      /\ j.pending \in Seq(Record) /\ j.vectors \in Seq(Text)
      /\ Len(j.vectors) = Len(j.pending)
      /\ \A x \in j.records : x.key \in Index!OfKind(j.kind)
      /\ \A x, q \in j.records : x.key = q.key => x = q
      /\ \A n \in 1..Len(j.pending) : j.pending[n] \in j.records
      /\ \A n \in 1..Len(j.vectors) : j.vectors[n] = j.pending[n].text
      /\ ~overtaken[p] =>
            \A x \in j.records :
               x.noted => Written(x) \/ \E n \in 1..Len(j.pending) : j.pending[n] = x
  BY <1>1, WaitingFacts
<1> DEFINE N == Len(j.pending)
<1>3. /\ N \in Nat /\ N > 0 /\ r = j.pending[1] /\ Head(j.vectors) = j.vectors[1]
      /\ Tail(j.pending) \in Seq(Record) /\ Tail(j.vectors) \in Seq(Text)
      /\ Len(Tail(j.pending)) = N - 1 /\ Len(Tail(j.vectors)) = N - 1
      /\ \A n \in 1..(N - 1) : /\ Tail(j.pending)[n] = j.pending[n + 1]
                               /\ Tail(j.vectors)[n] = j.vectors[n + 1]
  BY <1>1, <1>2
<1>4. /\ r \in j.records /\ r.key \in Index!Item /\ r.key \in Index!OfKind(j.kind)
      /\ r.text \in Text /\ Head(j.vectors) = r.text
  <2>1. r \in j.records /\ Head(j.vectors) = r.text
    BY <1>2, <1>3
  <2>2. r \in Record
    BY <1>2, <2>1
  <2> QED BY <1>2, <2>1, <2>2 DEF Record
<1>5. /\ store' = [store EXCEPT ![r.key] = row] /\ row.there /\ row.hash = r.text
      /\ row.vector = r.text /\ row \in [there : {TRUE}, hash : Text, vector : Text]
  BY <1>4 DEF Index!Write
<1>6. /\ store'[r.key] = row /\ \A i \in Index!Item \ {r.key} : store'[i] = store[i]
      /\ store' \in [Index!Item -> {Index!NoRow} \cup [there : {TRUE}, hash : Text, vector : Text]]
  <2> HIDE DEF row, r
  <2> QED BY <1>4, <1>5 DEF EvidenceInv, EvidenceTypeOK
<1>7. /\ s.kind = j.kind /\ s.records = j.records /\ s.pending = Tail(j.pending)
      /\ s.vectors = Tail(j.vectors) /\ s.at = IF N = 1 THEN "invalidate" ELSE "embed"
      /\ s \in BuildState
  <2>1. j \in [at : {"embed", "invalidate"}, kind : Index!Kind, records : SUBSET Record,
                pending : Seq(Record), vectors : Seq(Text)]
    BY <1>1 DEF BuildState
  <2> DEFINE t == Tail(j.pending)
             v == Tail(j.vectors)
             a == IF N = 1 THEN "invalidate" ELSE j.at
  <2>2. s = [j EXCEPT !.pending = t, !.vectors = v, !.at = a]
        /\ t \in Seq(Record) /\ v \in Seq(Text) /\ a \in {"embed", "invalidate"}
        /\ a = IF N = 1 THEN "invalidate" ELSE "embed"
    BY <1>1, <1>3
  <2> HIDE DEF t, v, a, s, N
  <2>3. /\ s.kind = j.kind /\ s.records = j.records /\ s.pending = t /\ s.vectors = v /\ s.at = a
        /\ s \in BuildState
    BY <2>1, <2>2 DEF BuildState
  <2> QED BY <2>2, <2>3 DEF t, v, a
<1>8. /\ building' = [building EXCEPT ![p] = s] /\ building'[p] = s /\ building' \in [Process -> BuildState]
      /\ \A q \in Process \ {p} : building'[q] = building[q]
  <2>1. building' = [building EXCEPT ![p] = s]
    BY DEF Index!Write, EvidenceInv, EvidenceTypeOK
  <2> HIDE DEF s
  <2> QED BY <1>7, <2>1 DEF EvidenceInv, EvidenceTypeOK
<1> HIDE DEF s, row, r
<1>9. /\ overtaken'[p] = overtaken[p] /\ \A q \in Process \ {p} : overtaken'[q] = TRUE
      /\ overtaken' \in [Process -> BOOLEAN]
  BY DEF Index!Write, EvidenceInv, EvidenceTypeOK
<1>10. /\ outdated' \in [Adviser -> [Index!Kind -> BOOLEAN]]
       /\ p \in Adviser => outdated'[p] = outdated[p]
       /\ \A q \in Adviser \ {p} : outdated'[q] = [outdated[q] EXCEPT ![j.kind] = TRUE]
  <2>1. ASSUME NEW q \in Adviser
        PROVE  [outdated[q] EXCEPT ![j.kind] = TRUE] \in [Index!Kind -> BOOLEAN] /\ outdated[q] \in [Index!Kind -> BOOLEAN]
    BY <1>2 DEF EvidenceInv, EvidenceTypeOK
  <2>2. outdated' = [q \in Adviser |-> IF q = p THEN outdated[q]
                                       ELSE [outdated[q] EXCEPT ![j.kind] = TRUE]]
    BY DEF Index!Write
  <2> QED BY <2>1, <2>2
<1>11. UNCHANGED <<snow, memory>>
  BY DEF Index!Write
<1>12. EvidenceTypeOK'
  BY <1>6, <1>8, <1>9, <1>10, <1>11 DEF EvidenceInv, EvidenceTypeOK
<1>13. Index!VectorsBelong'
  BY <1>5, <1>6 DEF EvidenceInv, Index!VectorsBelong
<1>14. ASSUME NEW x \in j.records, Written(x) \/ x = r PROVE Written(x)'
  <2>1. x.key \in Index!Item
    BY <1>2 DEF Record
  <2>2. CASE x.key = r.key
    <3>1. x = r
      BY <1>2, <1>4, <2>2
    <3> QED BY <1>5, <1>6, <3>1 DEF Written
  <2>3. CASE x.key # r.key
    <3>1. store'[x.key] = store[x.key]
      BY <1>6, <2>1, <2>3
    <3> QED BY <1>14, <2>3, <3>1 DEF Written
  <2> QED BY <2>2, <2>3
<1>15. BuildHolds(p)'
  <2>1. /\ Len(s.vectors) <= Len(s.pending)
        /\ \A n \in 1..Len(s.pending) : s.pending[n] \in s.records
        /\ \A n \in 1..Len(s.vectors) : s.vectors[n] = s.pending[n].text
    BY <1>2, <1>3, <1>7
  <2>2. s.at = "invalidate" => s.pending = <<>>
    <3>1. s.at = "invalidate" => Len(s.pending) = 0 /\ s.pending \in Seq(Record)
      BY <1>3, <1>7
    <3> QED BY <3>1, EmptySeq
  <2>3. ASSUME ~overtaken'[p], NEW x \in s.records, x.noted
        PROVE  Written(x)' \/ \E n \in 1..Len(s.pending) : s.pending[n] = x
    <3>1. x \in j.records
      BY <1>7
    <3>2. CASE Written(x)
      BY <1>14, <3>1, <3>2
    <3>3. CASE ~Written(x)
      <4>1. PICK n \in 1..N : j.pending[n] = x
        BY <1>2, <1>9, <2>3, <3>1, <3>3
      <4>2. CASE n = 1
        BY <1>3, <1>14, <3>1, <4>1, <4>2
      <4>3. CASE n # 1
        <5>1. n - 1 \in 1..(N - 1) /\ (n - 1) + 1 = n
          <6> HIDE DEF N
          <6> QED BY <1>3, <4>3
        <5>2. s.pending[n - 1] = x
          <6>1. Tail(j.pending)[n - 1] = j.pending[(n - 1) + 1]
            BY <1>3, <5>1
          <6> QED BY <1>7, <4>1, <5>1, <6>1
        <5>3. n - 1 \in 1..Len(s.pending)
          <6>1. Len(s.pending) = N - 1
            BY <1>3, <1>7
          <6> QED BY <5>1, <6>1
        <5>4. \E m \in 1..Len(s.pending) : s.pending[m] = x
          <6> DEFINE i == n - 1
          <6>1. i \in 1..Len(s.pending) /\ s.pending[i] = x
            BY <5>2, <5>3
          <6> HIDE DEF i
          <6> QED BY <6>1
        <5> QED BY <5>4
      <4> QED BY <4>2, <4>3
    <3> QED BY <3>2, <3>3
  <2>4. building'[p] = s
    BY <1>8
  <2>5. /\ \A x \in s.records : x.key \in Index!OfKind(s.kind)
        /\ \A x, q \in s.records : x.key = q.key => x = q
    BY <1>2, <1>7
  <2> HIDE DEF j, N
  <2> QED BY <2>1, <2>2, <2>3, <2>4, <2>5 DEF BuildHolds, Index!OfKind
<1>16. ASSUME NEW q \in Process PROVE BuildHolds(q)'
  <2>1. CASE q = p
    BY <1>15, <2>1
  <2>2. CASE q # p
    <3>1. building'[q] = building[q] /\ BuildHolds(q) /\ overtaken'[q]
      BY <1>8, <1>9, <2>2, BuildsType
    <3> QED BY <3>1 DEF BuildHolds
  <2> QED BY <2>1, <2>2
<1>17. ASSUME NEW q \in Adviser, NEW kind \in Index!Kind PROVE CopyHolds(q, kind)'
  <2>1. q \in Process /\ CopyHolds(q, kind)
    BY EvidenceAssumption DEF EvidenceInv
  <2>2. CASE kind = j.kind /\ q = p
    <3>1. Writing(p, kind)'
      <4>1. CASE N = 1
        BY <1>7, <1>8, <2>2, <4>1 DEF Writing
      <4>2. CASE N # 1
        <5>1. s.at = "embed" /\ Len(s.vectors) = Len(s.pending) /\ s.pending # <<>>
          <6>1. s.at = "embed"
            BY <1>7, <4>2
          <6>2. Len(s.vectors) = N - 1 /\ Len(s.pending) = N - 1
            BY <1>3, <1>7
          <6>3. N - 1 # 0
            <7> HIDE DEF N
            <7> QED BY <1>3, <4>2
          <6>4. Len(<<>>) = 0
            OBVIOUS
          <6> QED BY <6>1, <6>2, <6>3, <6>4
        <5> QED BY <1>7, <1>8, <2>2, <5>1 DEF Writing, Index!Embedded
      <4> QED BY <4>1, <4>2
    <3> QED BY <2>2, <3>1 DEF CopyHolds
  <2>3. CASE kind = j.kind /\ q # p
    <3>1. outdated'[q][kind] = TRUE
      BY <1>10, <2>3 DEF EvidenceInv, EvidenceTypeOK
    <3> QED BY <3>1 DEF CopyHolds
  <2>4. CASE kind # j.kind
    <3>1. Index!RowsOf(kind)' = Index!RowsOf(kind)
      <4>1. r.key \notin Index!OfKind(kind) /\ Index!OfKind(kind) \subseteq Index!Item
        BY <1>2, <1>4, <2>4, EvidenceAssumption, Kinds DEF Index!OfKind, Index!Kind
      <4>2. \A i \in Index!OfKind(kind) : store'[i] = store[i]
        BY <1>6, <4>1
      <4> QED BY <4>2 DEF Index!RowsOf
    <3>2. outdated'[q][kind] = outdated[q][kind]
      BY <1>10, <2>4 DEF EvidenceInv, EvidenceTypeOK
    <3>3. Writing(q, kind)' <=> Writing(q, kind)
      BY <1>7, <1>8, <2>1, <2>4 DEF Writing, Index!Embedded
    <3> QED BY <1>11, <2>1, <3>1, <3>2, <3>3 DEF CopyHolds
  <2> QED BY <2>2, <2>3, <2>4
<1> QED BY <1>11, <1>12, <1>13, <1>16, <1>17 DEF EvidenceInv


LEMMA WriteFailsInv ==
  ASSUME EvidenceInv, NEW p \in Process, Index!WriteFails(p)
  PROVE  EvidenceInv'
<1> DEFINE k == building[p].kind
<1>1. /\ building'[p] = Index!AtRest /\ building' \in [Process -> BuildState]
      /\ \A q \in Process \ {p} : building'[q] = building[q]
  BY RestHolds DEF Index!WriteFails, EvidenceInv, EvidenceTypeOK
<1>2. Index!Embedded(p) /\ k \in Index!Kind
  BY WaitingFacts DEF Index!WriteFails
<1>3. /\ outdated' \in [Adviser -> [Index!Kind -> BOOLEAN]]
      /\ p \in Adviser => outdated'[p] = [outdated[p] EXCEPT ![k] = TRUE]
      /\ \A q \in Adviser \ {p} : outdated'[q] = outdated[q]
  <2>1. ASSUME NEW q \in Adviser
        PROVE  [outdated[q] EXCEPT ![k] = TRUE] \in [Index!Kind -> BOOLEAN] /\ outdated[q] \in [Index!Kind -> BOOLEAN]
    BY <1>2 DEF EvidenceInv, EvidenceTypeOK
  <2>2. outdated' = [q \in Adviser |-> IF q = p THEN [outdated[q] EXCEPT ![k] = TRUE] ELSE outdated[q]]
    BY DEF Index!WriteFails
  <2> QED BY <2>1, <2>2
<1>4. UNCHANGED <<snow, store, memory, overtaken>>
  BY DEF Index!WriteFails
<1>5. EvidenceTypeOK'
  BY <1>1, <1>3, <1>4 DEF EvidenceInv, EvidenceTypeOK
<1>6. Index!VectorsBelong'
  BY <1>4 DEF EvidenceInv, Index!VectorsBelong
<1>7. ASSUME NEW q \in Process PROVE BuildHolds(q)'
  BY <1>1, <1>4, RestHolds, BuildStays DEF EvidenceInv
<1>8. ASSUME NEW q \in Adviser, NEW kind \in Index!Kind PROVE CopyHolds(q, kind)'
  <2>1. q \in Process /\ CopyHolds(q, kind)
    BY EvidenceAssumption DEF EvidenceInv
  <2>2. CASE q # p
    BY <1>1, <1>3, <1>4, <2>1, <2>2, CopyStays
  <2>3. CASE q = p /\ kind = k
    <3>1. outdated'[q][kind] = TRUE
      BY <1>3, <2>3 DEF EvidenceInv, EvidenceTypeOK
    <3> QED BY <3>1 DEF CopyHolds
  <2>4. CASE q = p /\ kind # k
    <3>1. outdated'[q][kind] = outdated[q][kind]
      BY <1>3, <2>4 DEF EvidenceInv, EvidenceTypeOK
    <3>2. ~Writing(q, kind)
      BY <2>4 DEF Writing
    <3>3. Index!RowsOf(kind)' = Index!RowsOf(kind)
      BY <1>4 DEF Index!RowsOf
    <3> QED BY <1>4, <2>1, <3>1, <3>2, <3>3 DEF CopyHolds
  <2> QED BY <2>2, <2>3, <2>4
<1> QED BY <1>4, <1>5, <1>6, <1>7, <1>8 DEF EvidenceInv

\* The end of a kind.
LEMMA NextKindType ==
  ASSUME EvidenceInv, NEW p \in Process, Index!NextKind(p)
  PROVE  /\ building' \in [Process -> BuildState] /\ BuildHolds(p)'
         /\ \A q \in Process \ {p} : building'[q] = building[q]
         /\ building'[p].at \in {"rest", "compare"}
         /\ \E s \in BuildState : building' = [building EXCEPT ![p] = s]
<1> DEFINE c == [at |-> "compare", kind |-> "kb", records |-> Index!Fetched("kb")]
           s == IF building[p].kind = "kb" THEN Index!AtRest ELSE c
<1>1. building' = [building EXCEPT ![p] = s] /\ building'[p] = s
  BY DEF Index!NextKind, EvidenceInv, EvidenceTypeOK
<1>2. s \in BuildState /\ BuildHolds(p)'
  <2>1. CASE s = Index!AtRest
    BY <1>1, <2>1, RestHolds
  <2>2. CASE s = c
    BY <1>1, <2>2, FetchedHolds, Kinds
  <2> QED BY <2>1, <2>2
<1>3. s.at \in {"rest", "compare"}
  BY DEF Index!AtRest
<1> HIDE DEF s
<1> QED BY <1>1, <1>2, <1>3 DEF EvidenceInv, EvidenceTypeOK

LEMMA NothingPendingInv ==
  ASSUME EvidenceInv, NEW p \in Process, Index!NothingPending(p)
  PROVE  EvidenceInv'
<1>1. BuildHolds(p)' /\ \E s \in BuildState : building' = [building EXCEPT ![p] = s]
  BY NextKindType DEF Index!NothingPending
<1>2. \A kind \in Index!Kind : ~Writing(p, kind)
  BY DEF Index!NothingPending, Writing, Index!Embedded
<1>3. overtaken' \in [Process -> BOOLEAN] /\ \A q \in Process \ {p} : overtaken'[q] = overtaken[q]
  BY DEF Index!NothingPending, EvidenceInv, EvidenceTypeOK
<1> QED BY <1>1, <1>2, <1>3, BuildMoves DEF Index!NothingPending

LEMMA NoRowsKeyed == RowsKeyed({})
BY FS_EmptySet DEF RowsKeyed

LEMMA InvalidateInv ==
  ASSUME EvidenceInv, NEW p \in Process, Index!Invalidate(p)
  PROVE  EvidenceInv'
<1> DEFINE k == building[p].kind
<1>1. /\ building' \in [Process -> BuildState] /\ BuildHolds(p)'
      /\ \A q \in Process \ {p} : building'[q] = building[q]
      /\ building'[p].at \in {"rest", "compare"}
  BY NextKindType DEF Index!Invalidate
<1>2. k \in Index!Kind /\ building[p].at = "invalidate"
  BY BuildsType DEF Index!Invalidate, BuildState
<1>3. /\ memory' \in [Adviser -> [Index!Kind -> SUBSET RowRecord]]
      /\ p \in Adviser => memory'[p] = [memory[p] EXCEPT ![k] = {}]
      /\ \A q \in Adviser \ {p} : memory'[q] = memory[q]
  <2>1. ASSUME NEW q \in Adviser
        PROVE  /\ [memory[q] EXCEPT ![k] = {}] \in [Index!Kind -> SUBSET RowRecord]
               /\ memory[q] \in [Index!Kind -> SUBSET RowRecord]
    BY <1>2 DEF EvidenceInv, EvidenceTypeOK
  <2>2. memory' = [q \in Adviser |-> IF q = p THEN [memory[q] EXCEPT ![k] = {}] ELSE memory[q]]
    BY DEF Index!Invalidate, Index!Invalidated
  <2> QED BY <2>1, <2>2
<1>4. /\ outdated' \in [Adviser -> [Index!Kind -> BOOLEAN]]
      /\ p \in Adviser => outdated'[p] = [outdated[p] EXCEPT ![k] = FALSE]
      /\ \A q \in Adviser \ {p} : outdated'[q] = outdated[q]
  <2>1. ASSUME NEW q \in Adviser
        PROVE  [outdated[q] EXCEPT ![k] = FALSE] \in [Index!Kind -> BOOLEAN] /\ outdated[q] \in [Index!Kind -> BOOLEAN]
    BY <1>2 DEF EvidenceInv, EvidenceTypeOK
  <2>2. outdated' = [q \in Adviser |-> IF q = p THEN [outdated[q] EXCEPT ![k] = FALSE] ELSE outdated[q]]
    BY DEF Index!Invalidate
  <2> QED BY <2>1, <2>2
<1>5. /\ overtaken' \in [Process -> BOOLEAN] /\ \A q \in Process \ {p} : overtaken'[q] = overtaken[q]
      /\ UNCHANGED <<snow, store>>
  BY DEF Index!Invalidate, EvidenceInv, EvidenceTypeOK
<1>6. EvidenceTypeOK'
  BY <1>1, <1>3, <1>4, <1>5 DEF EvidenceInv, EvidenceTypeOK
<1>7. Index!VectorsBelong'
  BY <1>5 DEF EvidenceInv, Index!VectorsBelong
<1>8. ASSUME NEW q \in Process PROVE BuildHolds(q)'
  BY <1>1, <1>5, BuildStays DEF EvidenceInv
<1>9. ASSUME NEW q \in Adviser, NEW kind \in Index!Kind
      PROVE  CopyHolds(q, kind)' /\ RowsKeyed(memory'[q][kind])
  <2>1. q \in Process /\ CopyHolds(q, kind) /\ RowsKeyed(memory[q][kind])
    BY EvidenceAssumption DEF EvidenceInv
  <2>2. CASE q # p
    BY <1>1, <1>3, <1>4, <1>5, <2>1, <2>2, CopyStays
  <2>3. CASE q = p /\ kind = k
    <3>1. memory'[q][kind] = {}
      BY <1>3, <2>3 DEF EvidenceInv, EvidenceTypeOK
    <3> QED BY <3>1, NoRowsKeyed DEF CopyHolds
  <2>4. CASE q = p /\ kind # k
    <3>1. outdated'[q][kind] = outdated[q][kind] /\ memory'[q][kind] = memory[q][kind]
      BY <1>3, <1>4, <2>4 DEF EvidenceInv, EvidenceTypeOK
    <3>2. ~Writing(q, kind)
      BY <2>4 DEF Writing
    <3>3. Index!RowsOf(kind)' = Index!RowsOf(kind)
      BY <1>5 DEF Index!RowsOf
    <3> QED BY <2>1, <3>1, <3>2, <3>3 DEF CopyHolds
  <2> QED BY <2>2, <2>3, <2>4
<1> QED BY <1>6, <1>7, <1>8, <1>9 DEF EvidenceInv

LEMMA IndexRowsType ==
  ASSUME EvidenceInv, NEW kind \in Index!Kind
  PROVE  Index!RowsOf(kind) \in SUBSET RowRecord /\ RowsKeyed(Index!RowsOf(kind))
<1> DEFINE K == {j \in Index!OfKind(kind) : store[j].there}
           f == [i \in K |-> [key |-> i, vector |-> store[i].vector]]
<1>1. ASSUME NEW i \in K PROVE i \in Index!Item /\ store[i].vector \in Text
  <2>1. i \in Index!Item /\ store[i].there
    BY Kinds
  <2>2. store[i] \in {Index!NoRow} \cup [there : {TRUE}, hash : Text, vector : Text]
    BY <2>1 DEF EvidenceInv, EvidenceTypeOK
  <2>3. ~Index!NoRow.there
    BY DEF Index!NoRow
  <2>4. store[i] # Index!NoRow
    BY <2>1, <2>3
  <2>5. store[i] \in [there : {TRUE}, hash : Text, vector : Text]
    BY <2>2, <2>4
  <2> QED BY <2>1, <2>5
<1>2. Index!RowsOf(kind) \in SUBSET RowRecord
  BY <1>1 DEF Index!RowsOf, RowRecord
<1>3. f \in Surjection(K, Index!RowsOf(kind))
  <2>1. f \in [K -> Index!RowsOf(kind)] /\ \A r \in Index!RowsOf(kind) : \E i \in K : f[i] = r
    BY DEF Index!RowsOf
  <2> QED BY <2>1 DEF Surjection
<1>4. IsFiniteSet(K)
  BY Kinds, FS_Subset
<1>5. \A r, o \in Index!RowsOf(kind) : r.key = o.key => r = o
  BY DEF Index!RowsOf
<1> QED BY <1>2, <1>3, <1>4, <1>5, FS_Surjection DEF RowsKeyed

LEMMA IndexLoadInv ==
  ASSUME EvidenceInv, NEW p \in Adviser, NEW k \in Index!Kind, Index!Load(p, k) PROVE EvidenceInv'
<1>1. /\ memory' \in [Adviser -> [Index!Kind -> SUBSET RowRecord]] /\ memory'[p][k] = Index!RowsOf(k)
      /\ \A q \in Adviser, kind \in Index!Kind :
            q # p \/ kind # k => memory'[q][kind] = memory[q][kind]
  BY IndexRowsType DEF Index!Load, EvidenceInv, EvidenceTypeOK
<1>2. /\ outdated' \in [Adviser -> [Index!Kind -> BOOLEAN]]
      /\ \A q \in Adviser, kind \in Index!Kind :
            q # p \/ kind # k => outdated'[q][kind] = outdated[q][kind]
  BY DEF Index!Load, EvidenceInv, EvidenceTypeOK
<1>3. UNCHANGED <<snow, store, building, overtaken>>
  BY DEF Index!Load
<1>4. EvidenceTypeOK' /\ Index!VectorsBelong'
  BY <1>1, <1>2, <1>3 DEF EvidenceInv, EvidenceTypeOK, Index!VectorsBelong
<1>5. ASSUME NEW q \in Process PROVE BuildHolds(q)'
  BY <1>3, BuildStays DEF EvidenceInv
<1>6. ASSUME NEW q \in Adviser, NEW kind \in Index!Kind
      PROVE  CopyHolds(q, kind)' /\ RowsKeyed(memory'[q][kind])
  <2>1. CASE q # p \/ kind # k
    BY <1>1, <1>2, <1>3, <2>1, CopyStays DEF EvidenceInv
  <2>2. CASE q = p /\ kind = k
    <3>1. Index!RowsOf(kind)' = Index!RowsOf(kind)
      BY <1>3 DEF Index!RowsOf
    <3> QED BY <1>1, <2>2, <3>1, IndexRowsType DEF CopyHolds
  <2> QED BY <2>1, <2>2
<1> QED BY <1>4, <1>5, <1>6 DEF EvidenceInv

LEMMA IndexRestartInv == ASSUME EvidenceInv, NEW p \in Process, Index!Restart(p) PROVE EvidenceInv'
<1>1. /\ building'[p] = Index!AtRest /\ building' \in [Process -> BuildState]
      /\ \A q \in Process \ {p} : building'[q] = building[q]
  BY RestHolds DEF Index!Restart, EvidenceInv, EvidenceTypeOK
<1>2. /\ memory' \in [Adviser -> [Index!Kind -> SUBSET RowRecord]]
      /\ p \in Adviser => \A kind \in Index!Kind : memory'[p][kind] = {}
      /\ \A q \in Adviser \ {p} : memory'[q] = memory[q]
  BY DEF Index!Restart, EvidenceInv, EvidenceTypeOK
<1>3. /\ outdated' \in [Adviser -> [Index!Kind -> BOOLEAN]]
      /\ \A q \in Adviser \ {p} : outdated'[q] = outdated[q]
  BY DEF Index!Restart, EvidenceInv, EvidenceTypeOK
<1>4. UNCHANGED <<snow, store, overtaken>>
  BY DEF Index!Restart
<1>5. EvidenceTypeOK' /\ Index!VectorsBelong'
  BY <1>1, <1>2, <1>3, <1>4 DEF EvidenceInv, EvidenceTypeOK, Index!VectorsBelong
<1>6. ASSUME NEW q \in Process PROVE BuildHolds(q)'
  BY <1>1, <1>4, RestHolds, BuildStays DEF EvidenceInv
<1>7. ASSUME NEW q \in Adviser, NEW kind \in Index!Kind
      PROVE  CopyHolds(q, kind)' /\ RowsKeyed(memory'[q][kind])
  <2>1. q \in Process
    BY EvidenceAssumption
  <2>2. CASE q # p
    BY <1>1, <1>2, <1>3, <1>4, <2>1, <2>2, CopyStays DEF EvidenceInv
  <2>3. CASE q = p
    BY <1>2, <2>3, NoRowsKeyed DEF CopyHolds
  <2> QED BY <2>2, <2>3
<1> QED BY <1>5, <1>6, <1>7 DEF EvidenceInv

LEMMA SnowChangesInv == ASSUME EvidenceInv, Index!SnowChanges PROVE EvidenceInv'
<1>1. snow' \in [Index!Item -> [text : Text, closed : BOOLEAN, noted : BOOLEAN]]
  <2>1. \A i \in Index!Item : snow[i] \in [text : Text, closed : BOOLEAN, noted : BOOLEAN]
    BY DEF EvidenceInv, EvidenceTypeOK
  <2>2. PICK i \in Index!Item : \/ \E t \in Text : snow' = [snow EXCEPT ![i].text = t]
                          \/ snow' = [snow EXCEPT ![i].closed = ~snow[i].closed]
                          \/ snow' = [snow EXCEPT ![i].noted = ~snow[i].noted]
    BY DEF Index!SnowChanges, Index!Item
  <2> DEFINE Said == [text : Text, closed : BOOLEAN, noted : BOOLEAN]
  <2>3. /\ \A t \in Text : [snow[i] EXCEPT !.text = t] \in Said
        /\ \A c \in BOOLEAN : /\ [snow[i] EXCEPT !.closed = c] \in Said
                             /\ [snow[i] EXCEPT !.noted = c] \in Said
    BY <2>1
  <2>4. \E x \in Said : snow' = [snow EXCEPT ![i] = x]
    <3>1. CASE \E t \in Text : snow' = [snow EXCEPT ![i].text = t]
      <4>1. PICK t \in Text : snow' = [snow EXCEPT ![i].text = t]
        BY <3>1
      <4> HIDE DEF Said
      <4> QED BY <2>3, <4>1
    <3>2. CASE snow' = [snow EXCEPT ![i].closed = ~snow[i].closed]
      <4> DEFINE c == ~snow[i].closed
      <4>1. c \in BOOLEAN
        OBVIOUS
      <4>2. snow' = [snow EXCEPT ![i].closed = c]
        BY <3>2
      <4> HIDE DEF Said, c
      <4>3. [snow[i] EXCEPT !.closed = c] \in Said
        BY <2>3, <4>1
      <4>4. snow' = [snow EXCEPT ![i] = [snow[i] EXCEPT !.closed = c]]
        BY <4>2
      <4> QED BY <4>3, <4>4
    <3>3. CASE snow' = [snow EXCEPT ![i].noted = ~snow[i].noted]
      <4> DEFINE c == ~snow[i].noted
      <4>1. c \in BOOLEAN
        OBVIOUS
      <4>2. snow' = [snow EXCEPT ![i].noted = c]
        BY <3>3
      <4> HIDE DEF Said, c
      <4>3. [snow[i] EXCEPT !.noted = c] \in Said
        BY <2>3, <4>1
      <4>4. snow' = [snow EXCEPT ![i] = [snow[i] EXCEPT !.noted = c]]
        BY <4>2
      <4> QED BY <4>3, <4>4
    <3> QED BY <2>2, <3>1, <3>2, <3>3
  <2>5. snow \in [Index!Item -> Said]
    BY DEF EvidenceInv, EvidenceTypeOK
  <2> HIDE DEF Said
  <2>6. snow' \in [Index!Item -> Said]
    BY <2>4, <2>5
  <2> QED BY <2>6 DEF Said
<1>2. UNCHANGED <<store, memory, building, outdated, overtaken>>
  BY DEF Index!SnowChanges
<1>3. EvidenceTypeOK' /\ Index!VectorsBelong'
  BY <1>1, <1>2 DEF EvidenceInv, EvidenceTypeOK, Index!VectorsBelong
<1>4. ASSUME NEW q \in Process PROVE BuildHolds(q)'
  BY <1>2, BuildStays DEF EvidenceInv
<1>5. ASSUME NEW q \in Adviser, NEW kind \in Index!Kind PROVE CopyHolds(q, kind)'
  BY <1>2, CopyStays DEF EvidenceInv
<1> QED BY <1>2, <1>3, <1>4, <1>5 DEF EvidenceInv

LEMMA EvidenceStart == ASSUME Index!Init PROVE EvidenceInv
<1>1. /\ snow \in [Index!Item -> [text : Text, closed : BOOLEAN, noted : BOOLEAN]]
      /\ store \in [Index!Item -> {Index!NoRow} \cup [there : {TRUE}, hash : Text, vector : Text]]
      /\ memory \in [Adviser -> [Index!Kind -> SUBSET RowRecord]]
      /\ outdated \in [Adviser -> [Index!Kind -> BOOLEAN]] /\ overtaken \in [Process -> BOOLEAN]
  BY EvidenceAssumption DEF Index!Init, Index!Item
<1>2. building \in [Process -> BuildState]
  BY DEF Index!Init, Index!AtRest, BuildState
<1>3. Index!VectorsBelong
  BY DEF Index!Init, Index!VectorsBelong, Index!NoRow
<1>4. \A p \in Process : BuildHolds(p)
  BY DEF Index!Init, BuildHolds, Index!AtRest
<1>5. \A p \in Adviser, kind \in Index!Kind : CopyHolds(p, kind) /\ RowsKeyed(memory[p][kind])
  BY NoRowsKeyed DEF Index!Init, CopyHolds
<1> QED BY <1>1, <1>2, <1>3, <1>4, <1>5 DEF EvidenceInv, EvidenceTypeOK

LEMMA EvidencePreserved == ASSUME EvidenceInv, [Index!Next]_indexVars PROVE EvidenceInv'
<1>1. CASE UNCHANGED indexVars
  <2>1. UNCHANGED <<snow, store, memory, building, outdated, overtaken>>
    BY <1>1 DEF indexVars
  <2>2. EvidenceTypeOK' /\ Index!VectorsBelong'
    BY <2>1 DEF EvidenceInv, EvidenceTypeOK, Index!VectorsBelong
  <2>3. ASSUME NEW q \in Process PROVE BuildHolds(q)'
    BY <2>1, BuildStays DEF EvidenceInv
  <2>4. ASSUME NEW q \in Adviser, NEW kind \in Index!Kind PROVE CopyHolds(q, kind)'
    BY <2>1, CopyStays DEF EvidenceInv
  <2> QED BY <2>1, <2>2, <2>3, <2>4 DEF EvidenceInv
<1>2. CASE Index!Next
  BY <1>2, IndexStartInv, CompareInv, EmbedInv, EmbedFailsInv, WriteInv, WriteFailsInv,
     InvalidateInv,
     NothingPendingInv, IndexRestartInv, IndexLoadInv, SnowChangesInv DEF Index!Next
<1> QED BY <1>1, <1>2

LEMMA CopiesAreStore == ASSUME EvidenceInv PROVE Index!MemoryIsStore
BY DEF EvidenceInv, Index!MemoryIsStore, CopyHolds, Writing

\* With nothing waiting, what was fetched is written.
LEMMA ThroughIsCurrent ==
  ASSUME EvidenceInv, NEW p \in Process, Index!Invalidate(p) \/ Index!NothingPending(p), ~overtaken[p],
         NEW r \in building[p].records, r.noted
  PROVE  store[r.key].there /\ store[r.key].hash = r.text
<1>1. BuildHolds(p) /\ building[p].at \in {"embed", "invalidate"}
  BY BuildsType DEF Index!Invalidate, Index!NothingPending, Index!Embedded
<1>2. building[p].pending = <<>>
  BY <1>1 DEF Index!Invalidate, Index!NothingPending, BuildHolds
<1>3. Len(building[p].pending) = 0
  BY <1>2
<1> QED BY <1>1, <1>3 DEF BuildHolds, Written

-----------------------------------------------------------------------------
(* What is found.                                                            *)
\* What a search brings is near enough, not too much, and something if something is near.
LEMMA SearchFinds ==
  ASSUME NEW rows \in SUBSET RowRecord, RowsKeyed(rows), NEW text \in Text,
         NEW number, NEW found, found = Index!Search(rows, text, MinSimilarity)
  PROVE  /\ found \subseteq rows /\ IsFiniteSet(found) /\ Cardinality(found) <= TopK
         /\ \A r \in found : Near[text][r.vector] >= MinSimilarity
         /\ \A r \in rows : Near[text][r.vector] >= MinSimilarity =>
               r \in found \/ \E o \in found : o.key # number
<1> DEFINE score == [r \in rows |-> Near[text][r.vector]]
           N == Cardinality(rows)
           k == Index!AtMost(TopK, N)
           Best(s) == Cardinality(s) = k /\ \A r \in s, o \in rows \ s : score[r] >= score[o]
<1>0. IsFiniteSet(rows) /\ \A r, o \in rows : r.key = o.key => r = o
  BY DEF RowsKeyed
<1>1. score \in [rows -> Int]
  BY EvidenceAssumption DEF RowRecord
<1>2. N \in Nat /\ k \in Nat /\ k <= N /\ k <= TopK /\ TopK \in Nat /\ (N > 0 => k > 0) /\ (N > 1 => k > 1)
  BY <1>0, FS_CardinalityType, EvidenceAssumption DEF Index!AtMost
<1>3. \E s \in SUBSET rows : Best(s)
  <2> HIDE DEF score, k
  <2> QED BY <1>0, <1>1, <1>2, BestExist
<1>4. PICK best \in SUBSET rows :
         Best(best) /\ found = {r \in best : Near[text][r.vector] >= MinSimilarity}
  <2>1. ASSUME NEW s \in SUBSET rows
        PROVE  Best(s) <=> /\ Cardinality(s) = Index!AtMost(TopK, Cardinality(rows))
                           /\ \A r \in s, o \in rows \ s : Near[text][r.vector] >= Near[text][o.vector]
    OBVIOUS
  <2> DEFINE b == CHOOSE s \in SUBSET rows :
                     /\ Cardinality(s) = Index!AtMost(TopK, Cardinality(rows))
                     /\ \A r \in s, o \in rows \ s : Near[text][r.vector] >= Near[text][o.vector]
  <2>2. b \in SUBSET rows /\ Best(b)
    <3> HIDE DEF Best
    <3> QED BY <1>3, <2>1
  <2>3. found = {r \in b : Near[text][r.vector] >= MinSimilarity}
    BY CountOfIndex DEF Index!Search
  <2> QED BY <2>2, <2>3
<1>5. IsFiniteSet(best) /\ IsFiniteSet(found) /\ Cardinality(found) <= Cardinality(best)
      /\ Cardinality(found) \in Nat
  <2>1. IsFiniteSet(best)
    BY <1>0, FS_Subset
  <2>2. found \subseteq best
    BY <1>4
  <2> QED BY <2>1, <2>2, FS_Subset, FS_CardinalityType
<1>6. Cardinality(found) <= TopK
  <2>1. Cardinality(best) = k
    BY <1>4
  <2> HIDE DEF k
  <2> QED BY <1>2, <1>5, <2>1
<1>7. ASSUME NEW r \in rows, Near[text][r.vector] >= MinSimilarity, r \notin found
      PROVE  \E o \in found : o.key # number
  <2>1. r \notin best
    BY <1>4, <1>7
  <2>2. best \subseteq found
    <3> SUFFICES ASSUME NEW b \in best PROVE Near[text][b.vector] >= MinSimilarity
      BY <1>4
    <3>1. score[b] >= score[r]
      BY <1>4, <2>1
    <3>2. score[b] = Near[text][b.vector] /\ score[r] = Near[text][r.vector]
          /\ score[b] \in Int /\ score[r] \in Int /\ MinSimilarity \in Int
      BY <1>1, EvidenceAssumption
    <3> HIDE DEF score
    <3> QED BY <1>7, <3>1, <3>2
  <2>3. \E a, b \in best : a # b
    <3> SUFFICES ASSUME \A a, b \in best : a = b PROVE FALSE
      OBVIOUS
    <3> DEFINE c == best \cup {r}
    <3>1. IsFiniteSet(c) /\ Cardinality(c) = Cardinality(best) + 1
      BY <1>5, <2>1, FS_AddElement
    <3>2. c \subseteq rows /\ Cardinality(c) <= N
      BY <1>0, FS_Subset
    <3>3. Cardinality(best) = 0 \/ Cardinality(best) = 1
      <4>1. CASE best = {}
        BY <4>1, FS_EmptySet
      <4>2. CASE best # {}
        <5>1. PICK b \in best : best = {b}
          BY <4>2
        <5> QED BY <5>1, FS_Singleton
      <4> QED BY <4>1, <4>2
    <3>4. Cardinality(best) = k
      BY <1>4
    <3> HIDE DEF k, N, c
    <3> QED BY <1>2, <3>1, <3>2, <3>3, <3>4
  <2>4. PICK a, b \in best : a # b
    BY <2>3
  <2>5. a.key # b.key /\ a.key # r.key /\ b.key # r.key
    BY <1>0, <2>1, <2>4
  <2> QED BY <2>2, <2>4, <2>5
<1> QED BY <1>4, <1>5, <1>6, <1>7

\* What EvidenceFits says of the rows an adviser holds.
Fitting(rows, number, text) ==
    LET given == Index!SimilarIncidents(rows, number, text)
        near  == {r \in rows : Near[text][r.vector] >= MinSimilarity}
        own   == Index!SameCategory(near, text)
    IN  /\ given \subseteq {r \in near : r.key # number} /\ Cardinality(given) <= TopK
        /\ given \subseteq own \/ own = {}
        /\ \/ given # {} \/ \A r \in near : r.key = number
           \/ own # {} /\ \A r \in own : r.key = number

LEMMA RowsFit ==
  ASSUME NEW rows \in SUBSET RowRecord, RowsKeyed(rows), NEW number, NEW text \in Text
  PROVE  Fitting(rows, number, text)
<1> DEFINE given == Index!SimilarIncidents(rows, number, text)
           near == {r \in rows : Near[text][r.vector] >= MinSimilarity}
           own == Index!SameCategory(near, text)
<1> DEFINE same == Index!SameCategory(rows, text)
           scoped == Index!Search(same, text, MinSimilarity)
           all == Index!Search(rows, text, MinSimilarity)
           results == IF scoped = {} THEN all ELSE scoped
<1>2. same \in SUBSET RowRecord /\ RowsKeyed(same) /\ same \subseteq rows
  BY FS_Subset DEF Index!SameCategory, RowsKeyed
<1>3. given = {r \in results : r.key # number}
  BY DEF Index!SimilarIncidents
<1>4. /\ scoped \subseteq same /\ IsFiniteSet(scoped) /\ Cardinality(scoped) <= TopK
      /\ \A r \in scoped : Near[text][r.vector] >= MinSimilarity
      /\ \A r \in same : Near[text][r.vector] >= MinSimilarity =>
            r \in scoped \/ \E o \in scoped : o.key # number
  <2> HIDE DEF same
  <2> QED BY <1>2, SearchFinds
<1>5. /\ all \subseteq rows /\ IsFiniteSet(all) /\ Cardinality(all) <= TopK
      /\ \A r \in all : Near[text][r.vector] >= MinSimilarity
      /\ \A r \in rows : Near[text][r.vector] >= MinSimilarity =>
            r \in all \/ \E o \in all : o.key # number
  BY SearchFinds
<1>6. own = {r \in same : Near[text][r.vector] >= MinSimilarity} /\ own \subseteq near
  BY DEF Index!SameCategory
<1> HIDE DEF same, scoped, all
<1>7. results \subseteq near /\ IsFiniteSet(results) /\ Cardinality(results) <= TopK
  BY <1>2, <1>4, <1>5
<1>8. Cardinality(given) <= TopK
  <2>1. Cardinality(given) <= Cardinality(results) /\ Cardinality(given) \in Nat /\ Cardinality(results) \in Nat
    BY <1>3, <1>7, FS_Subset, FS_CardinalityType
  <2> HIDE DEF results
  <2> QED BY <1>7, <2>1, EvidenceAssumption
<1>9. given \subseteq own \/ own = {}
  <2>1. CASE scoped = {}
    BY <1>4, <1>6, <2>1
  <2>2. CASE scoped # {}
    BY <1>3, <1>4, <1>6, <2>2
  <2> QED BY <2>1, <2>2
<1>10. ASSUME given = {}, NEW x \in near, x.key # number
       PROVE  own # {} /\ \A r \in own : r.key = number
  <2>1. x \in rows /\ Near[text][x.vector] >= MinSimilarity
    OBVIOUS
  <2>2. \A r \in results : r.key = number
    BY <1>3, <1>10
  <2>3. scoped # {}
    BY <1>5, <1>10, <2>1, <2>2
  <2>4. scoped \subseteq own
    BY <1>4, <1>6
  <2>5. ASSUME NEW r \in own PROVE r.key = number
    BY <1>4, <1>6, <2>2, <2>3
  <2> QED BY <2>3, <2>4, <2>5
<1>11. given \subseteq {r \in near : r.key # number}
  BY <1>3, <1>7
<1>12. given # {} \/ (\A r \in near : r.key = number) \/ (own # {} /\ \A r \in own : r.key = number)
  BY <1>10
<1> QED BY <1>8, <1>9, <1>11, <1>12 DEF Fitting

LEMMA EvidenceFitting == ASSUME EvidenceInv PROVE Index!EvidenceFits
<1>1. ASSUME NEW p \in Adviser, NEW number \in Incident, NEW text \in Text
      PROVE  Fitting(memory[p]["incident"], number, text)
  <2>1. memory[p]["incident"] \in SUBSET RowRecord /\ RowsKeyed(memory[p]["incident"])
    BY Kinds DEF EvidenceInv, EvidenceTypeOK
  <2> QED BY <2>1, RowsFit
<1> QED BY <1>1, CountOfIndex DEF Index!EvidenceFits, Fitting

-----------------------------------------------------------------------------
(* Verdicts: what leads say of what is shown, and what is booked of an       *)
(* answer.                                                                   *)

AnswerState ==
    [at : {"rest"}] \cup [at : {"store"}, answer : Verdict!Answer]
    \cup [at : {"record"}, answer : Verdict!Answer, left : SUBSET Article, lost : BOOLEAN]

UseRow == [there : BOOLEAN, offered : BOOLEAN, cited : BOOLEAN,
           verdict : Ratings \cup {"UNRATED"}, day : Int]

VerdictTypeOK ==
    /\ today \in Int /\ kb \in [Input -> [Article -> UseRow]] /\ answering \in AnswerState
    /\ DOMAIN rec = Input /\ \A h \in Input : "live" \in DOMAIN rec[h]
    /\ DOMAIN booked = Input /\ DOMAIN page = Lead
    /\ \A h \in Input : booked[h].known => booked[h].offered \cup booked[h].cited \in SUBSET Article
    /\ newer \in [Lead -> BOOLEAN]
    /\ \E S : feedback \in Seq(S)

\* What an open page shows is in force until something newer is analysed.
PagesShow == \A u \in Lead : page[u] # Unseen /\ ~newer[u] => Verdict!Shown \in {page[u], NoInput}

\* An answer whose articles are being recorded is not booked yet, and of those recorded the
\* rows say what it did.
RecordedSoFar ==
    answering.at = "record" =>
        /\ ~booked[answering.answer.hash].known
        /\ ~answering.lost =>
              \A a \in (answering.answer.offered \cup answering.answer.cited) \ answering.left :
                 /\ kb[answering.answer.hash][a].offered <=> a \in answering.answer.offered
                 /\ kb[answering.answer.hash][a].cited <=> a \in answering.answer.cited

VerdictInv == VerdictTypeOK /\ PagesShow /\ Verdict!JudgedWasShown /\ RecordedSoFar /\ Verdict!CitationsBooked

\* The newest of the live recommendations is looked up in what is stored, and nowhere else.
LEMMA ShownStays == ASSUME rec' = rec PROVE Verdict!Shown' = Verdict!Shown
BY DEF Verdict!Shown, Verdict!LiveIds

LEMMA NothingShown == ASSUME \A h \in Input : ~rec[h].live PROVE Verdict!Shown = NoInput
BY DEF Verdict!Shown, Verdict!LiveIds

LEMMA AnAnswer ==
  ASSUME VerdictTypeOK, answering.at # "rest"
  PROVE  /\ answering.answer \in Verdict!Answer /\ answering.answer.hash \in Input
         /\ answering.answer.offered \in SUBSET Article /\ answering.answer.cited \in SUBSET Article
         /\ answering.at \in {"store", "record"}
         /\ answering.at = "record" => answering.left \in SUBSET Article /\ answering.lost \in BOOLEAN
BY DEF VerdictTypeOK, AnswerState, Verdict!Answer

LEMMA VerdictsStart == ASSUME Verdict!Init PROVE VerdictInv
<1>1. VerdictTypeOK
  <2>1. Verdict!NoUse \in UseRow
    BY DEF Verdict!NoUse, UseRow
  <2>2. feedback \in Seq({})
    BY DEF Verdict!Init
  <2>3. DOMAIN rec = Input /\ \A h \in Input : "live" \in DOMAIN rec[h]
    BY DEF Verdict!Init, Verdict!NoRec
  <2>4. DOMAIN booked = Input /\ \A h \in Input : ~booked[h].known
    BY DEF Verdict!Init, Verdict!Unknown
  <2>5. answering \in AnswerState
    BY DEF Verdict!Init, AnswerState, Verdict!AtRest
  <2>6. kb \in [Input -> [Article -> UseRow]] /\ today \in Int
    BY <2>1 DEF Verdict!Init
  <2>7. newer \in [Lead -> BOOLEAN] /\ DOMAIN page = Lead
    BY DEF Verdict!Init
  <2> QED BY <2>2, <2>3, <2>4, <2>5, <2>6, <2>7 DEF VerdictTypeOK
<1>2. PagesShow /\ Verdict!JudgedWasShown /\ RecordedSoFar /\ Verdict!CitationsBooked
  BY DEF Verdict!Init, PagesShow, Verdict!JudgedWasShown, RecordedSoFar, Verdict!CitationsBooked,
     Verdict!AtRest, Verdict!Unknown
<1> QED BY <1>1, <1>2 DEF VerdictInv

LEMMA VerdictSupersedeInv ==
  ASSUME VerdictInv, NEW a \in Verdict!Answer, Verdict!Supersede(a) PROVE VerdictInv'
<1>1. answering' \in AnswerState /\ answering'.at = "store"
  BY DEF Verdict!Supersede, AnswerState
<1>2. DOMAIN rec' = Input /\ \A h \in Input : ~rec'[h].live /\ "live" \in DOMAIN rec'[h]
  <2>1. ASSUME NEW h \in Input PROVE ~rec'[h].live /\ "live" \in DOMAIN rec'[h]
    <3>1. "live" \in DOMAIN rec[h]
      BY DEF VerdictInv, VerdictTypeOK
    <3>2. rec'[h] = [rec[h] EXCEPT !.live = FALSE]
      BY DEF Verdict!Supersede
    <3> QED BY <3>1, <3>2
  <2> QED BY <2>1 DEF Verdict!Supersede
<1>3. Verdict!Shown' = NoInput
  BY <1>2 DEF Verdict!Shown, Verdict!LiveIds
<1>4. VerdictTypeOK'
  <2>1. UNCHANGED <<today, kb, page, newer, feedback, booked>>
    BY DEF Verdict!Supersede
  <2> QED BY <1>1, <1>2, <2>1 DEF VerdictInv, VerdictTypeOK
<1>5. PagesShow'
  BY <1>3 DEF PagesShow
<1>6. RecordedSoFar'
  BY <1>1 DEF RecordedSoFar
<1>7. Verdict!JudgedWasShown' /\ Verdict!CitationsBooked'
  BY DEF Verdict!Supersede, VerdictInv, Verdict!JudgedWasShown, Verdict!CitationsBooked
<1> QED BY <1>4, <1>5, <1>6, <1>7 DEF VerdictInv

LEMMA VerdictStoreInv == ASSUME VerdictInv, Verdict!Store PROVE VerdictInv'
<1>1. answering.answer \in Verdict!Answer /\ answering.answer.hash \in Input
      /\ answering.answer.offered \cup answering.answer.cited \in SUBSET Article
  BY AnAnswer DEF Verdict!Store, VerdictInv
<1>2. answering' = [at |-> "record", answer |-> answering.answer,
              left |-> answering.answer.offered \cup answering.answer.cited, lost |-> FALSE]
  BY DEF Verdict!Store
<1>3. answering' \in AnswerState
  BY <1>1, <1>2 DEF AnswerState
<1>4. /\ DOMAIN rec' = Input /\ DOMAIN booked' = Input
      /\ \A h \in Input : "live" \in DOMAIN rec'[h]
      /\ booked'[answering.answer.hash] = Verdict!Unknown
      /\ \A h \in Input \ {answering.answer.hash} : booked'[h] = booked[h]
  BY <1>1 DEF Verdict!Store, VerdictInv, VerdictTypeOK
<1>5. newer' \in [Lead -> BOOLEAN] /\ \A u \in Lead : newer'[u]
  BY DEF Verdict!Store
<1>6. VerdictTypeOK'
  <2>1. UNCHANGED <<today, kb, page, feedback>>
    BY DEF Verdict!Store
  <2>2. \A h \in Input : booked'[h].known =>
                           booked'[h].offered \cup booked'[h].cited \in SUBSET Article
    BY <1>4 DEF VerdictInv, VerdictTypeOK, Verdict!Unknown
  <2> QED BY <1>3, <1>4, <1>5, <2>1, <2>2 DEF VerdictInv, VerdictTypeOK
<1>7. PagesShow'
  BY <1>5 DEF PagesShow
<1>8. RecordedSoFar'
  BY <1>2, <1>4 DEF RecordedSoFar, Verdict!Unknown
<1>9. Verdict!JudgedWasShown'
  BY DEF Verdict!Store, VerdictInv, Verdict!JudgedWasShown
<1>10. Verdict!CitationsBooked'
  BY <1>4 DEF Verdict!Store, VerdictInv, Verdict!CitationsBooked, Verdict!Unknown
<1> QED BY <1>6, <1>7, <1>8, <1>9, <1>10 DEF VerdictInv

\* A row is written over, and what a lead said of it stays.
LEMMA RecordedEffect ==
  ASSUME VerdictTypeOK, NEW a \in Article, answering.at = "record", Verdict!Recorded(a)
  PROVE  LET h == answering.answer.hash
         IN  /\ kb' \in [Input -> [Article -> UseRow]]
             /\ kb'[h][a].offered <=> a \in answering.answer.offered
             /\ kb'[h][a].cited <=> a \in answering.answer.cited
             /\ kb'[h][a].verdict = kb[h][a].verdict
             /\ \A g \in Input, b \in Article : g # h \/ b # a => kb'[g][b] = kb[g][b]
<1> DEFINE h == answering.answer.hash
           r == Verdict!Upsert(kb[h][a], a \in answering.answer.offered, a \in answering.answer.cited)
<1>1. h \in Input /\ kb \in [Input -> [Article -> UseRow]]
  BY AnAnswer DEF VerdictTypeOK
<1> DEFINE o == a \in answering.answer.offered
           c == a \in answering.answer.cited
<1>2. kb[h][a] \in UseRow
  BY <1>1
<1>3. r \in UseRow /\ (r.offered <=> a \in answering.answer.offered) /\ (r.cited <=> a \in answering.answer.cited)
      /\ r.verdict = kb[h][a].verdict
  <2>1. o \in BOOLEAN /\ c \in BOOLEAN /\ r = Verdict!Upsert(kb[h][a], o, c)
    OBVIOUS
  <2> HIDE DEF o, c, r
  <2>2. r = [kb[h][a] EXCEPT !.there = TRUE, !.offered = o, !.cited = c]
    BY <2>1 DEF Verdict!Upsert
  <2>3. r \in UseRow /\ r.offered = o /\ r.cited = c /\ r.verdict = kb[h][a].verdict
    BY <1>2, <2>1, <2>2 DEF UseRow
  <2> QED BY <2>3 DEF o, c
<1>4. kb' = [kb EXCEPT ![h][a] = r]
  BY DEF Verdict!Recorded
<1> HIDE DEF r, h
<1>5. kb' \in [Input -> [Article -> UseRow]] /\ kb'[h][a] = r
      /\ \A g \in Input, b \in Article : g # h \/ b # a => kb'[g][b] = kb[g][b]
  BY <1>1, <1>3, <1>4
<1> QED BY <1>3, <1>5 DEF h

LEMMA VerdictRecordInv ==
  ASSUME VerdictInv, NEW a \in Article, Verdict!Record(a) PROVE VerdictInv'
<1> DEFINE h == answering.answer.hash
<1>1. /\ answering.at = "record" /\ h \in Input /\ answering.answer \in Verdict!Answer
      /\ answering.left \in SUBSET Article /\ answering.lost \in BOOLEAN
  BY AnAnswer DEF Verdict!Record, Verdict!Turn, VerdictInv
<1>2. answering' = [answering EXCEPT !.left = answering.left \ {a}]
  BY DEF Verdict!Record
<1>3. /\ answering' \in AnswerState /\ answering'.at = "record" /\ answering'.answer = answering.answer
      /\ answering'.left = answering.left \ {a} /\ answering'.lost = answering.lost
  BY <1>1, <1>2 DEF VerdictInv, VerdictTypeOK, AnswerState
<1>4. /\ kb' \in [Input -> [Article -> UseRow]]
      /\ kb'[h][a].offered <=> a \in answering.answer.offered
      /\ kb'[h][a].cited <=> a \in answering.answer.cited
      /\ \A g \in Input, b \in Article : g # h \/ b # a => kb'[g][b] = kb[g][b]
  BY <1>1, RecordedEffect DEF Verdict!Record, VerdictInv
<1>5. VerdictTypeOK'
  BY <1>3, <1>4 DEF Verdict!Record, VerdictInv, VerdictTypeOK
<1>6. PagesShow' /\ Verdict!JudgedWasShown'
  BY ShownStays DEF Verdict!Record, VerdictInv, PagesShow, Verdict!JudgedWasShown
<1>7. RecordedSoFar'
  <2>1. ~booked'[answering'.answer.hash].known
    BY <1>1, <1>3 DEF Verdict!Record, VerdictInv, RecordedSoFar
  <2>2. ASSUME ~answering'.lost, NEW b \in (answering.answer.offered \cup answering.answer.cited) \ answering'.left
        PROVE  /\ kb'[h][b].offered <=> b \in answering.answer.offered
               /\ kb'[h][b].cited <=> b \in answering.answer.cited
    <3>1. CASE b = a
      BY <1>4, <3>1
    <3>2. CASE b # a
      <4>1. b \in Article
        BY <1>1 DEF Verdict!Answer
      <4>2. kb'[h][b] = kb[h][b]
        BY <1>1, <1>4, <3>2, <4>1
      <4> QED BY <1>1, <1>3, <2>2, <3>2, <4>2 DEF VerdictInv, RecordedSoFar
    <3> QED BY <3>1, <3>2
  <2> QED BY <1>3, <2>1, <2>2 DEF RecordedSoFar
<1>8. Verdict!CitationsBooked'
  <2> SUFFICES ASSUME NEW g \in Input, booked[g].known, NEW b \in booked[g].offered \cup booked[g].cited
               PROVE  /\ kb'[g][b].offered <=> b \in booked[g].offered
                      /\ kb'[g][b].cited <=> b \in booked[g].cited
    BY DEF Verdict!CitationsBooked, Verdict!Record
  <2>1. g # h
    BY <1>1 DEF VerdictInv, RecordedSoFar
  <2>2. kb'[g] = kb[g]
    BY <1>1, <2>1 DEF Verdict!Record, Verdict!Recorded, VerdictInv, VerdictTypeOK
  <2> QED BY <2>2 DEF VerdictInv, Verdict!CitationsBooked
<1> QED BY <1>5, <1>6, <1>7, <1>8 DEF VerdictInv

LEMMA RecordFailsInv ==
  ASSUME VerdictInv, NEW a \in Article, Verdict!RecordFails(a) PROVE VerdictInv'
<1>1. /\ answering.at = "record" /\ answering.answer \in Verdict!Answer /\ answering.left \in SUBSET Article
  BY AnAnswer DEF Verdict!RecordFails, Verdict!Turn, VerdictInv
<1>2. answering' = [answering EXCEPT !.left = answering.left \ {a}, !.lost = TRUE]
  BY DEF Verdict!RecordFails
<1>3. answering' \in AnswerState /\ answering'.answer = answering.answer /\ answering'.lost
  BY <1>1, <1>2 DEF VerdictInv, VerdictTypeOK, AnswerState
<1>4. VerdictTypeOK'
  BY <1>3 DEF Verdict!RecordFails, VerdictInv, VerdictTypeOK
<1>5. PagesShow' /\ Verdict!JudgedWasShown'
  BY ShownStays DEF Verdict!RecordFails, VerdictInv, PagesShow, Verdict!JudgedWasShown
<1>6. RecordedSoFar'
  BY <1>1, <1>3 DEF Verdict!RecordFails, VerdictInv, RecordedSoFar
<1>7. Verdict!CitationsBooked'
  BY DEF Verdict!RecordFails, VerdictInv, Verdict!CitationsBooked
<1> QED BY <1>4, <1>5, <1>6, <1>7 DEF VerdictInv

LEMMA AnswerDoneInv == ASSUME VerdictInv, Verdict!AnswerDone PROVE VerdictInv'
<1> DEFINE h == answering.answer.hash
<1>1. /\ answering.at = "record" /\ h \in Input /\ answering.left = {} /\ answering.lost \in BOOLEAN
      /\ answering.answer.offered \cup answering.answer.cited \in SUBSET Article
  BY AnAnswer DEF Verdict!AnswerDone, VerdictInv
<1>2. answering' \in AnswerState /\ answering'.at = "rest"
  BY DEF Verdict!AnswerDone, Verdict!AtRest, AnswerState
<1>3. DOMAIN booked' = Input
  BY DEF Verdict!AnswerDone, VerdictInv, VerdictTypeOK
<1>4. VerdictTypeOK'
  <2>1. UNCHANGED <<today, kb, rec, page, newer, feedback>>
    BY DEF Verdict!AnswerDone
  <2>2. ASSUME NEW g \in Input, booked'[g].known
        PROVE  booked'[g].offered \cup booked'[g].cited \in SUBSET Article
    BY <1>1, <2>2 DEF Verdict!AnswerDone, VerdictInv, VerdictTypeOK
  <2> QED BY <1>2, <1>3, <2>1, <2>2 DEF VerdictInv, VerdictTypeOK
<1>5. PagesShow' /\ Verdict!JudgedWasShown'
  BY ShownStays DEF Verdict!AnswerDone, VerdictInv, PagesShow, Verdict!JudgedWasShown
<1>6. RecordedSoFar'
  BY <1>2 DEF RecordedSoFar
<1>7. Verdict!CitationsBooked'
  <2>1. CASE answering.lost
    BY <2>1 DEF Verdict!AnswerDone, VerdictInv, Verdict!CitationsBooked
  <2>2. CASE ~answering.lost
    <3>1. booked' = [booked EXCEPT ![h] = [known |-> TRUE, offered |-> answering.answer.offered,
                                           cited |-> answering.answer.cited]]
      BY <2>2 DEF Verdict!AnswerDone
    <3>2. /\ booked'[h] = [known |-> TRUE, offered |-> answering.answer.offered, cited |-> answering.answer.cited]
          /\ \A g \in Input \ {h} : booked'[g] = booked[g]
      BY <1>1, <3>1 DEF VerdictInv, VerdictTypeOK
    <3>3. \A a \in answering.answer.offered \cup answering.answer.cited :
             /\ kb[h][a].offered <=> a \in answering.answer.offered
             /\ kb[h][a].cited <=> a \in answering.answer.cited
      BY <1>1, <2>2 DEF VerdictInv, RecordedSoFar
    <3>4. kb' = kb
      BY DEF Verdict!AnswerDone
    <3>5. ASSUME NEW g \in Input, booked'[g].known, NEW b \in booked'[g].offered \cup booked'[g].cited
          PROVE  /\ kb'[g][b].offered <=> b \in booked'[g].offered
                 /\ kb'[g][b].cited <=> b \in booked'[g].cited
      <4>1. CASE g = h
        BY <3>2, <3>3, <3>4, <3>5, <4>1
      <4>2. CASE g # h
        BY <3>2, <3>4, <3>5, <4>2 DEF VerdictInv, Verdict!CitationsBooked
      <4> QED BY <4>1, <4>2
    <3> QED BY <3>5 DEF Verdict!CitationsBooked
  <2> QED BY <1>1, <2>1, <2>2
<1> QED BY <1>4, <1>5, <1>6, <1>7 DEF VerdictInv

LEMMA OpenInv == ASSUME VerdictInv, NEW u \in Lead, Verdict!Open(u) PROVE VerdictInv'
<1>1. /\ DOMAIN page' = Lead /\ newer' \in [Lead -> BOOLEAN]
      /\ page'[u] = Verdict!Shown /\ \A v \in Lead \ {u} : page'[v] = page[v] /\ newer'[v] = newer[v]
  BY DEF Verdict!Open, VerdictInv, VerdictTypeOK
<1>2. Verdict!Shown' = Verdict!Shown
  BY ShownStays DEF Verdict!Open
<1>3. VerdictTypeOK'
  BY <1>1 DEF Verdict!Open, VerdictInv, VerdictTypeOK
<1>4. PagesShow'
  BY <1>1, <1>2 DEF VerdictInv, PagesShow
<1>5. Verdict!JudgedWasShown' /\ RecordedSoFar' /\ Verdict!CitationsBooked'
  BY DEF Verdict!Open, VerdictInv, Verdict!JudgedWasShown, RecordedSoFar, Verdict!CitationsBooked
<1> QED BY <1>3, <1>4, <1>5 DEF VerdictInv

LEMMA JudgeInv ==
  ASSUME VerdictInv, NEW u \in Lead, NEW d \in Given, Verdict!Judge(u, d)
  PROVE  VerdictInv'
<1> DEFINE f == [on |-> Verdict!InForce, by |-> u, decision |-> d, day |-> today,
                 seen |-> page[u], newer |-> newer[u]]
<1>1. /\ DOMAIN page' = Lead /\ page'[u] = Unseen
      /\ \A v \in Lead \ {u} : page'[v] = page[v]
  BY DEF Verdict!Judge, VerdictInv, VerdictTypeOK
<1>2. PICK S : feedback \in Seq(S)
  BY DEF VerdictInv, VerdictTypeOK
<1>3. feedback' = Append(feedback, f) /\ f.on = Verdict!Shown /\ f.seen = page[u] /\ f.newer = newer[u]
  BY DEF Verdict!Judge, Verdict!InForce
<1>4. page[u] # Unseen
  BY DEF Verdict!Judge
<1> HIDE DEF f
<1>5. /\ feedback' \in Seq(S \cup {f}) /\ Len(feedback') = Len(feedback) + 1
      /\ \A i \in 1..Len(feedback) : feedback'[i] = feedback[i]
      /\ feedback'[Len(feedback) + 1] = f
      /\ Len(feedback) \in Nat
  <2>1. feedback \in Seq(S \cup {f})
    BY <1>2
  <2> QED BY <1>3, <2>1
<1>6. VerdictTypeOK'
  BY <1>1, <1>5 DEF Verdict!Judge, VerdictInv, VerdictTypeOK
<1>7. PagesShow'
  BY <1>1, ShownStays DEF Verdict!Judge, VerdictInv, PagesShow
<1>8. Verdict!JudgedWasShown'
  <2> SUFFICES ASSUME NEW i \in DOMAIN feedback', ~feedback'[i].newer
               PROVE  feedback'[i].on \in {feedback'[i].seen, NoInput}
    BY DEF Verdict!JudgedWasShown
  <2>1. i \in 1..Len(feedback) \/ i = Len(feedback) + 1
    BY <1>5
  <2>2. CASE i \in 1..Len(feedback)
    <3>1. i \in DOMAIN feedback
      BY <1>2, <2>2
    <3> QED BY <1>5, <2>2, <3>1 DEF VerdictInv, Verdict!JudgedWasShown
  <2>3. CASE i = Len(feedback) + 1
    BY <1>3, <1>4, <1>5, <2>3 DEF VerdictInv, PagesShow
  <2> QED BY <2>1, <2>2, <2>3
<1>9. RecordedSoFar' /\ Verdict!CitationsBooked'
  BY DEF Verdict!Judge, VerdictInv, RecordedSoFar, Verdict!CitationsBooked
<1> QED BY <1>6, <1>7, <1>8, <1>9 DEF VerdictInv

LEMMA RateInv ==
  ASSUME VerdictInv, NEW u \in Lead, NEW x \in Article, NEW v \in Ratings, Verdict!Rate(u, x, v)
  PROVE  VerdictInv'
<1>1. \A h \in Input, a \in Article : kb[h][a] \in UseRow
  BY DEF VerdictInv, VerdictTypeOK
<1>2. ASSUME NEW h \in Input, NEW a \in Article
      PROVE  /\ kb'[h][a] \in UseRow
             /\ kb'[h][a].offered = kb[h][a].offered /\ kb'[h][a].cited = kb[h][a].cited
  <2> DEFINE r == [kb[h][a] EXCEPT !.verdict = v, !.day = today]
  <2>0. kb[h][a] \in UseRow /\ today \in Int
    BY <1>1 DEF VerdictInv, VerdictTypeOK
  <2>1. r \in UseRow /\ r.offered = kb[h][a].offered /\ r.cited = kb[h][a].cited
    BY <2>0 DEF UseRow
  <2>2. kb'[h][a] \in {r, kb[h][a]}
    <3>1. DOMAIN kb[h] = Article
      BY DEF VerdictInv, VerdictTypeOK
    <3>2. kb'[h] = [kb[h] EXCEPT ![x] = IF h \in Verdict!Ratable(x)
                                        THEN [kb[h][x] EXCEPT !.verdict = v, !.day = today] ELSE kb[h][x]]
      BY DEF Verdict!Rate
    <3> QED BY <3>1, <3>2
  <2> HIDE DEF r
  <2> QED BY <1>1, <2>1, <2>2
<1>3. kb' \in [Input -> [Article -> UseRow]]
  <2>1. ASSUME NEW h \in Input PROVE kb'[h] \in [Article -> UseRow]
    <3>1. DOMAIN kb'[h] = Article
      BY DEF Verdict!Rate, VerdictInv, VerdictTypeOK
    <3>2. \E z \in [Article -> UseRow] : kb'[h] = z
      <4>1. kb'[h] = [a \in Article |-> kb'[h][a]]
        BY DEF Verdict!Rate, VerdictInv, VerdictTypeOK
      <4> QED BY <1>2, <4>1
    <3> QED BY <3>2
  <2>2. kb' = [h \in Input |-> kb'[h]]
    BY DEF Verdict!Rate
  <2> QED BY <2>1, <2>2
<1>4. VerdictTypeOK'
  BY <1>3 DEF Verdict!Rate, VerdictInv, VerdictTypeOK
<1>5. PagesShow' /\ Verdict!JudgedWasShown'
  BY ShownStays DEF Verdict!Rate, VerdictInv, PagesShow, Verdict!JudgedWasShown
<1>6. RecordedSoFar'
  <2>1. answering.at = "record" => /\ answering.answer.hash \in Input
                             /\ answering.answer.offered \cup answering.answer.cited \in SUBSET Article
    BY AnAnswer DEF VerdictInv
  <2>2. UNCHANGED <<answering, booked>>
    BY DEF Verdict!Rate
  <2>3. \A h \in Input, a \in Article :
           kb'[h][a].offered = kb[h][a].offered /\ kb'[h][a].cited = kb[h][a].cited
    BY <1>2
  <2>4. ASSUME answering.at = "record", ~answering.lost,
               NEW a \in (answering.answer.offered \cup answering.answer.cited) \ answering.left
        PROVE  /\ kb'[answering.answer.hash][a].offered <=> a \in answering.answer.offered
               /\ kb'[answering.answer.hash][a].cited <=> a \in answering.answer.cited
    BY <2>1, <2>3, <2>4 DEF VerdictInv, RecordedSoFar
  <2> QED BY <2>2, <2>4 DEF VerdictInv, RecordedSoFar
<1>7. Verdict!CitationsBooked'
  <2>1. booked' = booked
    BY DEF Verdict!Rate
  <2> SUFFICES ASSUME NEW h \in Input, booked[h].known, NEW a \in booked[h].offered \cup booked[h].cited
               PROVE  /\ kb'[h][a].offered <=> a \in booked[h].offered
                      /\ kb'[h][a].cited <=> a \in booked[h].cited
    BY <2>1 DEF Verdict!CitationsBooked
  <2>2. a \in Article
    BY DEF VerdictInv, VerdictTypeOK
  <2> QED BY <1>2, <2>2 DEF VerdictInv, Verdict!CitationsBooked
<1> QED BY <1>4, <1>5, <1>6, <1>7 DEF VerdictInv


LEMMA VerdictsPreserved == ASSUME VerdictInv, [Verdict!Next]_verdictVars PROVE VerdictInv'
<1>1. CASE UNCHANGED verdictVars
  BY <1>1, ShownStays DEF verdictVars, VerdictInv, VerdictTypeOK, PagesShow,
     Verdict!JudgedWasShown, RecordedSoFar,
                          Verdict!CitationsBooked
<1>2. ASSUME NEW u \in Lead, Verdict!SnoozeJudged(u) PROVE VerdictInv'
  BY <1>2, ShownStays DEF Verdict!SnoozeJudged, VerdictInv, VerdictTypeOK, PagesShow,
     Verdict!JudgedWasShown,
                          RecordedSoFar, Verdict!CitationsBooked
<1>3. CASE Verdict!NextDay
  BY <1>3, ShownStays DEF Verdict!NextDay, VerdictInv, VerdictTypeOK, PagesShow,
     Verdict!JudgedWasShown,
                          RecordedSoFar, Verdict!CitationsBooked
<1>4. CASE Verdict!Restart
  <2>1. answering' \in AnswerState /\ answering'.at = "rest"
    BY <1>4 DEF Verdict!Restart, Verdict!AtRest, AnswerState
  <2>2. \A u \in Lead : page'[u] = Unseen
    BY <1>4 DEF Verdict!Restart
  <2>3. VerdictTypeOK'
    BY <1>4, <2>1 DEF Verdict!Restart, VerdictInv, VerdictTypeOK
  <2> QED BY <1>4, <2>1, <2>2, <2>3
          DEF Verdict!Restart, VerdictInv, PagesShow, Verdict!JudgedWasShown, RecordedSoFar,
              Verdict!CitationsBooked
<1> QED BY <1>1, <1>2, <1>3, <1>4, VerdictSupersedeInv, VerdictStoreInv, VerdictRecordInv,
           RecordFailsInv, AnswerDoneInv,
           OpenInv, JudgeInv, RateInv DEF Verdict!Next

\* The tables are counted by both in the same way.
LEMMA ReportsAlike == Verdict!ReportsAgree
BY DEF Verdict!ReportsAgree, Verdict!Accuracy, Verdict!Quality, Verdict!Knowledge,
   Verdict!RatingsToAccount, Verdict!Relevant, Verdict!Count

LEMMA RatingsKept ==
  ASSUME VerdictInv, Verdict!Next, NEW h \in Input, NEW a \in Article, kb'[h][a].verdict # kb[h][a].verdict
  PROVE  \E u \in Lead, v \in Ratings : Verdict!Rate(u, a, v)
<1>1. kb' # kb
  OBVIOUS
<1>2. ASSUME NEW b \in Article, Verdict!Record(b) PROVE FALSE
  <2>1. answering.at = "record" /\ Verdict!Recorded(b)
    BY <1>2 DEF Verdict!Record, Verdict!Turn
  <2>2. CASE h = answering.answer.hash /\ a = b
    BY <2>1, <2>2, RecordedEffect DEF VerdictInv
  <2>3. CASE ~(h = answering.answer.hash /\ a = b)
    BY <2>1, <2>3, RecordedEffect DEF VerdictInv
  <2> QED BY <2>2, <2>3
<1>3. PICK u \in Lead, b \in Article, v \in Ratings : Verdict!Rate(u, b, v)
  BY <1>1, <1>2 DEF Verdict!Next, Verdict!Supersede, Verdict!Store, Verdict!AnswerDone,
     Verdict!RecordFails, Verdict!Open, Verdict!SnoozeJudged, Verdict!Judge,
                    Verdict!Restart, Verdict!NextDay
<1>4. b = a
  <2>1. kb'[h] = [kb[h] EXCEPT ![b] = IF h \in Verdict!Ratable(b)
                                      THEN [kb[h][b] EXCEPT !.verdict = v, !.day = today] ELSE kb[h][b]]
    BY <1>3 DEF Verdict!Rate
  <2>2. DOMAIN kb[h] = Article
    BY DEF VerdictInv, VerdictTypeOK
  <2> QED BY <2>1, <2>2
<1> QED BY <1>3, <1>4

-----------------
(* What leaves for the model: the redactor.                                  *)

Labels == {Pattern[n].label : n \in DOMAIN Pattern} \cup {"SECRET"}

\* A redactor that has met words of W only.
Redactor(W) == Seq([label : Labels, value : W])

Met(r) == {r[i].value : i \in DOMAIN r}

\* A text of words of W.
IsText(text, W) ==
    /\ IsSequence(text)
    /\ \A i \in DOMAIN text : text[i].word \in W /\ text[i].keyed \in BOOLEAN

LEMMA SequenceIs ==
  ASSUME NEW s, IsSequence(s)
  PROVE  Len(s) \in Nat /\ DOMAIN s = 1..Len(s)
BY DEF IsSequence

LEMMA NamedIs ==
  ASSUME NEW W, NEW r \in Redactor(W), NEW label \in Labels, NEW word \in W
  PROVE  /\ Model!Named(r, label, word) \in Redactor(W)
         /\ Met(Model!Named(r, label, word)) = Met(r) \cup {word}
<1>1. CASE Model!Met(r, word) # {}
  BY <1>1 DEF Model!Named, Model!Met, Met
<1>2. CASE Model!Met(r, word) = {}
  <2> DEFINE e == [label |-> label, value |-> word]
             s == Append(r, e)
  <2>1. e \in [label : Labels, value : W] /\ e.value = word
    OBVIOUS
  <2>2. Model!Named(r, label, word) = s
    BY <1>2 DEF Model!Named
  <2> HIDE DEF e
  <2>3. s \in Redactor(W)
    BY <2>1 DEF Redactor
  <2>4. /\ DOMAIN r = 1..Len(r) /\ DOMAIN s = 1..(Len(r) + 1) /\ Len(r) \in Nat
        /\ s[Len(r) + 1] = e /\ \A i \in 1..Len(r) : s[i] = r[i]
    BY <2>1 DEF Redactor
  <2> HIDE DEF s
  <2>5. Met(s) = Met(r) \cup {word}
    <3>1. ASSUME NEW v \in Met(s) PROVE v \in Met(r) \cup {word}
      BY <2>1, <2>4, <3>1 DEF Met
    <3>2. Met(r) \subseteq Met(s)
      BY <2>4 DEF Met
    <3>3. word \in Met(s)
      BY <2>1, <2>4 DEF Met
    <3> QED BY <3>1, <3>2, <3>3
  <2> QED BY <2>2, <2>3, <2>5
<1> QED BY <1>1, <1>2

-----------------------------------------------------------------------------
(* ... and its folds, step by step.                                          *)

LEMMA SecretsFold ==
  ASSUME NEW W, NEW r \in Redactor(W), NEW text, IsText(text, W)
  PROVE  \E f \in [0..Len(text) -> Redactor(W)] :
            /\ f[0] = r /\ f[Len(text)] = Model!Secrets(r, text)
            /\ \A k \in 0..(Len(text) - 1) :
                  f[k + 1] = IF text[k + 1].keyed
                             THEN Model!Named(f[k], "SECRET", text[k + 1].word) ELSE f[k]
<1> DEFINE n == Len(text)
           R == Redactor(W)
           step == [p \in R \X (1..n) |->
                      IF text[p[2]].keyed
                      THEN Model!Named(p[1], "SECRET", text[p[2]].word) ELSE p[1]]
           Folds(h) == h = [s \in SUBSET DOMAIN text |->
                              IF s = {} THEN r
                              ELSE IF text[Largest(s)].keyed
                                   THEN Model!Named(h[s \ {Largest(s)}], "SECRET", text[Largest(s)].word)
                                   ELSE h[s \ {Largest(s)}]]
           h == CHOOSE h : Folds(h)
<1>1. n \in Nat /\ DOMAIN text = 1..n /\ \A i \in 1..n : text[i].word \in W
  BY SequenceIs DEF IsText
<1>2. step \in [R \X (1..n) -> R]
  BY <1>1, NamedIs DEF Labels
<1>3. \A x \in R, i \in 1..n :
         step[<<x, i>>] = IF text[i].keyed THEN Model!Named(x, "SECRET", text[i].word) ELSE x
  OBVIOUS
<1>4. \A s \in SUBSET (1..n) : s # {} => Largest(s) \in 1..n /\ s \ {Largest(s)} \in SUBSET (1..n)
  BY <1>1, LargestIn
<1> HIDE DEF step, n, R
<1>5. r \in R
  BY DEF R
<1>6. PICK g \in [SUBSET (1..n) -> R] : Runs(r, step, n, g)
  BY <1>1, <1>2, <1>5, RunsExist
<1>7. Folds(g)
  <2>1. ASSUME NEW s \in SUBSET (1..n), s # {}
        PROVE  g[s] = IF text[Largest(s)].keyed
                      THEN Model!Named(g[s \ {Largest(s)}], "SECRET", text[Largest(s)].word)
                      ELSE g[s \ {Largest(s)}]
    BY <1>3, <1>4, <1>6, <2>1 DEF Runs
  <2>2. g = [s \in SUBSET (1..n) |-> g[s]] /\ g[{}] = r
    BY <1>6 DEF Runs
  <2> QED BY <1>1, <2>1, <2>2
<1>8. Folds(h)
  <2> HIDE DEF Folds
  <2> QED BY <1>7
<1>9. Model!Secrets(r, text) = h[1..n]
  BY <1>1 DEF Model!Secrets, Model!FoldLeft, Model!MapThenFoldSet, Model!Max, Largest
<1> HIDE DEF h
<1>10. Takes(r, step, n, R, h)
  BY <1>1, <1>3, <1>4, <1>8 DEF Takes
<1> HIDE DEF Folds
<1>a. n \in Nat
  BY <1>1
<1>b. InSteps(r, step, n, R, h[1..n])
  BY <1>a, <1>2, <1>5, <1>10, RunSteps
<1>11. PICK f \in [0..n -> R] : /\ f[0] = r /\ f[n] = h[1..n]
                                /\ \A k \in 0..(n - 1) : f[k + 1] = step[<<f[k], k + 1>>]
  BY <1>b DEF InSteps
<1>12. ASSUME NEW k \in 0..(n - 1)
       PROVE  f[k + 1] = IF text[k + 1].keyed
                         THEN Model!Named(f[k], "SECRET", text[k + 1].word) ELSE f[k]
  <2>1. f[k] \in R /\ k + 1 \in 1..n
    BY <1>1, <1>11
  <2> QED BY <1>3, <1>11, <2>1
<1> QED BY <1>9, <1>11, <1>12 DEF n, R

LEMMA SecretsIs ==
  ASSUME NEW W, NEW r \in Redactor(W), NEW text, IsText(text, W)
  PROVE  /\ Model!Secrets(r, text) \in Redactor(W) /\ Met(r) \subseteq Met(Model!Secrets(r, text))
         /\ \A i \in DOMAIN text : text[i].keyed => text[i].word \in Met(Model!Secrets(r, text))
<1> DEFINE n == Len(text)
           R == Redactor(W)
           found == Model!Secrets(r, text)
<1>1. n \in Nat /\ DOMAIN text = 1..n /\ \A i \in 1..n : text[i].word \in W
  BY SequenceIs DEF IsText
<1>2. PICK f \in [0..n -> R] :
         /\ f[0] = r /\ f[n] = found
         /\ \A k \in 0..(n - 1) :
               f[k + 1] = IF text[k + 1].keyed
                          THEN Model!Named(f[k], "SECRET", text[k + 1].word) ELSE f[k]
  BY SecretsFold
<1>3. ASSUME NEW k \in 0..(n - 1)
      PROVE  /\ Met(f[k]) \subseteq Met(f[k + 1])
             /\ text[k + 1].keyed => text[k + 1].word \in Met(f[k + 1])
  <2>1. f[k] \in R /\ k + 1 \in 1..n
    BY <1>1, <1>2
  <2>2. text[k + 1].word \in W /\ "SECRET" \in Labels
    BY <1>1, <2>1 DEF Labels
  <2>3. Met(Model!Named(f[k], "SECRET", text[k + 1].word)) = Met(f[k]) \cup {text[k + 1].word}
    BY <2>1, <2>2, NamedIs
  <2>4. f[k + 1] = IF text[k + 1].keyed
                   THEN Model!Named(f[k], "SECRET", text[k + 1].word) ELSE f[k]
    BY <1>2
  <2> QED BY <2>3, <2>4
<1> DEFINE Held(k) == /\ Met(r) \subseteq Met(f[k])
                      /\ \A i \in 1..k : text[i].keyed => text[i].word \in Met(f[k])
           K == {k \in 0..n : Held(k)}
<1>4. 0 \in K
  BY <1>1, <1>2
<1>5. ASSUME NEW k \in K, k < n PROVE k + 1 \in K
  <2>1. k \in 0..n /\ Held(k)
    OBVIOUS
  <2>2. k \in 0..(n - 1) /\ k + 1 \in 0..n /\ \A i \in 1..(k + 1) : i \in 1..k \/ i = k + 1
    BY <1>1, <1>5, <2>1
  <2>3. Held(k + 1)
    BY <1>3, <2>1, <2>2
  <2> QED BY <2>2, <2>3
<1> HIDE DEF K, n
<1>6. n \in K
  BY <1>1, <1>4, <1>5, InductionUpTo
<1>7. Held(n)
  BY <1>6 DEF K
<1>8. found \in R
  BY <1>1, <1>2
<1> QED BY <1>1, <1>2, <1>7, <1>8

\* A word a pattern finds.
Matches(w, p) == ~w.keyed /\ w.word \in Pattern[p].words

LEMMA MatchingFold ==
  ASSUME NEW W, NEW r \in Redactor(W), NEW text, IsText(text, W), NEW p \in DOMAIN Pattern
  PROVE  \E f \in [0..Len(text) -> Redactor(W)] :
            /\ f[0] = r /\ f[Len(text)] = Model!Matching(r, text, Pattern[p])
            /\ \A k \in 0..(Len(text) - 1) :
                  f[k + 1] = IF Matches(text[k + 1], p)
                             THEN Model!Named(f[k], Pattern[p].label, text[k + 1].word) ELSE f[k]
<1> DEFINE n == Len(text)
           R == Redactor(W)
           step == [q \in R \X (1..n) |->
                      IF Matches(text[q[2]], p)
                      THEN Model!Named(q[1], Pattern[p].label, text[q[2]].word) ELSE q[1]]
           Folds(h) == h = [s \in SUBSET DOMAIN text |->
                              IF s = {} THEN r
                              ELSE IF Matches(text[Largest(s)], p)
                                   THEN Model!Named(h[s \ {Largest(s)}], Pattern[p].label, text[Largest(s)].word)
                                   ELSE h[s \ {Largest(s)}]]
           h == CHOOSE h : Folds(h)
<1>a. Pattern[p].label \in Labels
  BY DEF Labels
<1>1. n \in Nat /\ DOMAIN text = 1..n /\ \A i \in 1..n : text[i].word \in W
  BY SequenceIs DEF IsText
<1>2. step \in [R \X (1..n) -> R]
  BY <1>a, <1>1, NamedIs
<1>3. \A x \in R, i \in 1..n :
         step[<<x, i>>] = IF Matches(text[i], p) THEN Model!Named(x, Pattern[p].label, text[i].word) ELSE x
  OBVIOUS
<1>4. \A s \in SUBSET (1..n) : s # {} => Largest(s) \in 1..n /\ s \ {Largest(s)} \in SUBSET (1..n)
  BY <1>1, LargestIn
<1> HIDE DEF step, n, R
<1>5. r \in R
  BY DEF R
<1>6. PICK g \in [SUBSET (1..n) -> R] : Runs(r, step, n, g)
  BY <1>1, <1>2, <1>5, RunsExist
<1>7. Folds(g)
  <2>1. ASSUME NEW s \in SUBSET (1..n), s # {}
        PROVE  g[s] = IF Matches(text[Largest(s)], p)
                      THEN Model!Named(g[s \ {Largest(s)}], Pattern[p].label, text[Largest(s)].word)
                      ELSE g[s \ {Largest(s)}]
    BY <1>3, <1>4, <1>6, <2>1 DEF Runs
  <2>2. g = [s \in SUBSET (1..n) |-> g[s]] /\ g[{}] = r
    BY <1>6 DEF Runs
  <2> QED BY <1>1, <2>1, <2>2
<1>8. Folds(h)
  <2> HIDE DEF Folds
  <2> QED BY <1>7
<1>9. Model!Matching(r, text, Pattern[p]) = h[1..n]
  BY <1>1 DEF Model!Matching, Model!FoldLeft, Model!MapThenFoldSet, Model!Max, Largest, Matches
<1> HIDE DEF h
<1>10. Takes(r, step, n, R, h)
  BY <1>1, <1>3, <1>4, <1>8 DEF Takes
<1> HIDE DEF Folds
<1>b. n \in Nat
  BY <1>1
<1>c. InSteps(r, step, n, R, h[1..n])
  BY <1>b, <1>2, <1>5, <1>10, RunSteps
<1>11. PICK f \in [0..n -> R] : /\ f[0] = r /\ f[n] = h[1..n]
                                /\ \A k \in 0..(n - 1) : f[k + 1] = step[<<f[k], k + 1>>]
  BY <1>c DEF InSteps
<1>12. ASSUME NEW k \in 0..(n - 1)
       PROVE  f[k + 1] = IF Matches(text[k + 1], p)
                         THEN Model!Named(f[k], Pattern[p].label, text[k + 1].word) ELSE f[k]
  <2>1. f[k] \in R /\ k + 1 \in 1..n
    BY <1>1, <1>11
  <2> QED BY <1>3, <1>11, <2>1
<1> QED BY <1>9, <1>11, <1>12 DEF n, R

LEMMA MatchingIs ==
  ASSUME NEW W, NEW r \in Redactor(W), NEW text, IsText(text, W), NEW p \in DOMAIN Pattern
  PROVE  /\ Model!Matching(r, text, Pattern[p]) \in Redactor(W) /\ Met(r) \subseteq Met(Model!Matching(r, text, Pattern[p]))
         /\ \A i \in DOMAIN text : Matches(text[i], p) => text[i].word \in Met(Model!Matching(r, text, Pattern[p]))
<1> DEFINE n == Len(text)
           R == Redactor(W)
           found == Model!Matching(r, text, Pattern[p])
<1>1. n \in Nat /\ DOMAIN text = 1..n /\ \A i \in 1..n : text[i].word \in W
  BY SequenceIs DEF IsText
<1>2. PICK f \in [0..n -> R] :
         /\ f[0] = r /\ f[n] = found
         /\ \A k \in 0..(n - 1) :
               f[k + 1] = IF Matches(text[k + 1], p)
                          THEN Model!Named(f[k], Pattern[p].label, text[k + 1].word) ELSE f[k]
  BY MatchingFold
<1>3. ASSUME NEW k \in 0..(n - 1)
      PROVE  /\ Met(f[k]) \subseteq Met(f[k + 1])
             /\ Matches(text[k + 1], p) => text[k + 1].word \in Met(f[k + 1])
  <2>1. f[k] \in R /\ k + 1 \in 1..n
    BY <1>1, <1>2
  <2>2. text[k + 1].word \in W /\ Pattern[p].label \in Labels
    BY <1>1, <2>1 DEF Labels
  <2>3. Met(Model!Named(f[k], Pattern[p].label, text[k + 1].word)) = Met(f[k]) \cup {text[k + 1].word}
    BY <2>1, <2>2, NamedIs
  <2>4. f[k + 1] = IF Matches(text[k + 1], p)
                   THEN Model!Named(f[k], Pattern[p].label, text[k + 1].word) ELSE f[k]
    BY <1>2
  <2> QED BY <2>3, <2>4
<1> DEFINE Held(k) == /\ Met(r) \subseteq Met(f[k])
                      /\ \A i \in 1..k : Matches(text[i], p) => text[i].word \in Met(f[k])
           K == {k \in 0..n : Held(k)}
<1>4. 0 \in K
  BY <1>1, <1>2
<1>5. ASSUME NEW k \in K, k < n PROVE k + 1 \in K
  <2>1. k \in 0..n /\ Held(k)
    OBVIOUS
  <2>2. k \in 0..(n - 1) /\ k + 1 \in 0..n /\ \A i \in 1..(k + 1) : i \in 1..k \/ i = k + 1
    BY <1>1, <1>5, <2>1
  <2>3. Held(k + 1)
    BY <1>3, <2>1, <2>2
  <2> QED BY <2>2, <2>3
<1> HIDE DEF K, n
<1>6. n \in K
  BY <1>1, <1>4, <1>5, InductionUpTo
<1>7. Held(n)
  BY <1>6 DEF K
<1>8. found \in R
  BY <1>1, <1>2
<1> QED BY <1>1, <1>2, <1>7, <1>8

LEMMA LearnedFold ==
  ASSUME NEW W, NEW r \in Redactor(W), NEW text, IsText(text, W)
  PROVE  \E f \in [0..Len(Pattern) -> Redactor(W)] :
            /\ f[0] = Model!Secrets(r, text) /\ f[Len(Pattern)] = Model!Learned(r, text)
            /\ \A k \in 0..(Len(Pattern) - 1) :
                  f[k + 1] = Model!Matching(f[k], text, Pattern[k + 1])
<1> DEFINE n == Len(Pattern)
           R == Redactor(W)
           step == [q \in R \X (1..n) |-> Model!Matching(q[1], text, Pattern[q[2]])]
           Folds(h) == h = [s \in SUBSET DOMAIN Pattern |->
                              IF s = {} THEN Model!Secrets(r, text)
                              ELSE Model!Matching(h[s \ {Largest(s)}], text, Pattern[Largest(s)])]
           h == CHOOSE h : Folds(h)
<1>1. n \in Nat /\ DOMAIN Pattern = 1..n
  BY SequenceIs, PromptAssumption
<1>2. step \in [R \X (1..n) -> R]
  <2>1. ASSUME NEW x \in R, NEW i \in 1..n PROVE Model!Matching(x, text, Pattern[i]) \in R
    BY <1>1, <2>1, MatchingIs
  <2> QED BY <2>1
<1>3. \A x \in R, i \in 1..n : step[<<x, i>>] = Model!Matching(x, text, Pattern[i])
  OBVIOUS
<1>4. \A s \in SUBSET (1..n) : s # {} => Largest(s) \in 1..n /\ s \ {Largest(s)} \in SUBSET (1..n)
  BY <1>1, LargestIn
<1>5. Model!Secrets(r, text) \in R
  BY SecretsIs
<1> HIDE DEF step, n, R
<1>6. PICK g \in [SUBSET (1..n) -> R] : Runs(Model!Secrets(r, text), step, n, g)
  BY <1>1, <1>2, <1>5, RunsExist
<1>7. Folds(g)
  <2>1. ASSUME NEW s \in SUBSET (1..n), s # {}
        PROVE  g[s] = Model!Matching(g[s \ {Largest(s)}], text, Pattern[Largest(s)])
    BY <1>3, <1>4, <1>6, <2>1 DEF Runs
  <2>2. g = [s \in SUBSET (1..n) |-> g[s]] /\ g[{}] = Model!Secrets(r, text)
    BY <1>6 DEF Runs
  <2> QED BY <1>1, <2>1, <2>2
<1>8. Folds(h)
  <2> HIDE DEF Folds
  <2> QED BY <1>7
<1>9. Model!Learned(r, text) = h[1..n]
  BY <1>1 DEF Model!Learned, Model!FoldLeft, Model!MapThenFoldSet, Model!Max, Largest
<1> HIDE DEF h
<1>10. Takes(Model!Secrets(r, text), step, n, R, h)
  BY <1>1, <1>3, <1>4, <1>8 DEF Takes
<1> HIDE DEF Folds
<1>11. n \in Nat
  BY <1>1
<1>12. InSteps(Model!Secrets(r, text), step, n, R, h[1..n])
  BY <1>11, <1>2, <1>5, <1>10, RunSteps
<1>13. PICK f \in [0..n -> R] : /\ f[0] = Model!Secrets(r, text) /\ f[n] = h[1..n]
                                /\ \A k \in 0..(n - 1) : f[k + 1] = step[<<f[k], k + 1>>]
  BY <1>12 DEF InSteps
<1>14. ASSUME NEW k \in 0..(n - 1)
       PROVE  f[k + 1] = Model!Matching(f[k], text, Pattern[k + 1])
  <2>1. f[k] \in R /\ k + 1 \in 1..n
    BY <1>1, <1>13
  <2> QED BY <1>3, <1>13, <2>1
<1> QED BY <1>9, <1>13, <1>14 DEF n, R

\* Every word that is recognised in a text has been met.
LEMMA LearnedIs ==
  ASSUME NEW W, NEW r \in Redactor(W), NEW text, IsText(text, W)
  PROVE  /\ Model!Learned(r, text) \in Redactor(W) /\ Met(r) \subseteq Met(Model!Learned(r, text))
         /\ \A i \in DOMAIN text :
               Model!Recognised(text[i]) => text[i].word \in Met(Model!Learned(r, text))
<1> DEFINE n == Len(Pattern)
           R == Redactor(W)
           found == Model!Learned(r, text)
<1>1. n \in Nat /\ DOMAIN Pattern = 1..n
  BY SequenceIs, PromptAssumption
<1>2. PICK f \in [0..n -> R] :
         /\ f[0] = Model!Secrets(r, text) /\ f[n] = found
         /\ \A k \in 0..(n - 1) : f[k + 1] = Model!Matching(f[k], text, Pattern[k + 1])
  BY LearnedFold
<1>3. ASSUME NEW k \in 0..(n - 1)
      PROVE  /\ Met(f[k]) \subseteq Met(f[k + 1])
             /\ \A i \in DOMAIN text : Matches(text[i], k + 1) => text[i].word \in Met(f[k + 1])
  <2>1. f[k] \in R /\ k + 1 \in DOMAIN Pattern
    BY <1>1, <1>2
  <2>2. f[k + 1] = Model!Matching(f[k], text, Pattern[k + 1])
    BY <1>2
  <2> QED BY <2>1, <2>2, MatchingIs
<1> DEFINE Held(k) == /\ Met(f[0]) \subseteq Met(f[k])
                      /\ \A p \in 1..k : \A i \in DOMAIN text :
                            Matches(text[i], p) => text[i].word \in Met(f[k])
           K == {k \in 0..n : Held(k)}
<1>4. 0 \in K
  BY <1>1
<1>5. ASSUME NEW k \in K, k < n PROVE k + 1 \in K
  <2>1. k \in 0..n /\ Held(k)
    OBVIOUS
  <2>2. k \in 0..(n - 1) /\ k + 1 \in 0..n /\ \A p \in 1..(k + 1) : p \in 1..k \/ p = k + 1
    BY <1>1, <1>5, <2>1
  <2>3. Held(k + 1)
    BY <1>3, <2>1, <2>2
  <2> QED BY <2>2, <2>3
<1> HIDE DEF K, n
<1>6. n \in K
  BY <1>1, <1>4, <1>5, InductionUpTo
<1>7. Held(n)
  BY <1>6 DEF K
<1>8. found \in R
  BY <1>1, <1>2
<1>9. /\ Met(r) \subseteq Met(f[0])
      /\ \A i \in DOMAIN text : text[i].keyed => text[i].word \in Met(f[0])
  BY <1>2, SecretsIs
<1>10. ASSUME NEW i \in DOMAIN text, Model!Recognised(text[i]) PROVE text[i].word \in Met(found)
  <2>1. CASE text[i].keyed
    BY <1>2, <1>7, <1>9, <2>1
  <2>2. CASE ~text[i].keyed
    <3>1. PICK p \in 1..n : Matches(text[i], p)
      BY <1>1, <1>10, <2>2 DEF Model!Recognised, Matches
    <3> QED BY <1>2, <1>7, <3>1
  <2> QED BY <2>1, <2>2
<1> QED BY <1>2, <1>7, <1>8, <1>9, <1>10

LEMMA AllLearnedFold ==
  ASSUME NEW W, NEW t \in Ticket,
         \A s \in DOMAIN Section : IsText(content[t][Section[s]], W)
  PROVE  \E f \in [0..Len(Section) -> Redactor(W)] :
            /\ f[0] = <<>> /\ f[Len(Section)] = Model!AllLearned(t)
            /\ \A k \in 0..(Len(Section) - 1) :
                  f[k + 1] = Model!Learned(f[k], content[t][Section[k + 1]])
<1> DEFINE n == Len(Section)
           R == Redactor(W)
           step == [q \in R \X (1..n) |-> Model!Learned(q[1], content[t][Section[q[2]]])]
           Folds(h) == h = [s \in SUBSET DOMAIN Section |->
                              IF s = {} THEN <<>>
                              ELSE Model!Learned(h[s \ {Largest(s)}], content[t][Section[Largest(s)]])]
           h == CHOOSE h : Folds(h)
<1>1. n \in Nat /\ DOMAIN Section = 1..n
  BY SequenceIs, PromptAssumption
<1>2. step \in [R \X (1..n) -> R]
  <2>1. ASSUME NEW x \in R, NEW i \in 1..n PROVE Model!Learned(x, content[t][Section[i]]) \in R
    BY <1>1, <2>1, LearnedIs
  <2> QED BY <2>1
<1>3. \A x \in R, i \in 1..n : step[<<x, i>>] = Model!Learned(x, content[t][Section[i]])
  OBVIOUS
<1>4. \A s \in SUBSET (1..n) : s # {} => Largest(s) \in 1..n /\ s \ {Largest(s)} \in SUBSET (1..n)
  BY <1>1, LargestIn
<1>5. <<>> \in R
  BY SequenceIs DEF Redactor
<1> HIDE DEF step, n, R
<1>6. PICK g \in [SUBSET (1..n) -> R] : Runs(<<>>, step, n, g)
  BY <1>1, <1>2, <1>5, RunsExist
<1>7. Folds(g)
  <2>1. ASSUME NEW s \in SUBSET (1..n), s # {}
        PROVE  g[s] = Model!Learned(g[s \ {Largest(s)}], content[t][Section[Largest(s)]])
    BY <1>3, <1>4, <1>6, <2>1 DEF Runs
  <2>2. g = [s \in SUBSET (1..n) |-> g[s]] /\ g[{}] = <<>>
    BY <1>6 DEF Runs
  <2> QED BY <1>1, <2>1, <2>2
<1>8. Folds(h)
  <2> HIDE DEF Folds
  <2> QED BY <1>7
<1>9. Model!AllLearned(t) = h[1..n]
  BY <1>1 DEF Model!AllLearned, Model!NewRedactor, Model!FoldLeft, Model!MapThenFoldSet, Model!Max, Largest
<1> HIDE DEF h
<1>10. Takes(<<>>, step, n, R, h)
  BY <1>1, <1>3, <1>4, <1>8 DEF Takes
<1> HIDE DEF Folds
<1>11. n \in Nat
  BY <1>1
<1>12. InSteps(<<>>, step, n, R, h[1..n])
  BY <1>11, <1>2, <1>5, <1>10, RunSteps
<1>13. PICK f \in [0..n -> R] : /\ f[0] = <<>> /\ f[n] = h[1..n]
                                /\ \A k \in 0..(n - 1) : f[k + 1] = step[<<f[k], k + 1>>]
  BY <1>12 DEF InSteps
<1>14. ASSUME NEW k \in 0..(n - 1)
       PROVE  f[k + 1] = Model!Learned(f[k], content[t][Section[k + 1]])
  <2>1. f[k] \in R /\ k + 1 \in 1..n
    BY <1>1, <1>13
  <2> QED BY <1>3, <1>13, <2>1
<1> QED BY <1>9, <1>13, <1>14 DEF n, R

\* ... in every part of the prompt.
LEMMA AllLearnedIs ==
  ASSUME NEW W, NEW t \in Ticket, \A s \in DOMAIN Section : IsText(content[t][Section[s]], W)
  PROVE  /\ Model!AllLearned(t) \in Redactor(W)
         /\ \A s \in DOMAIN Section : \A i \in DOMAIN content[t][Section[s]] :
               Model!Recognised(content[t][Section[s]][i])
                  => content[t][Section[s]][i].word \in Met(Model!AllLearned(t))
<1> DEFINE n == Len(Section)
           R == Redactor(W)
           found == Model!AllLearned(t)
           text(s) == content[t][Section[s]]
<1>1. n \in Nat /\ DOMAIN Section = 1..n
  BY SequenceIs, PromptAssumption
<1>2. PICK f \in [0..n -> R] :
         /\ f[0] = <<>> /\ f[n] = found
         /\ \A k \in 0..(n - 1) : f[k + 1] = Model!Learned(f[k], text(k + 1))
  BY AllLearnedFold
<1>3. ASSUME NEW k \in 0..(n - 1)
      PROVE  /\ Met(f[k]) \subseteq Met(f[k + 1])
             /\ \A i \in DOMAIN text(k + 1) :
                   Model!Recognised(text(k + 1)[i]) => text(k + 1)[i].word \in Met(f[k + 1])
  <2>1. f[k] \in R /\ k + 1 \in DOMAIN Section
    BY <1>1, <1>2
  <2>2. f[k + 1] = Model!Learned(f[k], text(k + 1)) /\ IsText(text(k + 1), W)
    BY <1>2, <2>1
  <2> HIDE DEF text
  <2> QED BY <2>1, <2>2, LearnedIs
<1> DEFINE Held(k) == \A s \in 1..k : \A i \in DOMAIN text(s) :
                         Model!Recognised(text(s)[i]) => text(s)[i].word \in Met(f[k])
           K == {k \in 0..n : Held(k)}
<1> HIDE DEF text
<1>4. 0 \in K
  BY <1>1
<1>5. ASSUME NEW k \in K, k < n PROVE k + 1 \in K
  <2>1. k \in 0..n /\ Held(k)
    OBVIOUS
  <2>2. k \in 0..(n - 1) /\ k + 1 \in 0..n /\ \A s \in 1..(k + 1) : s \in 1..k \/ s = k + 1
    BY <1>1, <1>5, <2>1
  <2>3. Held(k + 1)
    BY <1>3, <2>1, <2>2
  <2> QED BY <2>2, <2>3
<1> HIDE DEF K, n
<1>6. n \in K
  BY <1>1, <1>4, <1>5, InductionUpTo
<1>7. Held(n)
  BY <1>6 DEF K
<1>8. found \in R
  BY <1>1, <1>2
<1> QED BY <1>1, <1>2, <1>7, <1>8 DEF text

-----------------------------------------------------------------------------
(* ... and what it puts back.                                                *)

LEMMA ModelCount ==
  /\ \A S : Model!Cardinality(S) = Cardinality(S)
  /\ \A S : Model!IsFiniteSet(S) <=> IsFiniteSet(S)
BY DEF Model!Cardinality, Cardinality, Model!IsFiniteSet, IsFiniteSet

\* Counters go up, so no two of a redactor's values share a placeholder.
LEMMA PlaceholdersDiffer ==
  ASSUME NEW W, NEW r \in Redactor(W), NEW i \in DOMAIN r, NEW j \in DOMAIN r, i < j
  PROVE  Model!Placeholder(r, i) # Model!Placeholder(r, j)
<1> SUFFICES ASSUME Model!Placeholder(r, i) = Model!Placeholder(r, j) PROVE FALSE
  OBVIOUS
<1> DEFINE before(k) == {x \in 1..k : r[x].label = r[k].label}
           A == before(i)
           B == before(j)
<1>1. i \in Nat /\ j \in Nat /\ i >= 1
  BY DEF Redactor
<1>2. Model!Placeholder(r, i) = [label |-> r[i].label, number |-> Cardinality(A)]
      /\ Model!Placeholder(r, j) = [label |-> r[j].label, number |-> Cardinality(B)]
  BY ModelCount DEF Model!Placeholder
<1>3. r[i].label = r[j].label /\ Cardinality(A) = Cardinality(B)
  <2> HIDE DEF A, B
  <2>1. [label |-> r[i].label, number |-> Cardinality(A)]
          = [label |-> r[j].label, number |-> Cardinality(B)]
    BY <1>2
  <2>2. \A c, d, e, f : [label |-> c, number |-> d] = [label |-> e, number |-> f] => c = e /\ d = f
    OBVIOUS
  <2> QED BY <2>1, <2>2
<1>4. A \subseteq B /\ j \in B /\ j \notin A
  BY <1>1, <1>3
<1>5. IsFiniteSet(B)
  <2>1. IsFiniteSet(1..j)
    BY <1>1, FS_Interval
  <2>2. B \subseteq 1..j
    OBVIOUS
  <2> QED BY <2>1, <2>2, FS_Subset
<1> HIDE DEF A, B
<1>6. IsFiniteSet(A) /\ Cardinality(A) \in Nat
  BY <1>4, <1>5, FS_Subset, FS_CardinalityType
<1>7. Cardinality(A \cup {j}) = Cardinality(A) + 1
  BY <1>4, <1>6, FS_AddElement
<1>8. Cardinality(A \cup {j}) <= Cardinality(B)
  <2>1. A \cup {j} \in SUBSET B
    BY <1>4
  <2> QED BY <1>5, <2>1, FS_Subset
<1> QED BY <1>3, <1>6, <1>7, <1>8

LEMMA RestoredIs ==
  ASSUME NEW W, NEW r \in Redactor(W), NEW i \in DOMAIN r
  PROVE  Model!Restored(r, Model!Placeholder(r, i)) = [word |-> r[i].value]
<1> DEFINE of == {x \in DOMAIN r : Model!Placeholder(r, x) = Model!Placeholder(r, i)}
<1>1. \A x \in DOMAIN r : x \in Nat
  BY DEF Redactor
<1>2. \A x \in of : x = i
  <2> SUFFICES ASSUME NEW x \in of, x # i PROVE FALSE
    OBVIOUS
  <2>1. x \in DOMAIN r /\ Model!Placeholder(r, x) = Model!Placeholder(r, i)
    OBVIOUS
  <2>2. x < i \/ i < x
    BY <1>1, <2>1
  <2> HIDE DEF of
  <2> QED BY <2>1, <2>2, PlaceholdersDiffer
<1>3. of = {i}
  BY <1>2
<1>4. (CHOOSE x \in of : TRUE) = i
  BY <1>3
<1> QED BY <1>3, <1>4 DEF Model!Restored

\* What is no placeholder stays.
LEMMA OthersStay ==
  ASSUME NEW r, NEW w, "label" \notin DOMAIN w
  PROVE  Model!Restored(r, w) = w
<1>1. \A i \in DOMAIN r : Model!Placeholder(r, i) # w
  BY DEF Model!Placeholder
<1> QED BY <1>1 DEF Model!Restored

LEMMA ValuesAre ==
  ASSUME NEW W, NEW r \in Redactor(W), NEW i \in DOMAIN r
  PROVE  r[i].value \in W
<1>1. r \in Seq([label : Labels, value : W]) /\ i \in 1..Len(r)
  BY DEF Redactor
<1> DEFINE S == [label : Labels, value : W]
<1>2. r[i] \in S
  <2> HIDE DEF S
  <2> QED BY <1>1, ElementOfSeq DEF S
<1> QED BY <1>2

\* Nothing comes back that was not met.
LEMMA OnlyMetComesBack ==
  ASSUME NEW W, NEW r \in Redactor(W), NEW w, "word" \notin DOMAIN w,
         "word" \in DOMAIN Model!Restored(r, w)
  PROVE  Model!Restored(r, w).word \in W
<1> DEFINE of == {i \in DOMAIN r : Model!Placeholder(r, i) = w}
<1>1. of # {}
  BY DEF Model!Restored
<1>2. PICK i \in DOMAIN r : i = CHOOSE x \in of : TRUE
  BY <1>1
<1>3. Model!Restored(r, w) = [word |-> r[i].value]
  BY <1>1, <1>2 DEF Model!Restored
<1>4. r[i].value \in W
  <2> HIDE DEF of
  <2> QED BY ValuesAre
<1> QED BY <1>3, <1>4

\* A word of the text, hidden or not, comes back from what stands for it.
LEMMA ScrubbedIs ==
  ASSUME NEW W, NEW r \in Redactor(W), NEW text,
         \A i \in DOMAIN text : Model!Recognised(text[i]) => text[i].word \in Met(r),
         NEW i \in DOMAIN text
  PROVE  /\ Model!Restored(r, Model!Scrubbed(r, text)[i]) = [word |-> text[i].word]
         /\ Model!Recognised(text[i]) => "label" \in DOMAIN Model!Scrubbed(r, text)[i]
<1>1. CASE Model!Recognised(text[i])
  <2>1. Model!Met(r, text[i].word) # {}
    BY <1>1 DEF Met, Model!Met
  <2>2. PICK j \in Model!Met(r, text[i].word) : j = CHOOSE x \in Model!Met(r, text[i].word) : TRUE
    BY <2>1
  <2>3. j \in DOMAIN r /\ r[j].value = text[i].word
    BY <2>2 DEF Model!Met
  <2>4. Model!Scrubbed(r, text)[i] = Model!Placeholder(r, j)
    BY <1>1, <2>2 DEF Model!Scrubbed
  <2>5. "label" \in DOMAIN Model!Placeholder(r, j)
    BY DEF Model!Placeholder
  <2> QED BY <2>3, <2>4, <2>5, RestoredIs
<1>2. CASE ~Model!Recognised(text[i])
  <2>1. Model!Scrubbed(r, text)[i] = [word |-> text[i].word]
    BY <1>2 DEF Model!Scrubbed
  <2> QED BY <1>2, <2>1, OthersStay
<1> QED BY <1>1, <1>2

-----------------------------------------------------------------------------
(* What leaves for the model and what comes of it: the invariant.            *)

WordsIn(c) == UNION {{c[Section[s]][n].word : n \in DOMAIN c[Section[s]]} : s \in DOMAIN Section}

\* A call under way and an advice, for a ticket that says c.
CallHolds(c, j) ==
    /\ j.at = "asking" =>
          /\ j = [at |-> "asking", redactor |-> j.redactor, prompt |-> j.prompt,
                  attempts |-> j.attempts]
          /\ j.redactor \in Redactor(WordsIn(c))
          /\ \A s \in DOMAIN Section : \A n \in DOMAIN c[Section[s]] :
                /\ Model!Restored(j.redactor, j.prompt[Section[s]][n])
                      = [word |-> c[Section[s]][n].word]
                /\ Model!Recognised(c[Section[s]][n])
                      => "label" \in DOMAIN j.prompt[Section[s]][n]
    /\ j.at = "done" =>
          /\ "word" \in DOMAIN j.advice.message => j.advice.message.word \in WordsIn(c)
          /\ j.advice.target # NoTarget => j.advice.action = "REASSIGN" /\ j.advice.target \in Group
          /\ j.asked.action = "REASSIGN" /\ j.asked.target \notin Group \cup {NoTarget} =>
                j.advice.action = "ESCALATE" /\ (MinConfidence > 50 => ~j.surfaced)

CallsInv ==
    /\ DOMAIN content = Ticket /\ \A t \in Ticket : content[t] \in Content[t]
    /\ DOMAIN asking = Ticket /\ \A t \in Ticket : CallHolds(content[t], asking[t])

LEMMA CallsStart == ASSUME Model!Init PROVE CallsInv
BY DEF Model!Init, Model!AtRest, CallsInv, CallHolds

LEMMA ContentIsText ==
  ASSUME CallsInv, NEW t \in Ticket, NEW s \in DOMAIN Section
  PROVE  IsText(content[t][Section[s]], WordsIn(content[t]))
<1>1. IsSequence(content[t][Section[s]])
      /\ \A i \in DOMAIN content[t][Section[s]] : content[t][Section[s]][i].keyed \in BOOLEAN
  BY PromptAssumption DEF CallsInv
<1>2. \A i \in DOMAIN content[t][Section[s]] : content[t][Section[s]][i].word \in WordsIn(content[t])
  BY DEF WordsIn
<1> QED BY <1>1, <1>2 DEF IsText

\* What is to be shown of a step of one ticket's call.
LEMMA CallMoves ==
  ASSUME CallsInv, content' = content, NEW t \in Ticket, NEW j,
         asking' = [asking EXCEPT ![t] = j], CallHolds(content[t], j)
  PROVE  CallsInv'
<1>1. DOMAIN asking' = Ticket /\ \A u \in Ticket : asking'[u] = IF u = t THEN j ELSE asking[u]
  BY DEF CallsInv
<1>2. \A u \in Ticket : CallHolds(content[u], asking'[u])
  BY <1>1 DEF CallsInv
<1> QED BY <1>1, <1>2 DEF CallsInv

LEMMA BeginStep == ASSUME CallsInv, NEW t \in Ticket, Model!Begin(t) PROVE CallsInv'
<1> DEFINE r == Model!AllLearned(t)
           prompt == Model!Prompt(r, t)
           j == [at |-> "asking", redactor |-> r, prompt |-> prompt, attempts |-> 0]
           W == WordsIn(content[t])
<1>1. content' = content /\ asking' = [asking EXCEPT ![t] = j]
  BY DEF Model!Begin
<1>2. /\ r \in Redactor(W)
      /\ \A s \in DOMAIN Section : \A i \in DOMAIN content[t][Section[s]] :
            Model!Recognised(content[t][Section[s]][i]) => content[t][Section[s]][i].word \in Met(r)
  <2>1. \A s \in DOMAIN Section : IsText(content[t][Section[s]], W)
    BY ContentIsText
  <2> HIDE DEF W
  <2> QED BY <2>1, AllLearnedIs
<1>3. \A s \in DOMAIN Section : prompt[Section[s]] = Model!Scrubbed(r, content[t][Section[s]])
  BY DEF Model!Prompt, Model!ToSet
<1> HIDE DEF r, prompt
<1>4. ASSUME NEW s \in DOMAIN Section, NEW n \in DOMAIN content[t][Section[s]]
      PROVE  /\ Model!Restored(r, prompt[Section[s]][n]) = [word |-> content[t][Section[s]][n].word]
             /\ Model!Recognised(content[t][Section[s]][n])
                   => "label" \in DOMAIN prompt[Section[s]][n]
  <2> DEFINE text == content[t][Section[s]]
  <2>1. n \in DOMAIN text /\ \A i \in DOMAIN text : Model!Recognised(text[i]) => text[i].word \in Met(r)
    BY <1>2, <1>4
  <2>2. prompt[Section[s]] = Model!Scrubbed(r, text)
    BY <1>3
  <2> HIDE DEF text, W
  <2>3. /\ Model!Restored(r, prompt[Section[s]][n]) = [word |-> text[n].word]
        /\ Model!Recognised(text[n]) => "label" \in DOMAIN prompt[Section[s]][n]
    BY <1>2, <2>1, <2>2, ScrubbedIs
  <2> QED BY <2>3 DEF text
<1>5. CallHolds(content[t], j)
  BY <1>2, <1>4 DEF CallHolds
<1> HIDE DEF j
<1> QED BY <1>1, <1>5, CallMoves

LEMMA FailStep ==
  ASSUME CallsInv, NEW t \in Ticket, Model!Failed(t), content' = content
  PROVE  CallsInv'
<1> DEFINE j == [at |-> "failed", redactor |-> asking[t].redactor]
<1>1. asking' = [asking EXCEPT ![t] = j]
  BY DEF Model!Failed
<1>2. CallHolds(content[t], j)
  BY DEF CallHolds
<1> HIDE DEF j
<1> QED BY <1>1, <1>2, CallMoves

LEMMA RetryStep ==
  ASSUME CallsInv, NEW t \in Ticket, NEW passing \in BOOLEAN, Model!CallFails(t, passing)
  PROVE  CallsInv'
<1>1. CASE asking' = [asking EXCEPT ![t].attempts = @ + 1] /\ content' = content
  <2> DEFINE c == asking[t]
             j == [at |-> "asking", redactor |-> c.redactor, prompt |-> c.prompt,
                   attempts |-> c.attempts + 1]
  <2>1. c.at = "asking" /\ CallHolds(content[t], c)
    BY DEF Model!CallFails, CallsInv
  <2>2. asking' = [asking EXCEPT ![t] = [c EXCEPT !.attempts = c.attempts + 1]]
    BY <1>1
  <2> HIDE DEF c
  <2>3. [c EXCEPT !.attempts = c.attempts + 1] = j
    <3>1. c = [at |-> "asking", redactor |-> c.redactor, prompt |-> c.prompt, attempts |-> c.attempts]
      BY <2>1 DEF CallHolds
    <3> QED BY <3>1
  <2>4. CallHolds(content[t], j)
    BY <2>1 DEF CallHolds
  <2> HIDE DEF j
  <2> QED BY <1>1, <2>2, <2>3, <2>4, CallMoves
<1>2. CASE Model!Failed(t) /\ content' = content
  BY <1>2, FailStep
<1> QED BY <1>1, <1>2 DEF Model!CallFails

\* Of what the model says: a target only where one can be.
LEMMA SaneIs ==
  ASSUME NEW a \in Reply, NEW w \in Model!Placeholders
  PROVE  LET said == Model!Sane([action |-> a.action, target |-> a.target,
                                 confidence |-> a.confidence, message |-> w])
         IN  /\ DOMAIN said = {"action", "target", "confidence", "message"}
             /\ said.target # NoTarget => said.action = "REASSIGN" /\ said.target \in Group
             /\ a.action = "REASSIGN" /\ a.target \notin Group \cup {NoTarget} =>
                   said.action = "ESCALATE" /\ (MinConfidence > 50 => ~(said.confidence >= MinConfidence))
             /\ said.message \in {w, Model!Empty}
<1> DEFINE x == [action |-> a.action, target |-> a.target, confidence |-> a.confidence, message |-> w]
           said == Model!Sane(x)
<1>1. /\ DOMAIN x = {"action", "target", "confidence", "message"} /\ x.action = a.action
      /\ x.target = a.target /\ x.confidence = a.confidence /\ x.message = w
  OBVIOUS
<1>2. a.confidence \in Int /\ MinConfidence \in Int
  BY PromptAssumption
<1> HIDE DEF x
<1>3. CASE x.action # "REASSIGN"
  <2>1. said = [x EXCEPT !.target = NoTarget,
                         !.message = IF x.action = "NO_ACTION_NEEDED" THEN Model!Empty ELSE x.message]
    BY <1>3 DEF Model!Sane
  <2>2. /\ DOMAIN said = DOMAIN x /\ said.target = NoTarget /\ said.message \in {w, Model!Empty}
    BY <1>1, <2>1
  <2> HIDE DEF said
  <2> QED BY <1>1, <1>3, <2>2 DEF said, x
<1>4. CASE x.action = "REASSIGN" /\ x.target \in Group \cup {NoTarget}
  <2>1. said = x
    BY <1>4 DEF Model!Sane
  <2> HIDE DEF said
  <2> QED BY <1>1, <1>4, <2>1 DEF said, x
<1>5. CASE x.action = "REASSIGN" /\ x.target \notin Group \cup {NoTarget}
  <2>1. said = [x EXCEPT !.action = "ESCALATE", !.target = NoTarget,
                         !.confidence = IF x.confidence < 50 THEN x.confidence ELSE 50]
    BY <1>5 DEF Model!Sane
  <2>2. /\ DOMAIN said = DOMAIN x /\ said.target = NoTarget /\ said.message = w
        /\ said.action = "ESCALATE"
        /\ said.confidence = IF x.confidence < 50 THEN x.confidence ELSE 50
    BY <1>1, <2>1
  <2> HIDE DEF said
  <2>3. MinConfidence > 50 => ~(said.confidence >= MinConfidence)
    BY <1>1, <1>2, <2>2
  <2> QED BY <1>1, <1>5, <2>2, <2>3 DEF said, x
<1> QED BY <1>3, <1>4, <1>5

LEMMA AnswerStep == ASSUME CallsInv, NEW t \in Ticket, Model!Answered(t) PROVE CallsInv'
<1>1. PICK a \in Reply, w \in Model!Placeholders :
        LET said == Model!Sane([action |-> a.action, target |-> a.target,
                                confidence |-> a.confidence, message |-> w])
        IN  asking' = [asking EXCEPT ![t] =
                         [at |-> "done", redactor |-> asking[t].redactor, asked |-> a,
                          advice |-> [said EXCEPT !.message
                                         = Model!Restored(asking[t].redactor, @)],
                          surfaced |-> said.confidence >= MinConfidence]]
  BY DEF Model!Answered
<1> DEFINE x == Model!Sane([action |-> a.action, target |-> a.target,
                            confidence |-> a.confidence, message |-> w])
<1>2. /\ DOMAIN x = {"action", "target", "confidence", "message"}
      /\ x.target # NoTarget => x.action = "REASSIGN" /\ x.target \in Group
      /\ a.action = "REASSIGN" /\ a.target \notin Group \cup {NoTarget} =>
            x.action = "ESCALATE" /\ (MinConfidence > 50 => ~(x.confidence >= MinConfidence))
      /\ x.message \in {w, Model!Empty}
  BY SaneIs
<1> DEFINE r == asking[t].redactor
           advice == [x EXCEPT !.message = Model!Restored(r, x.message)]
           j == [at |-> "done", redactor |-> r, asked |-> a, advice |-> advice,
                 surfaced |-> x.confidence >= MinConfidence]
<1>3. asking' = [asking EXCEPT ![t] = j] /\ content' = content
  BY <1>1 DEF Model!Answered
<1>4. r \in Redactor(WordsIn(content[t]))
  BY DEF CallsInv, CallHolds, Model!Answered
<1>5. "word" \notin DOMAIN x.message
  BY <1>2 DEF Model!Placeholders, Model!Empty
<1> HIDE DEF x, r
<1>6. /\ advice.message = Model!Restored(r, x.message) /\ advice.target = x.target
      /\ advice.action = x.action
  BY <1>2
<1> HIDE DEF advice
<1>7. "word" \in DOMAIN advice.message => advice.message.word \in WordsIn(content[t])
  BY <1>4, <1>5, <1>6, OnlyMetComesBack
<1>8. CallHolds(content[t], j)
  BY <1>2, <1>6, <1>7 DEF CallHolds
<1> HIDE DEF j
<1> QED BY <1>3, <1>8, CallMoves

LEMMA CallsPreserved == ASSUME CallsInv, [Model!Next]_modelVars PROVE CallsInv'
<1>1. ASSUME UNCHANGED modelVars PROVE CallsInv'
  BY <1>1 DEF CallsInv, modelVars
<1>2. ASSUME NEW t \in Ticket, Model!Useless(t) PROVE CallsInv'
  BY <1>2, FailStep DEF Model!Useless
<1> QED BY <1>1, <1>2, BeginStep, AnswerStep, RetryStep DEF Model!Next

-----------------------------------------------------------------------------
(* The theorems.                                                             *)

\* The strengthening holds in every state.
THEOREM RecommendationsStrengthening == AllSpec => []IInv
<1>1. AllInit => IInv
  BY InitIInv DEF AllInit
<1>2. IInv /\ [AllNext]_allVars => IInv'
  BY OnePartAdvises, NextIInv
<1> QED BY <1>1, <1>2, PTL DEF AllSpec

\* Two analyses of one incident are in force together only if two passes were storing at
\* once (advisor.py, _persist), whatever fails or restarts between its two statements.
THEOREM AtMostOneAnalysis == AllSpec => []OneAnalysisLive
<1>1. IInv => OneAnalysisLive
  BY DEF IInv
<1> QED BY <1>1, RecommendationsStrengthening, PTL

\* What a pass that stored by itself has written is what the board shows (schema.sql,
\* v_current_board), for any jobs, any history of inputs that recur and any fallbacks.
THEOREM StoredIsOnTheBoard == AllSpec => StoredIsShown
<1>1. IInv /\ IInv' /\ [AllNext]_allVars =>
        [\A p \in Pass, h \in Hash :
            Store(p) /\ ~crowded /\ h = InputHash(p) => Shown(analysis[h])']_vars
  BY StoreShows
<1> QED BY <1>1, RecommendationsStrengthening, PTL DEF AllSpec, StoredIsShown

\* Every row of the index holds the vector of the text its hash is of; a process that nobody
\* else has built for advises from the index as it is; the evidence fits the ticket; and a
\* build leaves behind what it fetched (index_builder.py, retrieval.py).
THEOREM EvidenceStandsUp == AllSpec => EvidenceIsSound
<1>1. AllInit => EvidenceInv
  BY EvidenceStart DEF AllInit
<1>2. EvidenceInv /\ [AllNext]_allVars => EvidenceInv'
  <2> SUFFICES ASSUME EvidenceInv, [AllNext]_allVars PROVE EvidenceInv'
    OBVIOUS
  <2>1. [Index!Next]_indexVars
    BY OnePartAdvises
  <2> QED BY <2>1, EvidencePreserved
<1>3. EvidenceInv => Index!VectorsBelong /\ Index!MemoryIsStore /\ Index!EvidenceFits
  BY CopiesAreStore, EvidenceFitting DEF EvidenceInv
<1>4. EvidenceInv =>
        \A p \in Process :
          (Index!Invalidate(p) \/ Index!NothingPending(p)) /\ ~overtaken[p] =>
             \A r \in building[p].records :
                r.noted => store[r.key].there /\ store[r.key].hash = r.text
  BY ThroughIsCurrent
<1> QED BY <1>1, <1>2, <1>3, <1>4, PTL
        DEF AllSpec, EvidenceIsSound, Index!BuiltIsCurrent

\* A verdict is on what the page of its lead showed, articles are booked for what the last
\* answer that was recorded cites, the reports count alike, and a rating survives every later
\* answer (web/app.py, advisor.py).
THEOREM VerdictsStand == AllSpec => VerdictsCount
<1>1. AllInit => VerdictInv
  BY VerdictsStart DEF AllInit
<1>2. VerdictInv /\ [AllNext]_allVars => VerdictInv'
  <2> SUFFICES ASSUME VerdictInv, [AllNext]_allVars PROVE VerdictInv'
    OBVIOUS
  <2>1. [Verdict!Next]_verdictVars
    BY OnePartAdvises
  <2> QED BY <2>1, VerdictsPreserved
<1>3. VerdictInv => Verdict!JudgedWasShown /\ Verdict!CitationsBooked /\ Verdict!ReportsAgree
  BY ReportsAlike DEF VerdictInv
<1>4. VerdictInv /\ [AllNext]_allVars =>
        [\A h \in Input, a \in Article :
            kb'[h][a].verdict # kb[h][a].verdict =>
               \E u \in Lead, v \in Ratings : Verdict!Rate(u, a, v)]_kb
  <2> SUFFICES ASSUME VerdictInv, [AllNext]_allVars, kb' # kb, NEW h \in Input, NEW a \in Article,
                      kb'[h][a].verdict # kb[h][a].verdict
               PROVE  \E u \in Lead, v \in Ratings : Verdict!Rate(u, a, v)
    OBVIOUS
  <2>1. Verdict!Next
    BY OnePartAdvises DEF verdictVars
  <2> QED BY <2>1, RatingsKept
<1> QED BY <1>1, <1>2, <1>3, <1>4, PTL
        DEF AllSpec, VerdictsCount, Verdict!RatingsSurvive

\* Of what is hidden before it leaves for the model everything comes back, and nothing else
\* does; and what is advised can be done, for any texts, patterns and answers (pipeline/advisor.py,
\* core/redaction.py, core/llm/schemas.py).
THEOREM AdviceStaysClean == AllSpec => []AdviceIsClean
<1>1. AllInit => CallsInv
  BY CallsStart DEF AllInit
<1>2. CallsInv /\ [AllNext]_allVars => CallsInv'
  BY OnePartAdvises, CallsPreserved
<1>3. CallsInv => AdviceIsClean
  <2> SUFFICES ASSUME CallsInv PROVE AdviceIsClean
    OBVIOUS
  <2>1. \A t \in Ticket : CallHolds(content[t], asking[t])
    BY DEF CallsInv
  <2>2. ASSUME NEW t \in Ticket PROVE Model!Words(t) = WordsIn(content[t])
    BY DEF Model!Words, Model!ToSet, WordsIn
  <2>3. ASSUME NEW t \in Ticket, NEW p \in Model!Everywhere(t)
        PROVE  \E s \in DOMAIN Section : p[1] = Section[s] /\ p[2] \in DOMAIN content[t][Section[s]]
    BY <2>3 DEF Model!Everywhere, Model!ToSet
  <2>4. Model!EchoIsOriginal /\ Model!HiddenInPrompt
    <3>1. ASSUME NEW t \in Ticket, Model!Asking(t), NEW p \in Model!Everywhere(t)
          PROVE  /\ Model!Restored(asking[t].redactor, asking[t].prompt[p[1]][p[2]])
                       = [word |-> content[t][p[1]][p[2]].word]
                 /\ Model!Recognised(content[t][p[1]][p[2]])
                       => "label" \in DOMAIN asking[t].prompt[p[1]][p[2]]
      <4>1. PICK s \in DOMAIN Section : p[1] = Section[s] /\ p[2] \in DOMAIN content[t][Section[s]]
        BY <2>3, <3>1
      <4>2. CallHolds(content[t], asking[t]) /\ asking[t].at = "asking"
        BY <2>1, <3>1 DEF Model!Asking
      <4> QED BY <4>1, <4>2 DEF CallHolds
    <3> QED BY <3>1 DEF Model!EchoIsOriginal, Model!HiddenInPrompt
  <2>5. Model!OnlyItsOwn /\ Model!TargetsAreReal
    BY <2>1, <2>2 DEF Model!OnlyItsOwn, Model!TargetsAreReal, CallHolds
  <2> QED BY <2>4, <2>5 DEF AdviceIsClean
<1> QED BY <1>1, <1>2, <1>3, PTL DEF AllSpec
=============================================================================
