----------------------------- MODULE AlertsProofs -----------------------------
(***************************************************************************)
(* What Alerts promises, for any incidents, queues, accounts and flags and  *)
(* any number of changes, failures and cut-off jobs.                        *)
(***************************************************************************)
EXTENDS Alerts, TLAPS

Key(a) == <<a.ticket, a.flag, stream.today>>

StreamState == [phase : {"idle", "detecting", "sending"}, today : Day,
                rows : SUBSET Alert, fired : SUBSET Alert]
DigestState == [phase : {"idle", "leads", "agents"}, left : SUBSET (Queue \cup User)]

\* What fired is on record, comes from one reading of the board, and has a queue by the time
\* it is sent.
InHand ==
    /\ stream \in StreamState /\ digest \in DigestState
    /\ stream.phase = "idle" => stream.rows = {} /\ stream.fired = {}
    /\ stream.phase = "sending" => stream.rows = {} /\ \A a \in stream.fired : a.queue \in Queue
    /\ \A a \in stream.fired : Key(a) \in log
    /\ \A a, b \in stream.rows \cup stream.fired :
          a.ticket = b.ticket /\ a.flag = b.flag => a = b

IInv == OnceADay /\ InHand

LEMMA FiredIsNotMailed ==
  ASSUME IInv PROVE \A a \in stream.fired : Key(a) \notin mailed
BY DEF IInv, OnceADay, Key

-----------------------------------------------------------------------------
(* The steps around the jobs.                                               *)

LEMMA JobsRest ==
  ASSUME IInv, UNCHANGED <<log, stream, digest, mailed>>, Silent,
         account' \in [User -> Profiles], board' \in [Ticket -> BoardRow],
         events' \in 0..MaxEvents
  PROVE  IInv'
BY DEF IInv, OnceADay, TypeOK, InHand, Silent, NoLetter, Key

LEMMA EventsCount ==
  ASSUME TypeOK, Happens PROVE events' \in 0..MaxEvents
BY BoundAssumption DEF TypeOK, Happens

LEMMA AccountSteps ==
  ASSUME IInv, AccountChanges \/ ShadowSwitches PROVE IInv'
<1>1. TypeOK
  BY DEF IInv, OnceADay
<1>2. CASE AccountChanges
  <2>1. account' \in [User -> Profiles]
    BY <1>1, <1>2 DEF AccountChanges, TypeOK
  <2> QED BY <1>1, <1>2, <2>1, EventsCount, JobsRest DEF AccountChanges, Jobs, TypeOK
<1>3. CASE ShadowSwitches
  BY <1>1, <1>3, EventsCount, JobsRest DEF ShadowSwitches, Jobs, TypeOK
<1> QED BY <1>2, <1>3

LEMMA BoardSteps ==
  ASSUME IInv, BoardChanges PROVE IInv'
<1>1. TypeOK
  BY DEF IInv, OnceADay
<1>2. PICK t \in Ticket :
         \/ \E q \in (Queue \cup {NoQueue}) \ {board[t].queue} :
              board' = [board EXCEPT ![t].queue = q]
         \/ board' = [board EXCEPT ![t].shown = ~@]
         \/ \E f \in Flag : board' = [board EXCEPT ![t].flags =
                                        IF f \in @ THEN @ \ {f} ELSE @ \cup {f}]
  BY DEF BoardChanges
<1>3. board \in [Ticket -> BoardRow] /\ board[t] \in BoardRow
  BY <1>1 DEF TypeOK
<1>4. board' \in [Ticket -> BoardRow]
  <2>1. ASSUME NEW q \in Queue \cup {NoQueue}, board' = [board EXCEPT ![t].queue = q]
        PROVE  board' \in [Ticket -> BoardRow]
    BY <1>3, <2>1 DEF BoardRow
  <2>2. ASSUME board' = [board EXCEPT ![t].shown = ~@]
        PROVE  board' \in [Ticket -> BoardRow]
    BY <1>3, <2>2 DEF BoardRow
  <2>3. ASSUME NEW f \in Flag, board' = [board EXCEPT ![t].flags =
                                           IF f \in @ THEN @ \ {f} ELSE @ \cup {f}]
        PROVE  board' \in [Ticket -> BoardRow]
    BY <1>3, <2>3 DEF BoardRow
  <2> QED BY <1>2, <2>1, <2>2, <2>3
<1> QED BY <1>1, <1>4, EventsCount, JobsRest DEF BoardChanges, Jobs, TypeOK

\* At midnight a key and its letter grow a day older together.
LEMMA MidnightStep ==
  ASSUME IInv, Midnight PROVE IInv'
<1>1. /\ TypeOK /\ InHand /\ stream.today = "today"
      /\ log \subseteq Ticket \X Alertable \X Day /\ mailed \subseteq log
  BY DEF IInv, OnceADay, TypeOK, Midnight
<1>2. log' \subseteq Ticket \X Alertable \X Day /\ mailed' \subseteq log'
  BY <1>1 DEF Midnight, Day
<1>3. /\ stream' \in StreamState /\ stream'.rows = stream.rows /\ stream'.fired = stream.fired
      /\ stream'.phase = stream.phase
      /\ stream.phase # "idle" => stream'.today = "yesterday"
  BY <1>1 DEF Midnight, InHand, StreamState, Day
<1>4. \A a \in stream.fired : Key(a)' \in log' /\ Key(a)' \notin mailed'
  <2> SUFFICES ASSUME NEW a \in stream.fired PROVE Key(a)' \in log' /\ Key(a)' \notin mailed'
    OBVIOUS
  <2>1. Key(a) = <<a.ticket, a.flag, "today">> /\ Key(a) \in log /\ Key(a) \notin mailed
    BY <1>1 DEF Key, InHand, IInv, OnceADay
  <2>2. Key(a)' = <<a.ticket, a.flag, "yesterday">>
    BY <1>1, <1>3 DEF Key, InHand
  <2>3. Key(a)' \in log'
    BY <2>1, <2>2 DEF Midnight
  <2>4. ASSUME NEW x \in mailed, x[3] = "today",
               <<x[1], x[2], "yesterday">> = <<a.ticket, a.flag, "yesterday">>
        PROVE  FALSE
    <3>1. x = <<x[1], x[2], x[3]>>
      BY <1>1, <2>4
    <3> QED BY <2>1, <2>4, <3>1
  <2>5. Key(a)' \notin mailed'
    BY <2>2, <2>4 DEF Midnight
  <2> QED BY <2>3, <2>5
<1>5. InHand'
  BY <1>1, <1>3, <1>4 DEF InHand, Midnight
<1>6. TypeOK'
  BY <1>1, <1>2, <1>3 DEF TypeOK, Midnight, Silent, NoLetter, StreamState, outside
<1> QED BY <1>3, <1>4, <1>5, <1>6 DEF IInv, OnceADay, Key

-----------------------------------------------------------------------------
(* The stream job.                                                          *)

\* A step of the job that sends nothing.
LEMMA StreamMoves ==
  ASSUME IInv, InHand', Silent, UNCHANGED mailed, UNCHANGED <<account, board>>,
         log \subseteq log', log' \subseteq Ticket \X Alertable \X Day,
         events' \in 0..MaxEvents,
         \A a \in stream'.fired : Key(a)' \notin mailed
  PROVE  IInv'
BY DEF IInv, OnceADay, TypeOK, InHand, Silent, NoLetter, StreamState, DigestState, Key

LEMMA DetectStep ==
  ASSUME IInv, Detect PROVE IInv'
<1>1. board \in [Ticket -> BoardRow] /\ digest \in DigestState /\ TypeOK
  BY DEF IInv, OnceADay, TypeOK, InHand
<1>2. Raised \subseteq Alert
  BY <1>1 DEF Raised, Alert, BoardRow
<1>3. \A a, b \in Raised : a.ticket = b.ticket /\ a.flag = b.flag => a = b
  BY DEF Raised
<1>4. stream' \in StreamState /\ stream'.rows \subseteq Raised /\ stream'.fired = {}
      /\ stream'.phase = "detecting"
  BY <1>2 DEF Detect, StreamState, Day
<1>5. InHand'
  BY <1>1, <1>3, <1>4 DEF InHand, Detect
<1> QED BY <1>1, <1>4, <1>5, StreamMoves DEF Detect, outside, TypeOK

\* Whatever is inserted has not been mailed: what is mailed is in the log.
LEMMA LogStep ==
  ASSUME IInv, LogAlert PROVE IInv'
<1>1. PICK a \in stream.rows :
         /\ log' = log \cup {Key(a)}
         /\ stream' = [stream EXCEPT !.rows = @ \ {a},
                          !.fired = IF Inserted(Key(a)) THEN @ \cup {a} ELSE @]
  BY DEF LogAlert, Key
<1>2. /\ TypeOK /\ InHand /\ stream \in StreamState /\ stream.phase = "detecting"
      /\ a \in Alert /\ stream.rows \subseteq Alert /\ stream.fired \subseteq Alert
  BY DEF IInv, OnceADay, InHand, LogAlert, StreamState
<1>3. /\ stream'.phase = "detecting" /\ stream'.today = stream.today
      /\ stream'.rows = stream.rows \ {a}
      /\ stream'.fired = IF Key(a) \notin log THEN stream.fired \cup {a} ELSE stream.fired
      /\ stream' \in StreamState
  BY <1>1, <1>2 DEF StreamState, Inserted
<1>4. \A b : Key(b)' = Key(b)
  BY <1>3 DEF Key
<1>5. log' \subseteq Ticket \X Alertable \X Day
  BY <1>1, <1>2 DEF TypeOK, Key, Alert, StreamState
<1>6. \A b \in stream'.fired : Key(b)' \in log' /\ Key(b)' \notin mailed
  <2> SUFFICES ASSUME NEW b \in stream'.fired PROVE Key(b) \in log' /\ Key(b) \notin mailed
    BY <1>4
  <2>1. CASE b \in stream.fired
    BY <1>1, <1>2, <2>1, FiredIsNotMailed DEF InHand
  <2>2. CASE b \notin stream.fired
    BY <1>1, <1>2, <1>3, <2>2 DEF TypeOK
  <2> QED BY <2>1, <2>2
<1>7. InHand'
  BY <1>2, <1>3, <1>6 DEF InHand, LogAlert
<1> QED BY <1>1, <1>2, <1>5, <1>6, <1>7, StreamMoves DEF LogAlert, outside, TypeOK

LEMMA GroupStep ==
  ASSUME IInv, Grouped PROVE IInv'
<1>1. /\ TypeOK /\ InHand /\ stream \in StreamState /\ stream.rows = {}
      /\ stream.fired \subseteq Alert
  BY DEF IInv, OnceADay, InHand, Grouped, StreamState
<1> DEFINE mine == Addressable(stream.fired)
<1>2. mine \subseteq stream.fired /\ \A a \in mine : a.queue \in Queue
  BY <1>1 DEF Addressable, Alert
<1>3. \/ stream' = IdleStream
      \/ /\ stream'.phase = "sending" /\ stream'.today = stream.today
         /\ stream'.rows = {} /\ stream'.fired = mine /\ stream' \in StreamState
  BY <1>1, <1>2 DEF Grouped, StreamState
<1>4. InHand' /\ \A a \in stream'.fired : Key(a)' \notin mailed
  <2>1. CASE stream' = IdleStream
    <3>1. stream' \in StreamState
      BY <2>1 DEF IdleStream, StreamState, Day
    <3>2. digest' \in DigestState
      BY <1>1 DEF InHand, Grouped
    <3> QED BY <1>1, <2>1, <3>1, <3>2 DEF InHand, IdleStream
  <2>2. CASE stream'.phase = "sending" /\ stream'.today = stream.today
             /\ stream'.rows = {} /\ stream'.fired = mine /\ stream' \in StreamState
    <3>1. \A b : Key(b)' = Key(b)
      BY <2>2 DEF Key
    <3> HIDE DEF mine
    <3>2. \A a \in stream'.fired : Key(a)' \in log' /\ Key(a)' \notin mailed
      BY <1>1, <1>2, <2>2, <3>1, FiredIsNotMailed DEF InHand, Grouped
    <3>3. \A a, b \in stream'.rows \cup stream'.fired :
             a.ticket = b.ticket /\ a.flag = b.flag => a = b
      BY <1>1, <1>2, <2>2 DEF InHand
    <3>4. \A a \in stream'.fired : a.queue \in Queue
      BY <1>2, <2>2
    <3>5. digest' \in DigestState
      BY <1>1 DEF InHand, Grouped
    <3> QED BY <2>2, <3>2, <3>3, <3>4, <3>5 DEF InHand
  <2> QED BY <1>3, <2>1, <2>2
<1> QED BY <1>1, <1>4, StreamMoves DEF Grouped, outside, TypeOK

LEMMA CutOffStep ==
  ASSUME IInv, StreamCutOff PROVE IInv'
<1>1. TypeOK /\ InHand /\ events' \in 0..MaxEvents
  BY EventsCount DEF IInv, OnceADay, StreamCutOff
<1>2. InHand' /\ stream'.fired = {}
  BY <1>1 DEF InHand, StreamCutOff, IdleStream, StreamState, Day
<1> QED BY <1>1, <1>2, StreamMoves DEF StreamCutOff, outside, TypeOK

\* The letter of one queue: nothing left for another queue is of the same incident and flag.
LEMMA SendStep ==
  ASSUME IInv, SendAlerts PROVE IInv'
<1>1. /\ TypeOK /\ InHand /\ stream \in StreamState /\ stream.rows = {}
      /\ stream.fired \subseteq Alert /\ stream.phase = "sending"
      /\ \A a \in stream.fired : a.queue \in Queue
  BY DEF IInv, OnceADay, InHand, SendAlerts, StreamState
<1>2. PICK q \in {a.queue : a \in stream.fired}, outcome \in {"SKIPPED", "SUPPRESSED", "SENT", "FAILED"} :
         LET batch    == {a \in stream.fired : a.queue = q}
             audience == AudienceForGroup(account, q, {"LEAD", "VIEWER"})
         IN  /\ Delivers(outcome)
             /\ IF outcome = "SENT"
                THEN /\ letter' = [kind |-> "risk_alert", queue |-> q, to |-> audience.to,
                                   cc |-> audience.cc, about |-> {a.ticket : a \in batch}]
                     /\ mailed' = mailed \cup
                          {<<a.ticket, a.flag, stream.today>> : a \in batch}
                ELSE Silent /\ UNCHANGED mailed
             /\ stream' = IF Rest(batch) = {} THEN IdleStream
                          ELSE [stream EXCEPT !.fired = Rest(batch)]
  BY DEF SendAlerts, Outcomes
<1> DEFINE batch == {a \in stream.fired : a.queue = q}
           left  == Rest(batch)
<1>3. left = {a \in stream.fired : a.queue # q} /\ q \in Queue
  BY <1>1, <1>2 DEF Rest
<1>4. events' \in 0..MaxEvents
  BY <1>1, <1>2, BoundAssumption DEF Delivers, TypeOK
<1>5. mailed' \subseteq mailed \cup {Key(a) : a \in batch}
  BY <1>2 DEF Key
<1>6. mailed' \subseteq log
  BY <1>1, <1>5 DEF InHand, TypeOK
<1>7. \A a \in left : Key(a) \in log /\ Key(a) \notin mailed'
  <2> SUFFICES ASSUME NEW a \in left PROVE Key(a) \in log /\ Key(a) \notin mailed'
    OBVIOUS
  <2>1. a \in stream.fired /\ a.queue # q /\ Key(a) \in log /\ Key(a) \notin mailed
    BY <1>1, <1>3 DEF InHand, IInv, OnceADay, Key
  <2>2. ASSUME NEW b \in batch, Key(b) = Key(a) PROVE FALSE
    <3>1. b.ticket = a.ticket /\ b.flag = a.flag
      BY <2>2 DEF Key
    <3>2. b = a
      BY <1>1, <2>1, <3>1 DEF InHand
    <3> QED BY <2>1, <3>2
  <2> QED BY <1>5, <2>1, <2>2
<1>8. \/ stream' = IdleStream
      \/ /\ stream'.phase = "sending" /\ stream'.today = stream.today
         /\ stream'.rows = {} /\ stream'.fired = left /\ stream' \in StreamState
  BY <1>1, <1>2, <1>3 DEF StreamState
<1>9. InHand' /\ \A a \in stream'.fired : Key(a)' \notin mailed'
  <2>1. CASE stream' = IdleStream
    BY <1>1, <2>1 DEF InHand, IdleStream, StreamState, Day, SendAlerts
  <2>2. CASE stream'.phase = "sending" /\ stream'.today = stream.today
             /\ stream'.rows = {} /\ stream'.fired = left /\ stream' \in StreamState
    <3>1. \A b : Key(b)' = Key(b)
      BY <2>2 DEF Key
    <3> HIDE DEF left
    <3>2. left \subseteq stream.fired
      BY <1>3
    <3> QED BY <1>1, <1>7, <2>2, <3>1, <3>2 DEF InHand, SendAlerts
  <2> QED BY <1>8, <2>1, <2>2
<1>10. letter' = NoLetter \/ (letter'.kind = "risk_alert" /\ letter'.queue = q
                              /\ letter'.about = {a.ticket : a \in batch})
  BY <1>2 DEF Silent
<1>11. TypeOK'
  <2>1. letter'.about \subseteq Ticket /\ (letter'.kind = "risk_alert" => letter'.queue \in Queue)
    BY <1>1, <1>3, <1>10 DEF NoLetter, Alert
  <2> QED BY <1>1, <1>4, <1>6, <1>9, <2>1 DEF TypeOK, SendAlerts, InHand, StreamState, DigestState, outside
<1> QED BY <1>9, <1>11 DEF IInv, OnceADay, Key

-----------------------------------------------------------------------------
(* The digests.                                                             *)

LEMMA DigestSteps ==
  ASSUME IInv, DigestStart \/ LeadDigest \/ AgentDigest \/ DigestCutOff
  PROVE  IInv'
<1>1. TypeOK /\ InHand /\ digest \in DigestState
  BY DEF IInv, OnceADay, InHand
<1>2. UNCHANGED <<account, board, log, stream, mailed>>
  BY DEF DigestStart, LeadDigest, AgentDigest, DigestCutOff, outside
<1>3. digest' \in DigestState
  BY <1>1 DEF DigestStart, LeadDigest, AgentDigest, DigestCutOff, DigestState, IdleDigest
<1>4. events' \in 0..MaxEvents
  BY <1>1, BoundAssumption DEF TypeOK, DigestStart, LeadDigest, AgentDigest, DigestCutOff, Delivers, Happens
<1>5. letter'.kind # "risk_alert" /\ letter'.about \subseteq Ticket
  <2>1. CASE DigestStart \/ DigestCutOff
    BY <2>1 DEF DigestStart, DigestCutOff, Silent, NoLetter
  <2>2. CASE LeadDigest
    BY <2>2 DEF LeadDigest, NoLetter, OfQueue
  <2>3. CASE AgentDigest
    BY <2>3 DEF AgentDigest, NoLetter
  <2> QED BY <2>1, <2>2, <2>3
<1> QED BY <1>1, <1>2, <1>3, <1>4, <1>5 DEF IInv, OnceADay, TypeOK, InHand, DigestState, Key

-----------------------------------------------------------------------------
LEMMA AlertsPreserved ==
  ASSUME IInv, [Next]_vars PROVE IInv'
<1>1. CASE UNCHANGED vars
  BY <1>1 DEF IInv, OnceADay, TypeOK, InHand, Key, vars
<1> QED BY <1>1, AccountSteps, BoardSteps, MidnightStep, DetectStep, LogStep, GroupStep,
           SendStep, CutOffStep, DigestSteps DEF Next, Tick

LEMMA AlertsStart ==
  ASSUME Init PROVE IInv
BY StartAssumption, BoundAssumption
   DEF Init, IInv, OnceADay, TypeOK, InHand, IdleStream, IdleDigest, NoLetter, StreamState,
       DigestState, Day

LEMMA AlertsInvariant == Spec => []IInv
<1>1. Init => IInv
  BY AlertsStart
<1>2. IInv /\ [Next]_vars => IInv'
  BY AlertsPreserved
<1> QED BY <1>1, <1>2, PTL DEF Spec

\* No alert goes out twice under a day, however an incident comes and goes, jobs are cut off
\* and midnights pass between the log and the letter (detect_new_alerts: "INSERT IGNORE makes
\* this idempotent").
THEOREM NoAlertTwiceADay == Spec => []OnceADay
<1>1. IInv => OnceADay
  BY DEF IInv
<1> QED BY <1>1, AlertsInvariant, PTL

-----------------------------------------------------------------------------
(* Who is written to.                                                       *)

\* What a letter about queue must be addressed like.
WellAddressed(queue, to, cc) ==
    /\ cc \subseteq Admins(account)
    /\ \A m \in to : \E u \in User :
         /\ account[u].mail = m /\ account[u].active
         /\ CanSeeGroup(account[u], queue) \/ m \in Admins(account)
    /\ \A u \in User :
         /\ account[u].active /\ account[u].role = "LEAD" /\ account[u].mail # NoMail
         /\ CanSeeGroup(account[u], queue)
         => account[u].mail \in to

LEMMA AudienceMaySee ==
  ASSUME TypeOK, NEW queue, NEW roles, "LEAD" \in roles
  PROVE  WellAddressed(queue, AudienceForGroup(account, queue, roles).to,
                       AudienceForGroup(account, queue, roles).cc)
<1> DEFINE to == RecipientsFor(account, queue, roles)
           audience == AudienceForGroup(account, queue, roles)
<1>1. DOMAIN account = User
  BY DEF TypeOK
<1>2. \A u : Covers(account[u], queue) = CanSeeGroup(account[u], queue)
  BY DEF Covers, CanSeeGroup, Unrestricted
<1>3. /\ audience.to = IF to = {} THEN Admins(account) ELSE to
      /\ audience.cc \subseteq Admins(account)
  BY DEF AudienceForGroup
<1>4. \A m \in to : \E u \in User :
         account[u].mail = m /\ account[u].active /\ CanSeeGroup(account[u], queue)
  BY <1>1, <1>2 DEF RecipientsFor, MailOf, Deliverable
<1>5. \A m \in Admins(account) : \E u \in User : account[u].mail = m /\ account[u].active
  BY <1>1 DEF Admins, MailOf, Deliverable
<1>6. \A u \in User :
         /\ account[u].active /\ account[u].role = "LEAD" /\ account[u].mail # NoMail
         /\ CanSeeGroup(account[u], queue)
         => account[u].mail \in to
  BY <1>1, <1>2 DEF RecipientsFor, MailOf, Deliverable
<1> HIDE DEF to, audience
<1>7. WellAddressed(queue, audience.to, audience.cc)
  BY <1>3, <1>4, <1>5, <1>6 DEF WellAddressed
<1> QED BY <1>7 DEF audience

\* The three conjuncts of MailedMaySee, as one step.
LEMMA LettersGoToWhoMaySee ==
  ASSUME TypeOK, [Next]_vars, letter' # letter, letter'.kind \in {"risk_alert", "daily_digest"}
  PROVE  WellAddressed(letter'.queue, letter'.to, letter'.cc)
<1>1. ~Silent
  BY DEF Silent, NoLetter
<1>2. SendAlerts \/ LeadDigest \/ AgentDigest
  BY <1>1 DEF Next, Tick, vars, AccountChanges, BoardChanges, ShadowSwitches, Midnight, Detect,
              LogAlert, Grouped, StreamCutOff, DigestStart, DigestCutOff, Jobs
<1>3. \E queue, roles :
         LET audience == AudienceForGroup(account, queue, roles)
         IN  /\ "LEAD" \in roles
             /\ letter'.queue = queue /\ letter'.to = audience.to /\ letter'.cc = audience.cc
  <2>1. CASE SendAlerts
    BY <1>1, <2>1 DEF SendAlerts
  <2>2. CASE LeadDigest
    BY <2>2 DEF LeadDigest, NoLetter
  <2>3. CASE AgentDigest
    BY <2>3 DEF AgentDigest, NoLetter
  <2> QED BY <1>2, <2>1, <2>2, <2>3
<1> QED BY <1>3, AudienceMaySee

\* A letter about a queue is addressed to people who may see it on the board, and to every lead
\* who does, whatever roles and scopes are by then (delivery/dispatch.py).
THEOREM LettersStayInScope == Spec => MailedMaySee
<1>1. TypeOK /\ [Next]_vars =>
        [letter'.kind \in {"risk_alert", "daily_digest"} =>
           /\ letter'.cc \subseteq Admins(account)
           /\ \A m \in letter'.to : \E u \in User :
                /\ account[u].mail = m /\ account[u].active
                /\ CanSeeGroup(account[u], letter'.queue) \/ m \in Admins(account)
           /\ \A u \in User :
                /\ account[u].active /\ account[u].role = "LEAD" /\ account[u].mail # NoMail
                /\ CanSeeGroup(account[u], letter'.queue)
                => account[u].mail \in letter'.to]_<<letter>>
  BY LettersGoToWhoMaySee DEF WellAddressed
<1>2. IInv => TypeOK
  BY DEF IInv, OnceADay
<1> QED BY <1>1, <1>2, AlertsInvariant, PTL DEF Spec, MailedMaySee
=============================================================================
