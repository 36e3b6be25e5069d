------------------------------- MODULE Alerts -------------------------------
(***************************************************************************)
(* The mail about a queue: the stream job's risk alerts (detect_new_alerts  *)
(* and send_risk_alerts) and the digests, over the board, the accounts and  *)
(* alert_log, with midnights, failures of the relay and cut-off jobs.       *)
(*                                                                          *)
(* An alert is logged by an INSERT IGNORE on (incident, type, day) before   *)
(* anybody is written to; a letter is one queue's.  A board row is where    *)
(* an incident is, what is raised about it and whether it is shown.  Days   *)
(* are today and the day before: alert_log is asked about no other.         *)
(***************************************************************************)
EXTENDS Naturals, FiniteSets, Audience

CONSTANTS
    Ticket, Queue, User,
    Flag,        \* risk flags
    Alertable,   \* detect_new_alerts: alertable
    Profiles,    \* what an account may be
    Names,       \* by account, the agents its names stand for
    Start,       \* the board the story begins with
    MaxEvents    \* bound on changes, failures and cut-offs

ASSUME FlagAssumption  == Alertable \subseteq Flag
ASSUME QueueAssumption == NoQueue \notin Queue
ASSUME ProfileAssumption ==
    \A a \in Profiles : a.role \in {"VIEWER", "LEAD", "ADMIN"} /\ a.scope \subseteq Queue
ASSUME BoundAssumption == MaxEvents \in Nat

\* A row of the board; agents are named as ServiceNow names them.
BoardRow == [queue : Queue \cup {NoQueue}, flags : SUBSET Flag, shown : BOOLEAN,
             agent : {Start[t].agent : t \in Ticket}]

ASSUME StartAssumption == Start \in [Ticket -> BoardRow]

VARIABLES
    account,   \* advisor_user
    board,     \* v_current_board and the tickets off it
    settings,  \* the mailer's live configuration
    log,       \* alert_log: <<ticket, flag, day>>
    stream,    \* the stream job: [phase, today, rows, fired]
    digest,    \* the digest job: [phase, left]
    letter,    \* history: the letter of the last step, if it sent one
    mailed,    \* history: alerts that reached the relay, by the day they are logged under
    events     \* changes, failures and cut-offs so far

outside == <<account, board, settings>>
vars == <<account, board, settings, log, stream, digest, letter, mailed, events>>

Day == {"today", "yesterday"}

Alert == [ticket : Ticket, flag : Alertable, queue : Queue \cup {NoQueue}]

NoLetter   == [kind |-> "none", queue |-> NoQueue, to |-> {}, cc |-> {}, about |-> {}]
IdleStream == [phase |-> "idle", today |-> "today", rows |-> {}, fired |-> {}]
IdleDigest == [phase |-> "idle", left |-> {}]

-----------------------------------------------------------------------------
(* What happens around the jobs.                                            *)

Happens == events < MaxEvents /\ events' = events + 1

Silent == letter' = NoLetter

Jobs == Silent /\ UNCHANGED <<log, stream, digest, mailed>>

AccountChanges ==
    /\ Happens
    /\ \E u \in User, a \in Profiles :
         a # account[u] /\ account' = [account EXCEPT ![u] = a]
    /\ UNCHANGED <<board, settings>> /\ Jobs

\* The sync moves, retires or brings back an incident, a pass raises or clears a flag of it,
\* a lead snoozes it.
BoardChanges ==
    /\ Happens
    /\ \E t \in Ticket :
         \/ \E q \in (Queue \cup {NoQueue}) \ {board[t].queue} :
              board' = [board EXCEPT ![t].queue = q]
         \/ board' = [board EXCEPT ![t].shown = ~@]
         \/ \E f \in Flag : board' = [board EXCEPT ![t].flags =
                                        IF f \in @ THEN @ \ {f} ELSE @ \cup {f}]
    /\ UNCHANGED <<account, settings>> /\ Jobs

ShadowSwitches ==
    /\ Happens
    /\ settings' = [settings EXCEPT !.shadow = ~@]
    /\ UNCHANGED <<account, board>> /\ Jobs

\* Midnight.  A pass that took its date before it keeps that date.
Midnight ==
    /\ stream.today = "today"
    /\ log' = {<<x[1], x[2], "yesterday">> : x \in {y \in log : y[3] = "today"}}
    /\ mailed' = {<<x[1], x[2], "yesterday">> : x \in {y \in mailed : y[3] = "today"}}
    /\ stream' = IF stream.phase = "idle" THEN stream
                 ELSE [stream EXCEPT !.today = "yesterday"]
    /\ Silent /\ UNCHANGED <<digest, events>> /\ UNCHANGED outside

-----------------------------------------------------------------------------
(* detect_new_alerts: the board once, then one INSERT IGNORE per flag.      *)

Raised ==
    {[ticket |-> t, flag |-> f, queue |-> board[t].queue] :
        t \in {u \in Ticket : board[u].shown}, f \in Alertable}

OnBoard(a) == a.flag \in board[a.ticket].flags

Detect ==
    /\ stream.phase = "idle"
    /\ stream' = [phase |-> "detecting", today |-> "today",
                  rows |-> {a \in Raised : OnBoard(a)}, fired |-> {}]
    /\ Silent /\ UNCHANGED <<log, digest, mailed, events>> /\ UNCHANGED outside

\* Mutants: every row counts as inserted, or an alert fires once and for all.
InsertBlindly(key) == TRUE
InsertEver(key)    == \A d \in Day : <<key[1], key[2], d>> \notin log

Inserted(key) == key \notin log

LogAlert ==
    /\ stream.phase = "detecting"
    /\ \E a \in stream.rows :
         LET key == <<a.ticket, a.flag, stream.today>>
         IN  /\ log' = log \cup {key}
             /\ stream' = [stream EXCEPT !.rows = @ \ {a},
                                         !.fired = IF Inserted(key) THEN @ \cup {a} ELSE @]
    /\ Silent /\ UNCHANGED <<digest, mailed, events>> /\ UNCHANGED outside

\* Mutant: what has no queue is sent like the rest.
AddressableAll(alerts) == alerts

\* send_risk_alerts: alerts of no queue are reported and not sent.
Addressable(alerts) == {a \in alerts : a.queue # NoQueue}

Grouped ==
    /\ stream.phase = "detecting" /\ stream.rows = {}
    /\ LET mine == Addressable(stream.fired)
       IN  stream' = IF mine = {} THEN IdleStream
                     ELSE [stream EXCEPT !.phase = "sending", !.fired = mine]
    /\ Silent /\ UNCHANGED <<log, digest, mailed, events>> /\ UNCHANGED outside

Rest(batch) == {a \in stream.fired : a \notin batch}

\* What the relay may make of a letter; a failure is one of the bounded events.
Delivers(outcome) ==
    /\ outcome = "FAILED" => events < MaxEvents
    /\ events' = IF outcome = "FAILED" THEN events + 1 ELSE events

SendAlerts ==
    /\ stream.phase = "sending"
    /\ \E q \in {a.queue : a \in stream.fired} :
         LET batch    == {a \in stream.fired : a.queue = q}
             audience == AudienceForGroup(account, q, {"LEAD", "VIEWER"})
         IN  \E outcome \in Outcomes(settings, "risk_alert", audience.to) :
               /\ Delivers(outcome)
               /\ IF outcome = "SENT"
                  THEN /\ letter' = [kind |-> "risk_alert", queue |-> q, to |-> audience.to,
                                     cc |-> audience.cc, about |-> {a.ticket : a \in batch}]
                       /\ mailed' = mailed \cup
                            {<<a.ticket, a.flag, stream.today>> : a \in batch}
                  ELSE Silent /\ UNCHANGED mailed
               /\ stream' = IF Rest(batch) = {} THEN IdleStream
                            ELSE [stream EXCEPT !.fired = Rest(batch)]
    /\ UNCHANGED <<log, digest>> /\ UNCHANGED outside

\* stream_tick's except, or a restart: what was logged stays logged.
StreamCutOff ==
    /\ Happens
    /\ stream.phase # "idle"
    /\ stream' = IdleStream
    /\ Silent /\ UNCHANGED <<log, digest, mailed>> /\ UNCHANGED outside

-----------------------------------------------------------------------------
(* The digests: one letter per queue, then one per agent.                   *)

DigestStart ==
    /\ digest.phase = "idle"
    /\ digest' = [phase |-> "leads", left |-> Queue]
    /\ Silent /\ UNCHANGED <<log, stream, mailed, events>> /\ UNCHANGED outside

OfQueue(q) == {t \in Ticket : board[t].shown /\ board[t].queue = q}

LeadDigest ==
    /\ digest.phase = "leads"
    /\ \E q \in digest.left :
         LET audience == AudienceForGroup(account, q, {"LEAD"})
             about    == OfQueue(q)
         IN  \E outcome \in Outcomes(settings, "daily_digest", audience.to) :
               /\ Delivers(outcome)
               /\ letter' = IF outcome = "SENT" /\ about # {}
                            THEN [kind |-> "daily_digest", queue |-> q, to |-> audience.to,
                                  cc |-> audience.cc, about |-> about]
                            ELSE NoLetter
               /\ digest' = IF digest.left = {q} THEN [phase |-> "agents", left |-> User]
                            ELSE [digest EXCEPT !.left = @ \ {q}]
    /\ UNCHANGED <<log, stream, mailed>> /\ UNCHANGED outside

\* An agent's own incidents in the queues covered; no address, no letter.
AgentDigest ==
    /\ digest.phase = "agents"
    /\ \E agent \in digest.left :
         LET about == {t \in Ticket : board[t].shown /\ board[t].queue \in Queue
                                      /\ board[t].agent = agent}
             to    == AgentMail(account, Names, agent)
         IN  /\ letter' \in
                  (IF about # {} /\ "SENT" \in Outcomes(settings, "agent_digest", to)
                   THEN {[kind |-> "agent_digest", queue |-> NoQueue, to |-> {m}, cc |-> {},
                          about |-> about] : m \in to}
                   ELSE {NoLetter})
             /\ digest' = IF digest.left = {agent} THEN IdleDigest
                          ELSE [digest EXCEPT !.left = @ \ {agent}]
    /\ UNCHANGED <<log, stream, mailed, events>> /\ UNCHANGED outside

DigestCutOff ==
    /\ Happens
    /\ digest.phase # "idle"
    /\ digest' = IdleDigest
    /\ Silent /\ UNCHANGED <<log, stream, mailed>> /\ UNCHANGED outside

-----------------------------------------------------------------------------
Tick == Detect \/ LogAlert \/ Grouped \/ SendAlerts

Init ==
    /\ account \in [User -> Profiles]
    /\ board = Start
    /\ settings = [shadow |-> FALSE, enabled |-> TRUE, shadowExempt |-> {"role_request"}]
    /\ log = {} /\ mailed = {} /\ letter = NoLetter
    /\ stream = IdleStream /\ digest = IdleDigest
    /\ events = 0

Next ==
    \/ AccountChanges \/ BoardChanges \/ ShadowSwitches \/ Midnight
    \/ Tick \/ StreamCutOff
    \/ DigestStart \/ LeadDigest \/ AgentDigest \/ DigestCutOff

\* The scheduler keeps firing the stream job, and the days go by.
Spec     == Init /\ [][Next]_vars
FairSpec == Spec /\ WF_vars(Tick) /\ WF_vars(Midnight)

-----------------------------------------------------------------------------
(* Properties.                                                              *)

\* The jobs, alert_log and the letters keep their shape.
TypeOK ==
    /\ account \in [User -> Profiles]
    /\ board \in [Ticket -> BoardRow]
    /\ log \subseteq Ticket \X Alertable \X Day /\ mailed \subseteq log
    /\ stream.phase \in {"idle", "detecting", "sending"} /\ stream.today \in Day
    /\ stream.rows \subseteq Alert /\ stream.fired \subseteq Alert
    /\ digest.phase \in {"idle", "leads", "agents"}
    /\ letter.kind = "risk_alert" => letter.queue \in Queue
    /\ letter.about \subseteq Ticket
    /\ events \in 0..MaxEvents

\* What waits to be mailed has not been mailed before under the same day, though the incident
\* left the board and came back, changed queues, or the pass before was cut off half-way.
OnceADay ==
    /\ TypeOK
    /\ \A a \in stream.fired : <<a.ticket, a.flag, stream.today>> \notin mailed

\* Addressed by mail are people who may see the queue on the board - or nobody may but the
\* administrators; copied are administrators.  So it is for the accounts as they are then.
MailedMaySee ==
    [][letter'.kind \in {"risk_alert", "daily_digest"} =>
         /\ letter'.cc \subseteq Admins(account)
         /\ \A m \in letter'.to : \E u \in User :
              /\ account[u].mail = m /\ account[u].active
              /\ CanSeeGroup(account[u], letter'.queue) \/ m \in Admins(account)
         /\ \A u \in User :
              /\ account[u].active /\ account[u].role = "LEAD" /\ account[u].mail # NoMail
              /\ CanSeeGroup(account[u], letter'.queue)
              => account[u].mail \in letter'.to]_<<letter>>

\* Somebody can be reached about every queue, and the relay is open to alerts.
Reachable == Admins(account) # {} /\ ~Suppressed(settings, "risk_alert")

Watched(t, f) == board[t].shown /\ f \in board[t].flags /\ board[t].queue # NoQueue

\* A risk that stays is mailed about again and again, however the first letters were lost:
\* the log swallows the rest of a day, never the days after.
LossIsForADay ==
    \A t \in Ticket, f \in Alertable :
        <>[](Reachable /\ Watched(t, f)) => []<>(\E d \in Day : <<t, f, d>> \in mailed)
=============================================================================
