------------------------------ MODULE Verdicts ------------------------------
(***************************************************************************)
(* What leads make of the recommendations for one incident: the decisions   *)
(* and the ratings of articles they record on the ticket page               *)
(* (web/app.py), while the advisor stores answers and books what knowledge  *)
(* articles they were offered and cite (pipeline/advisor.py), and what the  *)
(* accuracy page (web/app.py) and the insights on quality and knowledge     *)
(* (web/insights.py) count of all that.                                     *)
(*                                                                          *)
(* One pass at a time stores an answer; what two may do to each other, and  *)
(* which answer is in force then, is module Recommendations' matter.        *)
(***************************************************************************)
EXTENDS Integers, Sequences, FiniteSets

CONSTANTS
    Hash,        \* inputs the incident may be analysed with
    NoHash,      \* no recommendation
    Article,
    Lead,        \* who may judge: users with the incident in scope, viewers aside
    Unseen,      \* no page open
    Given,       \* bound: the decisions taken in the story
    Ratings,     \* bound: the verdicts given on articles
    MaxDay,      \* bound on the days
    MaxAnswers,  \* bound on the answers of the model
    MaxVerdicts, \* bound on the verdicts
    MaxEvents    \* bound on ratings, failures, restarts and midnights

VARIABLES
    day,
    rec,       \* recommendation: by hash, [id, live, day]
    kb,        \* recommendation_kb: by hash and article
    feedback,  \* recommendation_feedback, in order
    until,     \* suppression: snoozed until the end of this day
    job,       \* the pass at work: where it is, and the answer it holds
    page,      \* by lead: the recommendation on the ticket page they have open
    form,      \* by lead: the decision being recorded
    answers, events,
    newer,     \* history: by lead, has anything been analysed since the page was opened
    booked     \* history: by hash, the last answer stored, if its articles were all recorded

vars == <<day, rec, kb, feedback, until, job, page, form, answers, events, newer, booked>>

Decision == {"ACCEPTED", "REJECTED", "MODIFIED", "NOT_APPLICABLE", "DONE"}

NoRec == [id |-> 0, live |-> FALSE, day |-> 0]
NoUse == [there |-> FALSE, offered |-> FALSE, cited |-> FALSE, verdict |-> "UNRATED", day |-> 0]

\* What the model was offered, and what it says it used; it may make one up.
Answer  == [hash : Hash, offered : SUBSET Article, cited : SUBSET Article]
AtRest  == [at |-> "rest"]
NoForm  == [decision |-> "", step |-> "none"]
Unknown == [known |-> FALSE]

Happens == events < MaxEvents /\ events' = events + 1

-----------------------------------------------------------------------------
(* An analysis: _persist in two statements, then _record_kb row by row.     *)

LiveIds == {rec[h].id : h \in {g \in Hash : rec[g].live}}

\* superseded = 0, the highest id.
Shown == IF LiveIds = {} THEN NoHash
         ELSE CHOOSE h \in Hash : rec[h].live /\ \A i \in LiveIds : i <= rec[h].id

Supersede(a) ==
    /\ job.at = "rest" /\ answers < MaxAnswers
    /\ answers' = answers + 1
    /\ rec' = [h \in Hash |-> [rec[h] EXCEPT !.live = FALSE]]
    /\ job' = [at |-> "store", answer |-> a]
    /\ UNCHANGED <<day, kb, feedback, until, page, form, events, newer, booked>>

NextId == 1 + Cardinality({h \in Hash : rec[h].id # 0})

Store ==
    /\ job.at = "store"
    /\ LET h == job.answer.hash IN
         /\ rec' = [rec EXCEPT ![h] = [id |-> IF @.id = 0 THEN NextId ELSE @.id,
                                       live |-> TRUE, day |-> day]]
         /\ booked' = [booked EXCEPT ![h] = Unknown]
    /\ job' = [at |-> "record", answer |-> job.answer,
               left |-> job.answer.offered \cup job.answer.cited, lost |-> FALSE]
    /\ newer' = [u \in Lead |-> TRUE]
    /\ UNCHANGED <<day, kb, feedback, until, page, form, answers, events>>

\* Mutants: a row that is there keeps its citation, or loses its rating.
UpsertOffered(row, offered, cited) ==
    [row EXCEPT !.there = TRUE, !.offered = offered, !.cited = @ \/ cited]

UpsertAfresh(row, offered, cited) ==
    [NoUse EXCEPT !.there = TRUE, !.offered = offered, !.cited = cited, !.day = row.day]

\* The verdict is not among update_columns.
Upsert(row, offered, cited) ==
    [row EXCEPT !.there = TRUE, !.offered = offered, !.cited = cited]

Recorded(a) ==
    LET h == job.answer.hash
    IN  kb' = [kb EXCEPT ![h][a] = Upsert(@, a \in job.answer.offered, a \in job.answer.cited)]

\* The offered articles first, then those that were made up.
Turn(a) ==
    /\ job.at = "record" /\ a \in job.left
    /\ job.left \cap job.answer.offered # {} => a \in job.answer.offered

Record(a) ==
    /\ Turn(a) /\ Recorded(a)
    /\ job' = [job EXCEPT !.left = @ \ {a}]
    /\ UNCHANGED <<day, rec, feedback, until, page, form, answers, events, newer, booked>>

\* A row that cannot be written is skipped.
RecordFails(a) ==
    /\ Turn(a) /\ Happens
    /\ job' = [job EXCEPT !.left = @ \ {a}, !.lost = TRUE]
    /\ UNCHANGED <<day, rec, kb, feedback, until, page, form, answers, newer, booked>>

AnswerDone ==
    /\ job.at = "record" /\ job.left = {}
    /\ job' = AtRest
    /\ booked' = IF job.lost THEN booked
                 ELSE [booked EXCEPT ![job.answer.hash] =
                          [known |-> TRUE, offered |-> job.answer.offered,
                           cited |-> job.answer.cited]]
    /\ UNCHANGED <<day, rec, kb, feedback, until, page, form, answers, events, newer>>

-----------------------------------------------------------------------------
(* The ticket page and its forms.                                           *)

Open(u) ==
    /\ form[u] = NoForm /\ Len(feedback) < MaxVerdicts
    /\ page' = [page EXCEPT ![u] = Shown]
    /\ newer' = [newer EXCEPT ![u] = FALSE]
    /\ <<page, newer>>' # <<page, newer>>
    /\ UNCHANGED <<day, rec, kb, feedback, until, job, form, answers, events, booked>>

\* Mutant: of all rows the newest, in force or not.
NewestOfAll ==
    LET ids == {rec[h].id : h \in Hash} \ {0}
    IN  IF ids = {} THEN NoHash ELSE CHOOSE h \in Hash : \A i \in ids : i <= rec[h].id

\* What submit_feedback itself reads as being in force.
InForce == Shown

\* submit_feedback reads which recommendation that is, and inserts.
Judge(u, decision) ==
    /\ page[u] # Unseen /\ form[u] = NoForm /\ Len(feedback) < MaxVerdicts
    /\ feedback' = Append(feedback, [on |-> InForce, by |-> u, decision |-> decision, day |-> day,
                                     seen |-> page[u], newer |-> newer[u]])
    /\ form' = [form EXCEPT ![u] = IF decision \in {"DONE", "NOT_APPLICABLE"}
                                   THEN [decision |-> decision, step |-> "snooze"] ELSE NoForm]
    /\ page' = [page EXCEPT ![u] = Unseen]
    /\ UNCHANGED <<day, rec, kb, until, job, answers, events, newer, booked>>

\* ... and then it is snoozed for 48 hours.
SnoozeJudged(u) ==
    /\ form[u].step = "snooze"
    /\ until' = day + 2
    /\ form' = [form EXCEPT ![u] = NoForm]
    /\ UNCHANGED <<day, rec, kb, feedback, job, page, answers, events, newer, booked>>

Ratable(a) == {h \in Hash : kb[h][a].cited}

\* rate_kb: every row of the incident that cites the article, of whatever recommendation.
Rate(u, a, verdict) ==
    /\ page[u] # Unseen /\ Happens
    /\ Ratable(a) # {}
    /\ kb' = [h \in Hash |->
                [kb[h] EXCEPT ![a] = IF h \in Ratable(a)
                                     THEN [@ EXCEPT !.verdict = verdict, !.day = day] ELSE @]]
    /\ kb' # kb
    /\ UNCHANGED <<day, rec, feedback, until, job, page, form, answers, newer, booked>>

\* The web process ends: decisions half recorded, and the analysis it may be making.
Restart ==
    /\ Happens
    /\ job' = AtRest
    /\ form' = [u \in Lead |-> NoForm] /\ page' = [u \in Lead |-> Unseen]
    /\ <<job, form, page>>' # <<job, form, page>>
    /\ UNCHANGED <<day, rec, kb, feedback, until, answers, newer, booked>>

NextDay ==
    /\ day < MaxDay /\ Happens
    /\ day' = day + 1
    /\ UNCHANGED <<rec, kb, feedback, until, job, page, form, answers, newer, booked>>

Init ==
    /\ day = 1
    /\ rec = [h \in Hash |-> NoRec]
    /\ kb = [h \in Hash |-> [a \in Article |-> NoUse]]
    /\ feedback = <<>> /\ until = 0
    /\ job = AtRest
    /\ page = [u \in Lead |-> Unseen] /\ form = [u \in Lead |-> NoForm]
    /\ answers = 0 /\ events = 0
    /\ newer = [u \in Lead |-> FALSE]
    /\ booked = [h \in Hash |-> Unknown]

Next ==
    \/ \E a \in Answer : Supersede(a)
    \/ Store \/ AnswerDone
    \/ \E a \in Article : Record(a) \/ RecordFails(a)
    \/ \E u \in Lead : Open(u) \/ SnoozeJudged(u) \/ \E d \in Given : Judge(u, d)
    \/ \E u \in Lead, a \in Article, v \in Ratings : Rate(u, a, v)
    \/ Restart \/ NextDay

-----------------------------------------------------------------------------
(* The reports, over the last n days.                                       *)

Recent(n) == {d \in 1..MaxDay : d + n > day}

Judged(n)             == {i \in DOMAIN feedback : feedback[i].day \in Recent(n)}
Deciding(n, decisions) == Cardinality({i \in Judged(n) : feedback[i].decision \in decisions})

Made(n)  == {h \in Hash : rec[h].id # 0 /\ rec[h].day \in Recent(n)}
Uses(n)  == {u \in Made(n) \X Article : kb[u[1]][u[2]].there}
Use(u)   == kb[u[1]][u[2]]

Rated(u, n) == Use(u).cited /\ Use(u).verdict # "UNRATED" /\ Use(u).day \in Recent(n)
RatingsOf(n)  == {u \in Hash \X Article : Rated(u, n)}

\* Mutant: ratings of articles no longer cited are counted on one of the pages.
RatingsOfAll(n) ==
    {u \in Hash \X Article : Use(u).verdict # "UNRATED" /\ Use(u).day \in Recent(n)}

Count(uses, P(_)) == Cardinality({u \in uses : P(Use(u))})

Relevant(uses) == Count(uses, LAMBDA r : r.verdict = "RELEVANT")

\* Insights.quality; AGREED includes DONE.
Quality(n) ==
    [judged   |-> Cardinality(Judged(n)),
     agreed   |-> Deciding(n, {"ACCEPTED", "MODIFIED", "DONE"}),
     produced |-> Cardinality({h \in Made(n) : rec[h].live})]

\* Insights.knowledge.
Knowledge(n) ==
    [withCite |-> Cardinality({u[1] : u \in {v \in Uses(n) : Use(v).cited}}),
     offered  |-> Count(Uses(n), LAMBDA r : r.offered),
     cited    |-> Count(Uses(n), LAMBDA r : r.cited),
     invented |-> Count(Uses(n), LAMBDA r : r.cited /\ ~r.offered),
     rated    |-> Cardinality(RatingsOf(n)),
     relevant |-> Relevant(RatingsOf(n))]

RatingsToAccount(n) == RatingsOf(n)

\* _accuracy_metrics; of one incident, what was recommended and reviewed is 0 or 1.
Accuracy(n) ==
    LET live == {h \in Made(n) : rec[h].live}
    IN  [total       |-> Cardinality(Judged(n)),
         agreed      |-> Deciding(n, {"ACCEPTED", "MODIFIED"}),
         judged      |-> Deciding(n, Decision \ {"DONE"}),
         recommended |-> IF live = {} THEN 0 ELSE 1,
         reviewed    |-> IF live = {} \/ Judged(n) = {} THEN 0 ELSE 1,
         withCite    |-> Cardinality({u[1] : u \in {v \in Uses(n) : Use(v).cited}}),
         offered     |-> Count(Uses(n), LAMBDA r : r.offered),
         cited       |-> Count(Uses(n), LAMBDA r : r.cited),
         invented    |-> Count(Uses(n), LAMBDA r : r.cited /\ ~r.offered),
         rated       |-> Cardinality(RatingsToAccount(n)),
         relevant    |-> Relevant(RatingsToAccount(n))]

-----------------------------------------------------------------------------
(* Properties.                                                              *)

\* A verdict is booked on the recommendation its author was looking at, unless another has
\* been stored since the page was opened - also when an older answer came back into force.
JudgedWasShown ==
    \A i \in DOMAIN feedback :
        ~feedback[i].newer => feedback[i].on \in {feedback[i].seen, NoHash}

\* What is on record of an article is what the last answer did with it: offered or not,
\* cited or not, whatever an earlier answer to the same question did - once all of that
\* answer's articles are recorded.
CitationsBooked ==
    \A h \in Hash : booked[h].known =>
        \A a \in booked[h].offered \cup booked[h].cited :
            /\ kb[h][a].offered <=> a \in booked[h].offered
            /\ kb[h][a].cited <=> a \in booked[h].cited

\* Nothing but rating an article changes what a lead said of it: no later answer does.
RatingsSurvive ==
    [][\A h \in Hash, a \in Article :
          kb'[h][a].verdict # kb[h][a].verdict => \E u \in Lead, v \in Ratings : Rate(u, a, v)]_kb

\* The accuracy page and the pages of the insights do not contradict each other, but for
\* what they call agreement.
ReportsAgree ==
    \A n \in 1..MaxDay :
        LET a == Accuracy(n)  q == Quality(n)  k == Knowledge(n)
        IN  /\ a.total = q.judged
            /\ \A f \in DOMAIN k : a[f] = k[f]
=============================================================================
