------------------------------ MODULE Advising ------------------------------
(***************************************************************************)
(* Around the recommendation the board shows (module Recommendations): the  *)
(* index its evidence comes from, what its prompt and its answer are made   *)
(* of, and what leads say of it.                                            *)
(*                                                                          *)
(* The parts meet in tables - the index writes what the evidence reads, an  *)
(* answer is what Recommendations stores, verdicts are on what it shows -   *)
(* and each takes what it meets there from a set of everything it can be.   *)
(* "about" is the part a behaviour is about; the others rest.               *)
(***************************************************************************)
EXTENDS Recommendations, Integers, FiniteSets, Sequences

CONSTANTS
    \* EvidenceIndex
    Incident, Article, Text, Category, Near, MinSimilarity, TopK, Process, Adviser,
    BatchSize, AtFirst, MaxBuilds,
    \* Advice
    Ticket, Section, Content, Pattern, Group, Reply, NoTarget, MaxRetries, MinConfidence,
    \* Verdicts
    Input, NoInput, Lead, Unseen, Given, Ratings, MaxReportDay, MaxAnswers, MaxVerdicts

VARIABLES
    about,
    snow, store, memory, building, builds, indexEvents, outdated, overtaken,
    content, asking,
    today, rec, kb, feedback, until, answering, page, form, answers, verdictEvents,
    newer, booked

\* Incidents and articles are kept apart, by kind; similarity is a number; similar incidents
\* are asked for by three (evidence_for, top_k), never by one.
ASSUME EvidenceAssumption ==
    /\ Incident \cap Article = {} /\ IsFiniteSet(Incident) /\ IsFiniteSet(Article)
    /\ Adviser \subseteq Process
    /\ AtFirst \in [Incident \cup Article -> [text : Text, closed : BOOLEAN, noted : BOOLEAN]]
    /\ Near \in [Text -> [Text -> Int]] /\ MinSimilarity \in Int
    /\ TopK \in Nat /\ TopK >= 2 /\ BatchSize \in Nat \ {0}

IsSequence(s) == s \in Seq({s[n] : n \in DOMAIN s})

\* The parts of a prompt are texts, sequences of words that stand at an assignment or not;
\* confidence is a number.
ASSUME PromptAssumption ==
    /\ IsSequence(Section) /\ IsSequence(Pattern)
    /\ \A t \in Ticket, n \in DOMAIN Section : \A c \in Content[t] :
          LET text == c[Section[n]]
          IN  IsSequence(text) /\ \A i \in DOMAIN text : text[i].keyed \in BOOLEAN
    /\ \A a \in Reply : a.confidence \in Int
    /\ MinConfidence \in Int

Index   == INSTANCE EvidenceIndex WITH job <- building, events <- indexEvents
Model   == INSTANCE Advice WITH job <- asking
Verdict == INSTANCE Verdicts WITH Hash <- Input, NoHash <- NoInput, MaxDay <- MaxReportDay,
                                  day <- today, job <- answering, events <- verdictEvents

indexVars   == <<snow, store, memory, building, builds, indexEvents, outdated, overtaken>>
modelVars   == <<content, asking>>
verdictVars == <<today, rec, kb, feedback, until, answering, page, form, answers,
                 verdictEvents, newer, booked>>

allVars == <<vars, about, indexVars, modelVars, verdictVars>>

AllInit ==
    /\ about \in {"shown", "index", "model", "verdicts"}
    /\ Init /\ Index!Init /\ Model!Init /\ Verdict!Init
    /\ about # "shown" => <<ticket, signals, llm>> = CHOOSE s \in Fact \X Fact \X {TRUE} : TRUE
    /\ about # "model" => \A t \in Ticket : content[t] = CHOOSE c \in Content[t] : TRUE

AboutShown == about = "shown" /\ Next
    /\ UNCHANGED <<about, indexVars, modelVars, verdictVars>>

AboutIndex == about = "index" /\ Index!Next
    /\ UNCHANGED <<about, vars, modelVars, verdictVars>>

AboutModel == about = "model" /\ Model!Next
    /\ UNCHANGED <<about, vars, indexVars, verdictVars>>

AboutVerdicts == about = "verdicts" /\ Verdict!Next
    /\ UNCHANGED <<about, vars, indexVars, modelVars>>

AllNext == AboutShown \/ AboutIndex \/ AboutModel \/ AboutVerdicts

\* What runs in Recommendations runs on here; the others promise nothing in the long run.
AllFairness ==
    /\ \A p \in Pass \ ByHand : WF_vars(about = "shown" /\ Begin(p))
    /\ \A p \in Pass : WF_vars(about = "shown" /\ Continue(p))

AllSpec == AllInit /\ [][AllNext]_allVars /\ AllFairness

-----------------------------------------------------------------------------
(* The properties of the parts.                                             *)

\* In the long run: an incident that stays as it is ends with its own answer in force, and
\* costs no more calls.
AnswersSettle == about = "shown" => LatestIsLive /\ ModelCallsStop

\* Evidence is of the texts it names, of the index as it is, and fits the ticket; a build
\* brings the index up to date.
EvidenceIsSound ==
    /\ [](Index!VectorsBelong /\ Index!MemoryIsStore /\ Index!EvidenceFits)
    /\ Index!BuiltIsCurrent

\* Nothing hidden leaves for the model, nothing of one ticket comes back in another's answer,
\* and what is advised can be done.
AdviceIsClean ==
    Model!EchoIsOriginal /\ Model!HiddenInPrompt /\ Model!OnlyItsOwn /\ Model!TargetsAreReal

\* Verdicts stand on what was shown, ratings on what was cited, through every later answer;
\* and the reports count them alike.
VerdictsCount ==
    /\ [](Verdict!JudgedWasShown /\ Verdict!CitationsBooked /\ Verdict!ReportsAgree)
    /\ Verdict!RatingsSurvive
=============================================================================
