------------------------------- MODULE Advice -------------------------------
(***************************************************************************)
(* One call of the model per ticket (pipeline/advisor.py), several at a     *)
(* time: what is put in its prompt once core/redaction.py has been over it, *)
(* the call with its retries (core/llm/client.py), what is made of the      *)
(* answer (core/llm/schemas.py) and what is put back into the drafts.       *)
(*                                                                          *)
(* A text is a sequence of words; a word is "keyed" when it stands where a  *)
(* secret is assigned ("password: ...").  Redaction is on.  Confidence is   *)
(* in hundredths.  What is stored is module Recommendations' matter.        *)
(***************************************************************************)
EXTENDS Integers, Sequences, FiniteSets, SequencesExt

CONSTANTS
    Ticket,
    Section,        \* the parts of a prompt that are scrubbed, in that order
    Content,        \* bound: by ticket, what its parts may say, a record by part
    Pattern,        \* _PATTERNS, in order: [label, words]
    Group,          \* valid_groups
    Reply,         \* bound: what the model may say, [action, target, confidence]
    NoTarget,
    MaxRetries,     \* llm.max_retries
    MinConfidence   \* llm.min_confidence_to_surface

VARIABLES
    content,   \* by ticket, what it says
    job        \* by ticket, how far its analysis is

vars == <<content, job>>

AtRest == [at |-> "rest"]

-----------------------------------------------------------------------------
(* Redactor: the values it has met, in order, with the label of each.       *)

\* Mutant: the counters stand still.
PlaceholderUncounted(r, i) == [label |-> r[i].label, number |-> 1]

Placeholder(r, i) ==
    [label |-> r[i].label, number |-> Cardinality({j \in 1..i : r[j].label = r[i].label})]

Met(r, word) == {i \in DOMAIN r : r[i].value = word}

Named(r, label, word) ==
    IF Met(r, word) # {} THEN r ELSE Append(r, [label |-> label, value |-> word])

Secrets(r, text) ==
    FoldLeft(LAMBDA s, w : IF w.keyed THEN Named(s, "SECRET", w.word) ELSE s, r, text)

Matching(r, text, pattern) ==
    FoldLeft(LAMBDA s, w : IF ~w.keyed /\ w.word \in pattern.words
                           THEN Named(s, pattern.label, w.word) ELSE s, r, text)

\* scrub: the secrets of the text, then one pattern after the other.
Learned(r, text) ==
    FoldLeft(LAMBDA s, p : Matching(s, text, p), Secrets(r, text), Pattern)

Recognised(w) == w.keyed \/ \E n \in DOMAIN Pattern : w.word \in Pattern[n].words

Scrubbed(r, text) ==
    [n \in DOMAIN text |->
        IF Recognised(text[n])
        THEN Placeholder(r, CHOOSE i \in Met(r, text[n].word) : TRUE)
        ELSE [word |-> text[n].word]]

\* restore: what is not a placeholder of this redactor stays as it is.
Restored(r, w) ==
    LET of == {i \in DOMAIN r : Placeholder(r, i) = w}
    IN  IF of = {} THEN w ELSE [word |-> r[CHOOSE i \in of : TRUE].value]

-----------------------------------------------------------------------------
(* recommend: the prompt.                                                   *)

\* Mutant: one redactor for all that is under way.
SharedRedactor(t) ==
    LET others == {u \in Ticket \ {t} : job[u].at # "rest"}
    IN  IF others = {} THEN <<>> ELSE job[CHOOSE u \in others : TRUE].redactor

NewRedactor(t) == <<>>

AllLearned(t) ==
    FoldLeft(LAMBDA r, s : Learned(r, content[t][s]), NewRedactor(t), Section)

\* Mutant: the articles go as they are.
PromptButArticles(r, t) ==
    [s \in ToSet(Section) |->
        IF s = "kb" THEN [n \in DOMAIN content[t][s] |-> [word |-> content[t][s][n].word]]
        ELSE Scrubbed(r, content[t][s])]

Prompt(r, t) == [s \in ToSet(Section) |-> Scrubbed(r, content[t][s])]

Begin(t) ==
    /\ job[t].at = "rest"
    /\ LET r == AllLearned(t)
       IN  job' = [job EXCEPT ![t] = [at |-> "asking", redactor |-> r, prompt |-> Prompt(r, t),
                                      attempts |-> 0]]
    /\ UNCHANGED content

-----------------------------------------------------------------------------
(* The call.                                                                *)

Failed(t) == job' = [job EXCEPT ![t] = [at |-> "failed", redactor |-> job[t].redactor]]

\* _with_retry: what may pass by itself is tried again, anything else is not.
CallFails(t, passing) ==
    /\ job[t].at = "asking"
    /\ IF passing /\ job[t].attempts + 1 < MaxRetries
       THEN job' = [job EXCEPT ![t].attempts = @ + 1]
       ELSE Failed(t)
    /\ UNCHANGED content

\* Cut short, blocked, not JSON, or not what the schema asks for: no second attempt.
Useless(t) == job[t].at = "asking" /\ Failed(t) /\ UNCHANGED content

Empty == [empty |-> TRUE]

\* Mutant: the action is kept, whatever the target was.
SaneTarget(a) ==
    IF a.action = "REASSIGN" /\ a.target \in Group THEN a ELSE [a EXCEPT !.target = NoTarget]

\* sanitise: a target only for REASSIGN, and only one of the groups there are; no message
\* where there is nothing to do.
Sane(a) ==
    IF a.action # "REASSIGN"
    THEN [a EXCEPT !.target = NoTarget,
                   !.message = IF a.action = "NO_ACTION_NEEDED" THEN Empty ELSE @]
    ELSE IF a.target \in Group \cup {NoTarget} THEN a
    ELSE [a EXCEPT !.action = "ESCALATE", !.target = NoTarget,
                   !.confidence = IF @ < 50 THEN @ ELSE 50]

\* The placeholders a model may use: those it was shown, and the like.
Placeholders ==
    [label : {Pattern[n].label : n \in DOMAIN Pattern} \cup {"SECRET"}, number : 1..2]

\* Whatever it was given, it may write any placeholder into a draft; the drafts are restored.
Answered(t) ==
    /\ job[t].at = "asking"
    /\ \E a \in Reply, w \in Placeholders :
         LET said == Sane([action |-> a.action, target |-> a.target,
                           confidence |-> a.confidence, message |-> w])
         IN  job' = [job EXCEPT ![t] =
                       [at |-> "done", redactor |-> job[t].redactor, asked |-> a,
                        advice |-> [said EXCEPT !.message = Restored(job[t].redactor, @)],
                        surfaced |-> said.confidence >= MinConfidence]]
    /\ UNCHANGED content

Init ==
    /\ content \in {c \in [Ticket -> UNION {Content[t] : t \in Ticket}] :
                       \A t \in Ticket : c[t] \in Content[t]}
    /\ job = [t \in Ticket |-> AtRest]

Next ==
    \E t \in Ticket :
        \/ Begin(t) \/ Answered(t) \/ Useless(t)
        \/ \E passing \in BOOLEAN : CallFails(t, passing)

-----------------------------------------------------------------------------
(* Properties.                                                              *)

Words(t) == UNION {{content[t][s][n].word : n \in DOMAIN content[t][s]} : s \in ToSet(Section)}

Asking(t) == job[t].at = "asking"

Everywhere(t) == UNION {{<<s, n>> : n \in DOMAIN content[t][s]} : s \in ToSet(Section)}

\* A placeholder copied from anywhere in a prompt comes back as the word that stood there,
\* however often and under whichever label that word or others were met before.
EchoIsOriginal ==
    \A t \in Ticket : Asking(t) =>
        \A p \in Everywhere(t) :
            Restored(job[t].redactor, job[t].prompt[p[1]][p[2]])
                = [word |-> content[t][p[1]][p[2]].word]

\* Where a value is recognised it does not reach the model, in no part of the prompt.
HiddenInPrompt ==
    \A t \in Ticket : Asking(t) =>
        \A p \in Everywhere(t) :
            Recognised(content[t][p[1]][p[2]]) => "label" \in DOMAIN job[t].prompt[p[1]][p[2]]

\* The drafts for a ticket name nothing that is not in its own texts, whatever placeholder
\* the model makes up and whichever tickets are analysed beside it.
OnlyItsOwn ==
    \A t \in Ticket :
        job[t].at = "done" /\ "word" \in DOMAIN job[t].advice.message =>
            job[t].advice.message.word \in Words(t)

\* A suggestion to move a ticket names a queue there is, or none; one the model made up is
\* an escalation nobody is pushed, as long as half sure is not sure enough.
TargetsAreReal ==
    \A t \in Ticket : job[t].at = "done" =>
        LET a == job[t].advice
        IN  /\ a.target # NoTarget => a.action = "REASSIGN" /\ a.target \in Group
            /\ job[t].asked.action = "REASSIGN" /\ job[t].asked.target \notin Group \cup {NoTarget} =>
                  a.action = "ESCALATE" /\ (MinConfidence > 50 => ~job[t].surfaced)
=============================================================================
