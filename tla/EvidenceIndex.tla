---------------------------- MODULE EvidenceIndex ----------------------------
(***************************************************************************)
(* The evidence the advice rests on: embedding_store, as the nightly job of *)
(* the service and a backfill from the command line build it                *)
(* (ops/index_builder.py) while ServiceNow goes on changing, the copy each  *)
(* process holds of it, and what is found in that copy for a ticket         *)
(* (pipeline/retrieval.py).                                                 *)
(*                                                                          *)
(* A text is known by its hash, and a vector by the text it was made from:  *)
(* embedding is the identity, and Near says how near two of them are.       *)
(***************************************************************************)
EXTENDS Integers, Sequences, FiniteSets, SequencesExt

CONSTANTS
    Incident, Article,   \* resolved incidents, published articles: what is indexed
    Text, Category,      \* what they say; by text, its category, which is part of it
    Near,                \* by two texts, how near they are
    MinSimilarity,       \* llm.min_similarity
    TopK,                \* evidence_for: top_k
    Process,             \* the service, a backfill from the command line
    Adviser,             \* those of them that advise too
    BatchSize,           \* embed: batch_size
    AtFirst,             \* ServiceNow when the story begins
    MaxBuilds,           \* bound on the builds
    MaxEvents            \* bound on changes in ServiceNow, failures and restarts

VARIABLES
    snow,      \* by item, [text, closed, noted]
    store,     \* embedding_store
    memory,    \* by adviser and kind, the rows it holds; none: not loaded
    job,       \* by process, the build it is making
    builds, events,
    outdated,  \* history: by adviser and kind, another has written since its copy was dropped,
               \* or a build of its own broke off while writing
    overtaken  \* history: by process, has another written since its build fetched

vars == <<snow, store, memory, job, builds, events, outdated, overtaken>>

Item  == Incident \cup Article
Kind  == {"incident", "kb"}
OfKind(kind) == IF kind = "incident" THEN Incident ELSE Article

NoRow  == [there |-> FALSE]
AtRest == [at |-> "rest"]

Happens == events < MaxEvents /\ events' = events + 1

-----------------------------------------------------------------------------
(* A build: fetch, compare, embed in batches, write row by row; the         *)
(* incidents and then the articles.                                         *)

\* Closed incidents, published articles.
Fetched(kind) == {[key |-> i, text |-> snow[i].text, noted |-> snow[i].noted] :
                     i \in {j \in OfKind(kind) : snow[j].closed}}

Start(p) ==
    /\ job[p].at = "rest" /\ builds < MaxBuilds
    /\ builds' = builds + 1
    /\ job' = [job EXCEPT ![p] = [at |-> "compare", kind |-> "incident",
                                  records |-> Fetched("incident")]]
    /\ overtaken' = [overtaken EXCEPT ![p] = FALSE]
    /\ UNCHANGED <<snow, store, memory, events, outdated>>

\* Mutant: what has a row is not looked at again.
PendingNew(records) == {r \in records : r.noted /\ ~store[r.key].there}

\* Closure notes that say something; a text that is not the one of the row.
Pending(records) ==
    {r \in records : r.noted /\ (store[r.key].there => store[r.key].hash # r.text)}

Compare(p) ==
    /\ job[p].at = "compare"
    /\ job' = [job EXCEPT ![p] = [at |-> "embed", kind |-> job[p].kind, records |-> job[p].records,
                                  pending |-> SetToSeq(Pending(job[p].records)), vectors |-> <<>>]]
    /\ UNCHANGED <<snow, store, memory, builds, events, outdated, overtaken>>

AtMost(a, b) == IF a < b THEN a ELSE b

\* The service answers a batch in an order of its own, each vector with its index.
Responses(batch) ==
    SetToSeqs({[index |-> n, vector |-> batch[n].text] : n \in DOMAIN batch})

\* Mutant: taken as they come.
AsReceived(response) == [n \in DOMAIN response |-> response[n].vector]

InOrder(response) ==
    [n \in DOMAIN response |-> (CHOOSE x \in ToSet(response) : x.index = n).vector]

Embed(p) ==
    /\ job[p].at = "embed" /\ Len(job[p].vectors) < Len(job[p].pending)
    /\ LET n     == Len(job[p].vectors)
           batch == SubSeq(job[p].pending, n + 1, AtMost(n + BatchSize, Len(job[p].pending)))
       IN  \E response \in Responses(batch) :
              job' = [job EXCEPT ![p].vectors = @ \o InOrder(response)]
    /\ UNCHANGED <<snow, store, memory, builds, events, outdated, overtaken>>

\* No answer, however often it was tried: nothing of the kind is written.
EmbedFails(p) ==
    /\ job[p].at = "embed" /\ Len(job[p].vectors) < Len(job[p].pending) /\ Happens
    /\ job' = [job EXCEPT ![p] = AtRest]
    /\ UNCHANGED <<snow, store, memory, builds, outdated, overtaken>>

Embedded(p) == job[p].at = "embed" /\ Len(job[p].vectors) = Len(job[p].pending)

Write(p) ==
    /\ Embedded(p) /\ job[p].pending # <<>>
    /\ LET r == Head(job[p].pending) IN
         /\ store' = [store EXCEPT ![r.key] =
                         [there |-> TRUE, hash |-> r.text, vector |-> Head(job[p].vectors)]]
         /\ job' = [job EXCEPT ![p].pending = Tail(@), ![p].vectors = Tail(@),
                               ![p].at = IF Len(job[p].pending) = 1 THEN "invalidate" ELSE @]
    /\ outdated' = [q \in Adviser |-> IF q = p THEN outdated[q]
                                     ELSE [outdated[q] EXCEPT ![job[p].kind] = TRUE]]
    /\ overtaken' = [q \in Process |-> overtaken[q] \/ q # p]
    /\ UNCHANGED <<snow, memory, builds, events>>

\* upsert_many ends where a row cannot be written, and does not get to its invalidate.
WriteFails(p) ==
    /\ Embedded(p) /\ job[p].pending # <<>> /\ Happens
    /\ job' = [job EXCEPT ![p] = AtRest]
    /\ outdated' = [q \in Adviser |-> IF q = p THEN [outdated[q] EXCEPT ![job[p].kind] = TRUE]
                                     ELSE outdated[q]]
    /\ UNCHANGED <<snow, store, memory, builds, overtaken>>

NextKind(p) ==
    job' = [job EXCEPT ![p] =
              IF job[p].kind = "kb" THEN AtRest
              ELSE [at |-> "compare", kind |-> "kb", records |-> Fetched("kb")]]

\* Mutant: the copy is kept.
KeepCopy(p, kind) == memory

Invalidated(p, kind) ==
    [q \in Adviser |-> IF q = p THEN [memory[q] EXCEPT ![kind] = {}] ELSE memory[q]]

\* At the end of upsert_many.
Invalidate(p) ==
    /\ job[p].at = "invalidate"
    /\ memory' = Invalidated(p, job[p].kind)
    /\ NextKind(p)
    /\ outdated' = [q \in Adviser |-> IF q = p THEN [outdated[q] EXCEPT ![job[p].kind] = FALSE]
                                     ELSE outdated[q]]
    /\ overtaken' = [overtaken EXCEPT ![p] = FALSE]
    /\ UNCHANGED <<snow, store, builds, events>>

NothingPending(p) ==
    /\ Embedded(p) /\ job[p].pending = <<>>
    /\ NextKind(p)
    /\ overtaken' = [overtaken EXCEPT ![p] = FALSE]
    /\ UNCHANGED <<snow, store, memory, builds, events, outdated>>

-----------------------------------------------------------------------------
(* Evidence.                                                                *)

RowsOf(kind) == {[key |-> i, vector |-> store[i].vector] : i \in {j \in OfKind(kind) : store[j].there}}

\* search loads what the process does not hold; an empty index is looked for every time.
Load(p, kind) ==
    /\ memory[p][kind] = {} /\ RowsOf(kind) # {}
    /\ memory' = [memory EXCEPT ![p][kind] = RowsOf(kind)]
    /\ outdated' = [outdated EXCEPT ![p][kind] = FALSE]
    /\ UNCHANGED <<snow, store, job, builds, events, overtaken>>

\* search: the k nearest, and of those the near enough.
Search(rows, text, least) ==
    LET score(r) == Near[text][r.vector]
        best == CHOOSE s \in SUBSET rows :
                    /\ Cardinality(s) = AtMost(TopK, Cardinality(rows))
                    /\ \A r \in s, o \in rows \ s : score(r) >= score(o)
    IN  {r \in best : score(r) >= least}

SameCategory(rows, text) == {r \in rows : Category[r.vector] = Category[text]}

\* Mutant: only what is found in the end is asked to be near enough.
SimilarFilteredLate(rows, number, text) ==
    LET scoped  == Search(SameCategory(rows, text), text, 0)
        results == IF scoped = {} THEN Search(rows, text, 0) ELSE scoped
    IN  {r \in results : r.key # number /\ Near[text][r.vector] >= MinSimilarity}

\* The ticket's own category first, the others if that brings nothing; never the ticket.
SimilarIncidents(rows, number, text) ==
    LET scoped  == Search(SameCategory(rows, text), text, MinSimilarity)
        results == IF scoped = {} THEN Search(rows, text, MinSimilarity) ELSE scoped
    IN  {r \in results : r.key # number}

KbArticles(rows, text) == Search(rows, text, MinSimilarity)

-----------------------------------------------------------------------------
(* ServiceNow, restarts.                                                    *)

SnowChanges ==
    /\ Happens
    /\ \E i \in Item :
         \/ \E t \in Text \ {snow[i].text} : snow' = [snow EXCEPT ![i].text = t]
         \/ snow' = [snow EXCEPT ![i].closed = ~@]
         \/ i \in Incident /\ snow' = [snow EXCEPT ![i].noted = ~@]
    /\ UNCHANGED <<store, memory, job, builds, outdated, overtaken>>

Restart(p) ==
    /\ Happens
    /\ memory' = [q \in Adviser |-> IF q = p THEN [k \in Kind |-> {}] ELSE memory[q]]
    /\ job' = [job EXCEPT ![p] = AtRest]
    /\ <<memory, job>>' # <<memory, job>>
    /\ outdated' = [q \in Adviser |-> IF q = p THEN [k \in Kind |-> FALSE] ELSE outdated[q]]
    /\ UNCHANGED <<snow, store, builds, overtaken>>

Init ==
    /\ snow = AtFirst
    /\ store = [i \in Item |-> NoRow]
    /\ memory = [p \in Adviser |-> [k \in Kind |-> {}]]
    /\ job = [p \in Process |-> AtRest]
    /\ builds = 0 /\ events = 0
    /\ outdated = [p \in Adviser |-> [k \in Kind |-> FALSE]]
    /\ overtaken = [p \in Process |-> FALSE]

Next ==
    \/ \E p \in Process :
         \/ Start(p) \/ Compare(p) \/ Embed(p) \/ EmbedFails(p)
         \/ Write(p) \/ WriteFails(p) \/ Invalidate(p) \/ NothingPending(p)
         \/ Restart(p)
    \/ \E p \in Adviser, kind \in Kind : Load(p, kind)
    \/ SnowChanges

-----------------------------------------------------------------------------
(* Properties.                                                              *)

\* Whatever order the vectors come in and wherever a build breaks off, every row holds the
\* vector of the text its hash is of.
VectorsBelong ==
    \A i \in Item : store[i].there => store[i].vector = store[i].hash

\* When a build is through with a kind, the rows are of what it had fetched, whatever was
\* there and however earlier builds had ended - unless another build wrote meanwhile.
BuiltIsCurrent ==
    [][\A p \in Process :
          (Invalidate(p) \/ NothingPending(p)) /\ ~overtaken[p] =>
              \A r \in job[p].records :
                  r.noted => store[r.key].there /\ store[r.key].hash = r.text]_vars

\* A process advises from the index as it is, unless another has built it since, or a build
\* of its own is writing or broke off.
MemoryIsStore ==
    \A p \in Adviser, kind \in Kind :
        /\ memory[p][kind] # {} /\ ~outdated[p][kind]
        /\ job[p].at \notin {"embed", "invalidate"}
        => memory[p][kind] = RowsOf(kind)

\* The evidence for a ticket is never the ticket itself, never too far from it nor too much;
\* of another category only if its own has nothing near enough; and something, if anything
\* near enough is there besides the ticket - unless the ticket is all there is of its category.
EvidenceFits ==
    \A p \in Adviser, number \in Incident, text \in Text :
        LET rows  == memory[p]["incident"]
            given == SimilarIncidents(rows, number, text)
            near  == {r \in rows : Near[text][r.vector] >= MinSimilarity}
            own   == SameCategory(near, text)
        IN  /\ given \subseteq {r \in near : r.key # number} /\ Cardinality(given) <= TopK
            /\ given \subseteq own \/ own = {}
            /\ \/ given # {} \/ \A r \in near : r.key = number
               \/ own # {} /\ \A r \in own : r.key = number
=============================================================================
