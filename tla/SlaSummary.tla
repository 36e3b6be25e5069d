----------------------------- MODULE SlaSummary -----------------------------
(***************************************************************************)
(* What the advisor makes of the task_sla records of one incident           *)
(* (core/snow/sla.py): how a definition is classified, which record is the  *)
(* one to watch, and what the summary says.                                 *)
(*                                                                          *)
(* A definition is a sys_id and the words of its name; a record is the kind *)
(* its definition resolved to and the readings of the moment.  NoReading    *)
(* stands for a percentage or a time left that did not arrive.              *)
(***************************************************************************)
EXTENDS Integers, Sequences

Kind == {"RESPONSE", "RESOLUTION", "VENDOR", "OTHER", "IGNORE"}

NoReading == -1

-----------------------------------------------------------------------------
(* SlaReader.classify.                                                      *)

ResponseTokens   == {"response", "reaction", "acknowledge"}
ResolutionTokens == {"resolution", "resolve", "restore", "fix"}

ClassifyByName(words) ==
    IF words \cap ResolutionTokens # {} THEN "RESOLUTION"
    ELSE IF words \cap ResponseTokens # {} THEN "RESPONSE"
    ELSE "OTHER"

\* bySysId and byName are the configured map, functions on the ids and names in it.
Classify(bySysId, byName, sysId, words) ==
    IF sysId \in DOMAIN bySysId THEN bySysId[sysId]
    ELSE IF words \in DOMAIN byName THEN byName[words]
    ELSE ClassifyByName(words)

-----------------------------------------------------------------------------
(* SlaRecord.is_live and SlaReader.summarise, on a sequence of records      *)
(* [kind, active, stage, breached, pct, left, ends].                        *)

LiveStages == {"in_progress", "paused"}

\* Mutant: whatever is not completed counts as live.
IsOpenEnded(r) == r.active \/ r.stage # "completed"

IsLive(r) == r.active \/ r.stage \in LiveStages

\* Those of the indices S that P holds of, or all of S if there is none.
Preferred(S, P(_)) == IF \E i \in S : P(i) THEN {i \in S : P(i)} ELSE S

Core(recs)   == {i \in DOMAIN recs : recs[i].kind \notin {"IGNORE", "VENDOR"}}
Vendor(recs) == {i \in DOMAIN recs : recs[i].kind = "VENDOR"}

\* Resolution before anything else, a response only if there is nothing else; then live.
Candidates(recs) ==
    LET Resolution(i)  == recs[i].kind = "RESOLUTION"
        NotResponse(i) == recs[i].kind # "RESPONSE"
        Live(i)        == IsLive(recs[i])
    IN  Preferred(Preferred(Preferred(Core(recs), NotResponse), Resolution), Live)

\* urgency_key: breached, then the least time left, then the most consumed.
MoreUrgent(r, s) ==
    LET left(t) == IF t.left = NoReading THEN 10^9 ELSE t.left
        used(t) == IF t.pct = NoReading THEN 0 ELSE t.pct
    IN  \/ r.breached /\ ~s.breached
        \/ /\ r.breached = s.breached
           /\ \/ left(r) < left(s)
              \/ left(r) = left(s) /\ used(r) > used(s)

\* The first of the most urgent candidates, in the order the records came in.
Worst(recs) ==
    LET S == Candidates(recs)
    IN  CHOOSE i \in S : \A j \in S \ {i} :
            \/ MoreUrgent(recs[i], recs[j])
            \/ ~MoreUrgent(recs[j], recs[i]) /\ i < j

Summarise(recs) ==
    LET vendor == Preferred(Vendor(recs), LAMBDA i : IsLive(recs[i]))
        none   == [breached |-> FALSE, pct |-> NoReading, left |-> NoReading,
                   ends |-> NoReading, vendor |-> \E i \in vendor : recs[i].breached]
    IN  IF Core(recs) = {} THEN none
        ELSE [none EXCEPT !.breached = \E i \in Candidates(recs) : recs[i].breached,
                          !.pct  = recs[Worst(recs)].pct,
                          !.left = recs[Worst(recs)].left,
                          !.ends = recs[Worst(recs)].ends]

=============================================================================
