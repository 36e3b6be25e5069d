----------------------------- MODULE PagedReads -----------------------------
(***************************************************************************)
(* SnowClient._pages: a result walked page by page, by offset, over a table *)
(* that other people write to and read ACLs that hide rows after the page   *)
(* was cut.                                                                 *)
(***************************************************************************)
EXTENDS Naturals, FiniteSets, Sequences, SequencesExt, Selections

CONSTANTS
    Row,
    PageSize, MaxOffset,   \* servicenow.page_size, servicenow.max_offset
    MaxWrites              \* bound on what is written while the walk lasts

VARIABLES
    matching,   \* the rows the query matches, as the table orders them
    readable,   \* those the account may read
    walk,       \* [pc, offset, total, seen]: the generator and what it yielded
    counted,    \* X-Total-Count is sent
    changed,    \* history: the table has changed since the walk began
    writes

vars == <<matching, readable, counted, walk, changed, writes>>

NoTotal == MaxOffset + 1     \* no count header so far

AtRest == [pc |-> "idle", offset |-> 0, total |-> NoTotal, seen |-> <<>>]

-----------------------------------------------------------------------------
Inserted ==
    /\ writes < MaxWrites /\ writes' = writes + 1
    /\ \E r \in Row \ ToSet(matching), i \in 1..Len(matching) + 1 :
         matching' = InsertAt(matching, i, r)
    /\ changed' = TRUE /\ UNCHANGED <<readable, counted, walk>>

Removed ==
    /\ writes < MaxWrites /\ writes' = writes + 1
    /\ \E i \in 1..Len(matching) : matching' = RemoveAt(matching, i)
    /\ changed' = TRUE /\ UNCHANGED <<readable, counted, walk>>

Start ==
    /\ walk.pc \in {"idle", "done"}
    /\ walk' = [AtRest EXCEPT !.pc = "walking"]
    /\ changed' = FALSE /\ UNCHANGED <<matching, readable, counted, writes>>

-----------------------------------------------------------------------------
\* _fetch_page: the window is cut first, what may not be read is dropped from it after.
Upto(offset)   == IF offset < Len(matching) THEN offset ELSE Len(matching)
Window(offset) == SubSeq(matching, offset + 1, Upto(offset + PageSize))

\* ACLs: of these rows, the ones the account gets.
Allowed(rows) == Those(rows, readable)

Page(offset) == Allowed(Window(offset))

Total == IF counted THEN Len(matching) ELSE walk.total

\* Mutant: a short page is the last.
ShortIsLast(page, offset, total) == Len(page) < PageSize

\* The count decides; without one an empty page does.
IsLast(page, offset, total) ==
    IF total # NoTotal THEN offset >= total ELSE page = <<>>

FetchPage ==
    /\ walk.pc = "walking"
    /\ LET page   == Page(walk.offset)
           offset == walk.offset + PageSize
           last   == IsLast(page, offset, Total) \/ offset >= MaxOffset
       IN  walk' = [pc |-> IF last THEN "done" ELSE "walking",
                    offset |-> offset, total |-> Total, seen |-> walk.seen \o page]
    /\ UNCHANGED <<matching, readable, counted, changed, writes>>

\* ServiceNowError: the caller gets nothing.
PageFails ==
    /\ walk.pc = "walking" /\ writes < MaxWrites /\ writes' = writes + 1
    /\ walk' = AtRest
    /\ UNCHANGED <<matching, readable, counted, changed>>

Init ==
    /\ matching \in {s \in [1..Cardinality(Row) -> Row] :
                       \A i, j \in DOMAIN s : i < j => s[i] < s[j]}
    /\ readable \in SUBSET Row /\ counted \in BOOLEAN
    /\ walk = AtRest /\ changed = FALSE /\ writes = 0

Next == Inserted \/ Removed \/ Start \/ FetchPage \/ PageFails

-----------------------------------------------------------------------------
(* Properties.                                                              *)

\* A walk over a table that stood still brings every row the account may read, each once and
\* in order, however many pages in between were empty - up to the safety cap.
WalkIsWhole ==
    walk.pc = "done" /\ ~changed /\ Len(matching) <= MaxOffset /\ counted =>
        walk.seen = Allowed(matching)
=============================================================================
