------------------------------ MODULE Activity ------------------------------
(***************************************************************************)
(* The activity of the ticket page: the history of an incident, a line per  *)
(* changed field, as the timeline keeps it (pipeline/signals.py) and as     *)
(* group_activity (web/activity.py) makes cards of it, one per save.        *)
(*                                                                          *)
(* Lines come in the order they were written in, several in one second; a   *)
(* field may be written more than once in a save.  Labels, initials and the *)
(* alphabetical order within a card are left out: the changes of a card are *)
(* a function of the field.                                                 *)
(***************************************************************************)
EXTENDS Naturals, Sequences, SequencesExt, Selections

CONSTANTS
    Actor,
    Field,        \* what is written: two of them are "comments" and "work_notes"
    Readable,     \* READABLE_FIELDS
    Hidden,       \* HIDDEN_FIELDS
    Content,      \* what a field may hold
    Empty,        \* nothing
    AtFirst,      \* what the fields hold when the story begins
    Limit,        \* group_activity: limit
    MaxEntries    \* bound: lines of history

VARIABLE history  \* get_history: [when, actor, field, old, new], oldest first

Journal == {"comments", "work_notes"}

LinesOf(lines, field) == Those(lines, {e \in ToSet(lines) : e.field = field})

Now(field) ==
    LET lines == LinesOf(history, field)
    IN  IF lines = <<>> THEN AtFirst ELSE Last(lines).new

Clock == IF history = <<>> THEN 0 ELSE Last(history).when

-----------------------------------------------------------------------------
(* ServiceNow: somebody writes a line, in this second or the next.          *)

Line(when, actor, field, old, new) ==
    [when |-> when, actor |-> actor, field |-> field, old |-> old, new |-> new]

Write(actor) ==
    /\ Len(history) < MaxEntries
    /\ \E when \in {Clock, Clock + 1}, field \in Field :
         \/ /\ field \in Journal
            /\ history' = Append(history, Line(when, actor, field, Empty, "words"))
         \/ /\ field \notin Journal
            /\ \E new \in Content \ {Now(field)} :
                  history' = Append(history, Line(when, actor, field, Now(field), new))

Init == history = <<>>

Next == \E actor \in Actor : Write(actor)

-----------------------------------------------------------------------------
(* build_timeline and group_activity.                                       *)

Timeline == Those(history, {e \in ToSet(history) : e.field \in Readable})

CardKind(field) ==
    CASE field = "comments"   -> "comment"
      [] field = "work_notes" -> "work_note"
      [] OTHER                -> "field_changes"

NoChange == [value |-> Empty, previous |-> Empty]

NewCard(e) == [kind |-> CardKind(e.field), when |-> e.when, actor |-> e.actor,
               changes |-> [f \in Field |-> NoChange], fields |-> {}]

\* Only changes of fields are merged, and only with the card before them.
Mergeable(cards, e) ==
    /\ CardKind(e.field) = "field_changes" /\ cards # <<>>
    /\ LET card == Last(cards)
       IN  card.kind = "field_changes" /\ card.when = e.when /\ card.actor = e.actor

\* A second line of one field: the oldest before that is not empty, the newest after.
Change(row, listed, e) ==
    [value    |-> e.new,
     previous |-> IF listed /\ row.previous # Empty THEN row.previous ELSE e.old]

Into(card, e) ==
    IF card.kind # "field_changes" THEN card
    ELSE [card EXCEPT !.changes[e.field] = Change(@, e.field \in card.fields, e),
                      !.fields = @ \cup {e.field}]

Add(cards, e) ==
    IF CardKind(e.field) = "field_changes" /\ e.field \in Hidden THEN cards
    ELSE IF Mergeable(cards, e) THEN [cards EXCEPT ![Len(cards)] = Into(@, e)]
    ELSE Append(cards, Into(NewCard(e), e))

\* What was put back within a save is no change, and a card without one is none.
Netted(card) ==
    [card EXCEPT !.fields = {f \in @ : card.changes[f].value # card.changes[f].previous}]

Says(card) == card.kind # "field_changes" \/ card.fields # {}

GroupActivity ==
    LET all    == FoldLeft(Add, <<>>, Timeline)
        netted == [n \in DOMAIN all |-> Netted(all[n])]
        cards  == Reverse(Those(netted, {c \in ToSet(netted) : Says(c)}))
    IN  IF Limit < Len(cards) THEN SubSeq(cards, 1, Limit) ELSE cards

-----------------------------------------------------------------------------
(* Properties.                                                              *)

\* Nobody's comment or note is merged into another or lost: the newest come first, each on
\* a card of its own, and older ones are missing only where the page is full.
JournalIsWhole ==
    LET entry(e) == <<CardKind(e.field), e.when, e.actor>>
        written  == Reverse(Those(Timeline, {e \in ToSet(Timeline) : e.field \in Journal}))
        shown    == Those(GroupActivity,
                          {c \in ToSet(GroupActivity) : c.kind # "field_changes"})
    IN  /\ Len(shown) <= Len(written)
        /\ \A n \in DOMAIN shown :
              <<shown[n].kind, shown[n].when, shown[n].actor>> = entry(written[n])
        /\ Len(GroupActivity) < Limit => Len(shown) = Len(written)

Filled(field) == \E n \in DOMAIN Timeline : Timeline[n].field = field /\ Timeline[n].old = Empty

\* Read from the oldest card to the newest, the changes of a field follow from each other and
\* end in what it holds now, each by its author at its time, although saves interleave and
\* fields are put back - but for a field that was empty before somebody filled it.
ChangesFollow ==
    LET cards == GroupActivity
        of(f) == {n \in DOMAIN cards : cards[n].kind = "field_changes" /\ f \in cards[n].fields}
    IN  \A f \in (Field \ Journal) : ~Filled(f) =>
          /\ f \in Hidden \/ f \notin Readable => of(f) = {}
          /\ \A n \in of(f) :
                LET newer == {m \in of(f) : m < n}
                    value == cards[n].changes[f].value
                    wrote(e) == /\ e.field = f /\ e.new = value
                                /\ e.when = cards[n].when /\ e.actor = cards[n].actor
                IN  /\ \E k \in DOMAIN Timeline : wrote(Timeline[k])
                    /\ IF newer = {} THEN value = Now(f)
                       ELSE value = cards[Max(newer)].changes[f].previous
          /\ of(f) = {} /\ f \in Readable \ Hidden /\ Len(cards) < Limit => Now(f) = AtFirst
=============================================================================
