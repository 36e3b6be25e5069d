---------------------------- MODULE SettingsForm ----------------------------
(***************************************************************************)
(* The settings page (core/admin_settings.py): what a section shows, what   *)
(* its form is parsed into, what is stored of it and what the administrator *)
(* is told, with the reset button, edits of conf.json and restarts.         *)
(*                                                                          *)
(* The process's copy of the overrides is taken to be fresh; module         *)
(* RuntimeSettings is about when it is not.  A list is a sequence of items, *)
(* an item the sequence of what commas separate in it.  On the page a value *)
(* reads as it is stored, but for one that is missing.                      *)
(***************************************************************************)
EXTENDS Naturals, Sequences, SequencesExt

CONSTANTS
    Spec,        \* SPECS: by key, [kind, section, applies, least, most]
    Order,       \* SPECS: the keys as they are listed
    Input,       \* bound: by key, what is typed into its field
    Written,     \* bound: by key, what conf.json may say
    Missing,     \* conf.json does not have the key; a blank field
    NoOverride,
    Admin,
    Closed,      \* no page
    MaxActs      \* bound on forms, resets, restarts and failures

VARIABLES
    file,      \* conf.json as the process read it
    stored,    \* runtime_setting
    running,   \* the values of RESTART keys the process was built with
    opened,    \* by administrator: [section, fields] on his screen
    told,      \* keys a message has said need a restart, since the start
    unsaid,    \* history: keys reset by the button, or by a form that failed
    acts

vars == <<file, stored, running, opened, told, unsaid, acts>>

Setting == DOMAIN Spec
Of(section) == {k \in Setting : Spec[k].section = section}
AtStart == {k \in Setting : Spec[k].applies = "restart"}

Acts == acts < MaxActs /\ acts' = acts + 1

Value(k) == IF stored[k] = NoOverride THEN file[k] ELSE stored[k]

-----------------------------------------------------------------------------
(* Spec.display, Spec.parse and _same.                                      *)

Blank(k) ==
    CASE Spec[k].kind = "list" -> <<>> [] Spec[k].kind = "bool" -> FALSE [] OTHER -> Missing

Display(k, value) == IF value = Missing THEN Blank(k) ELSE value

Acceptable(k, text) ==
    Spec[k].kind = "number" => text # Missing /\ text \in Spec[k].least..Spec[k].most

\* Every comma separates items, wherever it stood.
Parse(k, text) ==
    IF Spec[k].kind = "list" THEN LET words == FlattenSeq(text)
                                  IN  [i \in DOMAIN words |-> <<words[i]>>]
    ELSE text

\* Mutant: what is missing equals nothing.
SameStrictly(k, a, b) == a = b

Same(k, a, b) == Display(k, a) = Display(k, b)

-----------------------------------------------------------------------------
(* apply_form.                                                              *)

Pending(form) ==
    {k \in DOMAIN form :
        LET v == Parse(k, form[k])
        IN  IF stored[k] = NoOverride THEN ~Same(k, file[k], v) ELSE stored[k] # v}

Stored(k, v) == IF Same(k, file[k], v) THEN NoOverride ELSE v

\* Mutant: of the keys that were touched, those that are still overridden.
SaidOfChanged(keys) == {k \in keys \cap AtStart : stored'[k] # NoOverride}

Said(keys) == keys \cap AtStart

\* One after the other in the order of SPECS; a failed statement ends the request.
Saved(form) ==
    \E n \in 0..Len(Order) :
        LET done == Pending(form) \cap {Order[i] : i \in 1..n}
            whole == done = Pending(form)
        IN  /\ whole => n = Len(Order)
            /\ stored' = [k \in Setting |->
                            IF k \in done THEN Stored(k, Parse(k, form[k])) ELSE stored[k]]
            /\ told' = IF whole THEN told \cup Said(done) ELSE told
            /\ unsaid' = IF whole THEN unsaid ELSE unsaid \cup done

\* Every value is parsed before any is written.
ApplyForm(form) ==
    IF \A k \in DOMAIN form : Acceptable(k, form[k]) THEN Saved(form)
    ELSE UNCHANGED <<stored, told, unsaid>>

Submit(a, form) ==
    /\ opened[a] # Closed /\ Acts
    /\ ApplyForm(form)
    /\ opened' = [opened EXCEPT ![a] = Closed]
    /\ UNCHANGED <<file, running>>

\* The fields as they were shown, but for one.
Forms(a) ==
    {opened[a].fields} \cup
        UNION {{[opened[a].fields EXCEPT ![k] = text] : text \in Input[k]} :
                  k \in DOMAIN opened[a].fields}

\* rows_for.
OpenPage(a, section) ==
    /\ opened[a] = Closed
    /\ opened' = [opened EXCEPT ![a] = [section |-> section,
                    fields |-> [k \in Of(section) |-> Display(k, Value(k))]]]
    /\ UNCHANGED <<file, stored, running, told, unsaid, acts>>

ResetKey(k) ==
    /\ Acts /\ stored[k] # NoOverride
    /\ stored' = [stored EXCEPT ![k] = NoOverride]
    /\ unsaid' = unsaid \cup {k}
    /\ UNCHANGED <<file, running, opened, told>>

\* The service starts again, on a file that may have been edited.
StartAgain ==
    /\ Acts
    /\ \/ UNCHANGED file
       \/ \E k \in Setting : \E v \in Written[k] : file' = [file EXCEPT ![k] = v]
    /\ running' = [k \in AtStart |-> IF stored[k] = NoOverride THEN file'[k] ELSE stored[k]]
    /\ told' = {} /\ unsaid' = {}
    /\ UNCHANGED <<stored, opened>>

\* restart_pending: the banner.
Banner == {k \in AtStart : stored[k] # NoOverride}

Init ==
    /\ file = [k \in Setting |-> CHOOSE v \in Written[k] : v # Missing]
    /\ stored = [k \in Setting |-> NoOverride]
    /\ running = [k \in AtStart |-> file[k]]
    /\ opened = [a \in Admin |-> Closed]
    /\ told = {} /\ unsaid = {} /\ acts = 0

Next ==
    \/ \E a \in Admin : opened[a] # Closed /\ \E form \in Forms(a) : Submit(a, form)
    \/ \E a \in Admin, k \in Setting : OpenPage(a, Spec[k].section)
    \/ \E k \in Setting : ResetKey(k)
    \/ StartAgain

-----------------------------------------------------------------------------
(* Properties.                                                              *)

OneItemEach(k) == Spec[k].kind = "list" => \A i \in DOMAIN Display(k, Value(k)) : Len(Display(k, Value(k))[i]) = 1

\* A form changes nothing its author did not: a field sent back as it was shown, and still
\* would be, leaves the override as it is, whether there is one or the file says so or does
\* not - unless an item of a list in conf.json has a comma in it.
OnlyWhatWasEdited ==
    [][\A a \in Admin : opened[a] # Closed =>
          \A form \in Forms(a) : Submit(a, form) =>
              \A k \in DOMAIN form :
                  form[k] = Display(k, Value(k)) /\ OneItemEach(k) => stored'[k] = stored[k]]_vars

\* A value the process does not run with yet is in the banner, or somebody has been told
\* that it takes a restart - unless the reset button or a form that failed half-way brought
\* it about.  ("A settings page that pretends otherwise produces the worst outcome available.")
RestartIsSaid ==
    \A k \in AtStart : ~Same(k, running[k], Value(k)) => k \in Banner \cup told \cup unsaid
=============================================================================
