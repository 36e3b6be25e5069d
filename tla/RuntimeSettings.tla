--------------------------- MODULE RuntimeSettings ---------------------------
(***************************************************************************)
(* The overrides of conf.json: runtime_setting as one process reads it      *)
(* through SettingsOverlay, with the threads that ask for a setting, the    *)
(* settings page that saves and resets them, another process that does the  *)
(* same, and a database that fails.                                         *)
(*                                                                          *)
(* The database session is shared by the process and commits only when it   *)
(* writes: a read opens a transaction, and its snapshot is what the process *)
(* goes on reading until somebody in it writes.  A tick is a part of        *)
(* CACHE_TTL_SECONDS; a load, or the writes of one setting, take less.      *)
(***************************************************************************)
EXTENDS Naturals

CONSTANTS
    Key, Choice,
    File,          \* conf.json: the value of each key
    Unset,         \* no override; also None
    Reader,        \* threads that call Settings.get
    Loop,          \* the event loop, which serves the settings page
    CacheTtl,      \* CACHE_TTL_SECONDS, in ticks
    MaxChanges,    \* bound on forms, resets and the other process's changes
    MaxFailures    \* bound on failed statements and restarts

VARIABLES
    table,     \* runtime_setting
    view,      \* what the session's open transaction reads, or NoView
    cache,     \* _cache and _loaded_at: [values, age, read]
    thread,    \* the call each thread is in
    ago,       \* history: ticks since the session could last read a value
    changes, failures

vars == <<table, view, cache, thread, ago, changes, failures>>

Thread    == Reader \cup {Loop}
Override  == Choice \cup {Unset}
Overrides == [Key -> Override]
NoView    == [k \in {} |-> Unset]
Nothing   == [k \in Key |-> Unset]

AtRest == [pc |-> "idle", key |-> CHOOSE k \in Key : TRUE, loaded |-> NoView, read |-> TRUE,
           form |-> NoView, todo |-> {}, value |-> Unset]

\* What a read of the session brings, and how long ago it last brought this value.
Visible      == IF view = NoView THEN table ELSE view
Behind(k, v) == IF v = Visible[k] THEN 0 ELSE ago[k][v]
Remember     == ago' = [k \in Key |-> [ago[k] EXCEPT ![Visible[k]] = 0]]

-----------------------------------------------------------------------------
(* current(): the copy while it is fresh, else a load, kept for the others. *)

\* Mutant: a copy that is used stays fresh.
AgeAfterUse(used)  == 0

Age(used) == used

Fresh == cache.age < CacheTtl

Asking(t) == thread[t].pc \in {"has", "get", "active", "check", "previous"}

Fails == failures < MaxFailures /\ failures' = failures + 1

\* _load: nothing at all when the table cannot be read.
Load(t) ==
    /\ Asking(t) /\ thread[t].loaded = NoView /\ ~Fresh
    /\ \/ /\ thread' = [thread EXCEPT ![t].loaded = Visible, ![t].read = TRUE]
          /\ view' = Visible /\ UNCHANGED failures
       \/ /\ thread' = [thread EXCEPT ![t].loaded = Nothing, ![t].read = FALSE]
          /\ view' = NoView /\ Fails
    /\ Remember /\ UNCHANGED <<table, cache, changes>>

Obtained(t) == IF thread[t].loaded = NoView THEN cache.values ELSE thread[t].loaded

Obtain(t) ==
    \/ /\ thread[t].loaded = NoView /\ Fresh
       /\ cache' = [cache EXCEPT !.age = Age(@)]
    \/ /\ thread[t].loaded # NoView
       /\ cache' = [values |-> thread[t].loaded, age |-> 0, read |-> thread[t].read]

\* The call goes on with what it obtained.
Proceed(t, call) == thread' = [thread EXCEPT ![t] = [call EXCEPT !.loaded = NoView]]

Quiet == UNCHANGED <<table, view, ago, changes, failures>>

-----------------------------------------------------------------------------
(* Settings.get: has(), then get().                                         *)

Ask(t) ==
    /\ t # Loop /\ thread[t].pc \in {"idle", "answered"}
    /\ \E k \in Key : thread' = [thread EXCEPT ![t] = [AtRest EXCEPT !.pc = "has", !.key = k]]
    /\ UNCHANGED cache /\ Quiet

Has(t) ==
    /\ thread[t].pc = "has" /\ Obtain(t)
    /\ LET k == thread[t].key
       IN  Proceed(t, IF Obtained(t)[k] # Unset
                      THEN [thread[t] EXCEPT !.pc = "get"]
                      ELSE [thread[t] EXCEPT !.pc = "answered", !.value = File[k]])
    /\ Quiet

Get(t) ==
    /\ thread[t].pc = "get" /\ Obtain(t)
    /\ Proceed(t, [thread[t] EXCEPT !.pc = "answered", !.value = Obtained(t)[thread[t].key]])
    /\ Quiet

-----------------------------------------------------------------------------
(* The settings page: apply_form and reset.                                 *)

Happens == changes < MaxChanges /\ changes' = changes + 1

\* apply_form has parsed every field; a form with a bad one goes no further.
Submit ==
    /\ Happens /\ thread[Loop].pc = "idle"
    /\ \E form \in [Key -> Choice] :
         thread' = [thread EXCEPT ![Loop] = [AtRest EXCEPT !.pc = "active", !.form = form]]
    /\ UNCHANGED <<table, view, cache, ago, failures>>

Reset ==
    /\ Happens /\ thread[Loop].pc = "idle"
    /\ \E k \in Key :
         thread' = [thread EXCEPT ![Loop] =
                      [AtRest EXCEPT !.pc = "check", !.key = k, !.form = File]]
    /\ UNCHANGED <<table, view, cache, ago, failures>>

\* Left alone: what already is as the form says, by an override or by the file.
Compare ==
    /\ thread[Loop].pc = "active" /\ Obtain(Loop)
    /\ LET active == Obtained(Loop)
           form   == thread[Loop].form
       IN  Proceed(Loop, [thread[Loop] EXCEPT !.pc = "next",
                !.todo = {k \in Key : /\ active[k] # form[k]
                                      /\ active[k] = Unset => File[k] # form[k]}])
    /\ Quiet

Clears(k) == thread[Loop].form[k] = File[k]

NextKey ==
    /\ thread[Loop].pc = "next"
    /\ IF thread[Loop].todo = {} THEN thread' = [thread EXCEPT ![Loop] = AtRest]
       ELSE \E k \in thread[Loop].todo :
              thread' = [thread EXCEPT ![Loop].pc = IF Clears(k) THEN "check" ELSE "previous",
                                       ![Loop].key = k, ![Loop].todo = @ \ {k}]
    /\ UNCHANGED cache /\ Quiet

\* clear: nothing to do for a key that is not overridden.
Check ==
    /\ thread[Loop].pc = "check" /\ Obtain(Loop)
    /\ Proceed(Loop, [thread[Loop] EXCEPT !.pc =
            IF Obtained(Loop)[thread[Loop].key] = Unset THEN "next" ELSE "previous"])
    /\ Quiet

Previous ==
    /\ thread[Loop].pc = "previous" /\ Obtain(Loop)
    /\ Proceed(Loop, [thread[Loop] EXCEPT !.pc = "write", !.read = cache'.read,
                            !.value = Obtained(Loop)[thread[Loop].key]])
    /\ Quiet

\* The upsert or the delete, and its commit.  A failure ends the handler, with whatever
\* was stored of the form before.
Write ==
    /\ thread[Loop].pc = "write"
    /\ view' = NoView
    /\ \/ LET k == thread[Loop].key
          IN  /\ table' = [table EXCEPT ![k] = IF Clears(k) THEN Unset ELSE thread[Loop].form[k]]
              /\ thread' = [thread EXCEPT ![Loop].pc = "audit"]
              /\ UNCHANGED failures
       \/ Fails /\ thread' = [thread EXCEPT ![Loop] = AtRest] /\ UNCHANGED table
    /\ Remember /\ UNCHANGED <<cache, changes>>

\* _audit: a row that cannot be written is logged and done without.
Audit ==
    /\ thread[Loop].pc = "audit"
    /\ thread' = [thread EXCEPT ![Loop].pc = "invalidate"]
    /\ view' = NoView /\ Remember
    /\ UNCHANGED <<table, cache, changes, failures>>

Invalidate ==
    /\ thread[Loop].pc = "invalidate"
    /\ cache' = [cache EXCEPT !.age = CacheTtl]
    /\ thread' = [thread EXCEPT ![Loop].pc = "next"]
    /\ Quiet

-----------------------------------------------------------------------------
(* The rest of the process, the other one, time.                            *)

Elsewhere ==
    /\ Happens
    /\ \E k \in Key : \E v \in Override \ {File[k], table[k]} :
         table' = [table EXCEPT ![k] = v]
    /\ Remember /\ UNCHANGED <<view, cache, thread, failures>>

\* Mutant: whoever else writes has a session of his own.
CommitAlone == FALSE /\ UNCHANGED vars

\* Some other write of this process ends the transaction.
Commit ==
    /\ view # NoView /\ view' = NoView
    /\ Remember /\ UNCHANGED <<table, cache, thread, changes, failures>>

RestartProcess ==
    /\ Fails
    /\ view' = NoView
    /\ cache' = [values |-> Nothing, age |-> CacheTtl, read |-> TRUE]
    /\ thread' = [t \in Thread |-> AtRest]
    /\ Remember /\ UNCHANGED <<table, changes>>

Tick ==
    /\ \A t \in Thread : thread[t].loaded = NoView
    /\ thread[Loop].pc \notin {"write", "audit", "invalidate"}
    /\ cache' = [cache EXCEPT !.age = IF Fresh THEN @ + 1 ELSE @]
    /\ ago' = [k \in Key |-> [v \in Override |->
                 IF v = Visible[k] THEN 0
                 ELSE IF ago[k][v] < CacheTtl THEN ago[k][v] + 1 ELSE CacheTtl]]
    /\ UNCHANGED <<table, view, thread, changes, failures>>

Call(t) == Load(t) \/ Has(t) \/ Get(t)
Save    == Load(Loop) \/ Compare \/ NextKey \/ Check \/ Previous \/ Write \/ Audit \/ Invalidate

Init ==
    /\ table = Nothing /\ view = NoView
    /\ cache = [values |-> Nothing, age |-> CacheTtl, read |-> TRUE]
    /\ thread = [t \in Thread |-> AtRest]
    /\ ago = [k \in Key |-> [v \in Override |-> IF v = Unset THEN 0 ELSE CacheTtl]]
    /\ changes = 0 /\ failures = 0

Next ==
    \/ \E t \in Reader : Ask(t) \/ Call(t)
    \/ Submit \/ Reset \/ Save
    \/ Elsewhere \/ Commit \/ RestartProcess \/ Tick

\* Threads come back to ask, calls return, jobs write, time passes.
Fairness ==
    /\ \A t \in Reader : WF_vars(Ask(t)) /\ WF_vars(Call(t))
    /\ WF_vars(Save) /\ WF_vars(Commit) /\ WF_vars(Tick)

Spec     == Init /\ [][Next]_vars
FairSpec == Spec /\ Fairness

-----------------------------------------------------------------------------
(* Properties.                                                              *)

\* The copy in use, and the value an audit row names as the one before, are not older than
\* CACHE_TTL_SECONDS by what the session could read - whichever loads and saves crossed,
\* except for what a failed load put in its place.
ReadsAreRecent ==
    /\ Fresh /\ cache.read => \A k \in Key : Behind(k, cache.values[k]) <= cache.age
    /\ thread[Loop].pc \in {"write", "audit"} /\ thread[Loop].read =>
          Behind(thread[Loop].key, thread[Loop].value) < CacheTtl

\* A value the table keeps is in the end the one in use, whoever wrote it and whatever
\* failed in between.
ChangesArrive ==
    \A k \in Key, v \in Override :
        <>[](table[k] = v) => <>[](Fresh => cache.values[k] = v)

=============================================================================
