---------------------------- MODULE TicketSignals ----------------------------
(***************************************************************************)
(* The deterministic signals of one incident (pipeline/signals.py): who has *)
(* acted, who owes the next action, and the risk flags.                     *)
(*                                                                          *)
(* An event of the history is [field, user, hint, when]; hint is whether    *)
(* its text reads like a follow-up.  The history is a set: get_history      *)
(* drops exact repeats, and no signal depends on more than the days.  One   *)
(* field stands for every kind the code tells apart.                        *)
(***************************************************************************)
EXTENDS Integers, FiniteSets

CONSTANTS
    Caller,          \* caller_name of the incident
    SystemAccounts,  \* servicenow.system_accounts, and the names read as the system's
    Nobody           \* a blank user_name

AgentActionFields     == {"comments", "work_notes", "state"}
CustomerVisibleFields == {"comments"}
DisplayOnlyFields     == {"contact_type"}
SystemNoiseFields     == {"sys_mod_count"}
ReadableFields        == AgentActionFields \cup DisplayOnlyFields

\* Fields nobody lists, and a noise field, arrive as well.
Field == ReadableFields \cup SystemNoiseFields \cup {"sys_domain_path"}

Never == -1

Role(user) ==
    IF user = Nobody \/ user \in SystemAccounts THEN "SYSTEM"
    ELSE IF user = Caller THEN "CALLER"
    ELSE "AGENT"

\* build_timeline, without its rendering.
Timeline(history) == {e \in history : e.field \in ReadableFields \ SystemNoiseFields}

\* Mutant: what is worth reading counts as work.
Entries(history) == Timeline(history)

\* action_events: what somebody did, not what is only worth reading.
Actions(history) == {e \in Timeline(history) : e.field \in AgentActionFields}

By(events, role) == {e \in events : Role(e.user) = role}

Latest(events) ==
    IF events = {} THEN Never
    ELSE CHOOSE d \in {e.when : e \in events} : \A e \in events : e.when <= d

LastAgentAction(history)    == Latest(By(Actions(history), "AGENT"))
LastCallerActivity(history) == Latest(By(Actions(history), "CALLER"))

\* Mutant: whoever wrote it.
Reminders(history) ==
    {e \in Actions(history) : e.field \in CustomerVisibleFields /\ e.hint}

\* count_followups: chases by an agent that the caller can read.
Followups(history) ==
    {e \in By(Actions(history), "AGENT") : e.field \in CustomerVisibleFields /\ e.hint}

-----------------------------------------------------------------------------
(* Hold reasons and dependencies.  A dependency is the state of the record  *)
(* the incident names, or "none": not named, or not readable.               *)

HoldReason == {"", "caller", "vendor", "change", "problem", "approval"}

Blocker == [caller |-> "CALLER", vendor |-> "VENDOR", change |-> "CHANGE",
            problem |-> "PROBLEM", approval |-> "APPROVAL"]

\* evaluate_dependency: the record the hold reason names, else either.
Dependency(t) ==
    IF t.hold = "change" /\ t.change # "none" THEN t.change
    ELSE IF t.hold = "problem" /\ t.problem # "none" THEN t.problem
    ELSE IF t.change # "none" THEN t.change ELSE t.problem

\* determine_pending_action_owner: every way that is not a hold ends with the team.
Owner(t, unanswered, cleared) ==
    IF cleared \/ unanswered \/ t.hold = "" THEN "SERVICE_DESK" ELSE Blocker[t.hold]

-----------------------------------------------------------------------------
(* extract_signals and derive_risk_flags.                                   *)

DaysSince(now, day) == now - day

Unanswered(history) ==
    /\ LastCallerActivity(history) # Never
    /\ LastCallerActivity(history) > LastAgentAction(history)

\* Mutant: the caller is given no time to answer.
ClosableAtOnce(t, history, now, th) ==
    /\ Owner(t, Unanswered(history), Dependency(t) = "closed") = "CALLER"
    /\ Cardinality(Followups(history)) >= th.followups

Closable(t, history, now, th) ==
    LET chases == Followups(history)
    IN  /\ Owner(t, Unanswered(history), Dependency(t) = "closed") = "CALLER"
        /\ Cardinality(chases) >= th.followups
        /\ ~Unanswered(history)
        /\ chases # {}
        /\ DaysSince(now, Latest(chases)) >= th.silence

Signals(t, history, sla, kb, now, th) ==
    LET agent      == LastAgentAction(history)
        unanswered == Unanswered(history)
        cleared    == Dependency(t) = "closed"
        age        == DaysSince(now, t.opened)
    IN  [age |-> age,
         idle |-> IF agent = Never THEN age ELSE DaysSince(now, agent),
         owner |-> Owner(t, unanswered, cleared),
         unanswered |-> unanswered, cleared |-> cleared,
         closable |-> Closable(t, history, now, th),
         overrun |-> age > th.expected,
         untouched |-> agent = Never,
         sla |-> sla, kb |-> kb]

RiskFlag == {"SLA_BREACHED", "SLA_AT_RISK", "PROLONGED_INACTIVITY", "NO_RECENT_ACTIVITY",
             "VENDOR_SLA_BREACHED", "CALLER_AWAITING_REPLY", "DEPENDENCY_CLEARED",
             "CLOSURE_CANDIDATE", "EXPECTED_DURATION_EXCEEDED", "KB_ARTICLE_NOT_LINKED",
             "NO_ACTION_RECORDED"}

RiskFlags(s, th) ==
    LET Raised(flag) ==
          CASE flag = "SLA_BREACHED"         -> s.sla.breached
            [] flag = "SLA_AT_RISK"          -> ~s.sla.breached /\ s.sla.pct >= th.slaRisk
            [] flag = "PROLONGED_INACTIVITY" -> s.idle >= th.prolonged
            [] flag = "NO_RECENT_ACTIVITY"   -> s.idle < th.prolonged /\ s.idle >= th.inactivity
            [] flag = "VENDOR_SLA_BREACHED"  -> s.sla.vendor
            [] flag = "CALLER_AWAITING_REPLY" -> s.unanswered
            [] flag = "DEPENDENCY_CLEARED"   -> s.cleared
            [] flag = "CLOSURE_CANDIDATE"    -> s.closable
            [] flag = "EXPECTED_DURATION_EXCEEDED" -> s.overrun
            [] flag = "KB_ARTICLE_NOT_LINKED" -> s.kb = "unlinked"
            [] flag = "NO_ACTION_RECORDED"   -> s.untouched
    IN  {flag \in RiskFlag : Raised(flag)}

=============================================================================
