------------------------------ MODULE Services ------------------------------
(***************************************************************************)
(* What a process holds of the services around it and refreshes by itself - *)
(* the overrides in the database, the token of Vault, the issuer's signing  *)
(* keys, the pages of a ServiceNow result - and what it shows: the form of  *)
(* the settings, the board and the reports.                                 *)
(*                                                                          *)
(* They share no state that changes in the stories told of them, and each   *)
(* is explored while the others rest: "about" is the one a behaviour is     *)
(* about.                                                                   *)
(***************************************************************************)
EXTENDS Integers, FiniteSets, Sequences

CONSTANTS
    \* RuntimeSettings
    Key, Choice, File, Unset, Reader, Loop, CacheTtl, MaxChanges, MaxFailures,
    \* VaultToken
    Ttl, MaxTtl, RenewPercent, MinRenew, Retry, MaxTroubles,
    \* SigningKeys
    Kid, FirstKid, NoKid, Tab, NoTab, JwksCache, StateMaxAge,
    \* PagedReads
    Row, PageSize, MaxOffset, MaxWrites,
    \* SettingsForm
    Specs, Order, Input, Written, Missing, NoOverride, Admin, Closed, MaxActs,
    \* Rollup, Insights, BoardViews
    Ticket, Queue, Profile, Opening, WindowDays, RetainDays, LastDay, MaxEvents,
    Holder, Nobody, Preset, DefaultRange, MaxRangeDays, NoDate,
    NoQueue, Configured, Caller, AnyOf, Filter,
    \* Activity
    Actor, Field, Readable, Hidden, Content, Empty, AtFirst, Limit, MaxEntries,
    \* SignIn
    Person, Name, NoName, FirstName, Known, UsedBy, Tracked, SaneLimit, DefaultGroups, RefreshScope,
    MaxAge, Floor, IdpLasts, Memberships

\* FirstOfWindow and KeptFrom: the days rolled up again are among those that are kept.
ASSUME WindowAssumption == WindowDays \in 1..RetainDays

VARIABLES
    about,
    table, view, cache, thread, ago, changes, failures,
    up, token, client, calm, revoked, vaultTroubles,
    signing, published, reachable, jwks, cookie, signIn, issuerTroubles,
    matching, readable, counted, walk, changed, writes,
    file, stored, running, opened, told, unsaid, acts,
    day, part, board, signals, kept, daily, next, built, history, events,
    journal,
    account, called, member, job, session, changesOfPeople, past

Settings == INSTANCE RuntimeSettings
Vault    == INSTANCE VaultToken  WITH troubles <- vaultTroubles
Issuer   == INSTANCE SigningKeys WITH troubles <- issuerTroubles
Snow     == INSTANCE PagedReads
Form     == INSTANCE SettingsForm WITH Spec <- Specs
Views    == INSTANCE BoardViews
Cards    == INSTANCE Activity WITH history <- journal
People   == INSTANCE SignIn WITH events <- changesOfPeople

\* The renewal loop wakes before a lease ends and retries within it.
ASSUME VaultAssumption == Vault!Sensible

\* The key the issuer begins with is one.
ASSUME KeyAssumption == FirstKid \in Kid

\* Nobody shares a name when the story begins; the configured age is at least the minute that
\* a sign-in lasts (SessionManager.issue); a membership answer is a list.
ASSUME PeopleAssumption ==
    /\ FirstName \in [Person -> Name] /\ Known \subseteq Person /\ UsedBy \in [Tab -> Person]
    /\ \A p, q \in Person : FirstName[p] = FirstName[q] => p = q
    /\ Nobody \notin Person
    /\ MaxAge \in Nat /\ Floor \in 0..MaxAge /\ IdpLasts \subseteq Nat
    /\ SaneLimit \in Nat /\ Memberships # {} /\ \A g \in Memberships : IsFiniteSet(g)

\* A ticket is of one queue; what a pass finds of an SLA that is breached is that it is used up; a
\* preset is some days; a date is none but a date.
ASSUME ViewsAssumption ==
    /\ IsFiniteSet(Ticket) /\ IsFiniteSet(Queue) /\ LastDay \in Nat /\ RetainDays \in Nat
    /\ Opening \in [Ticket -> [queue : Queue, shown : BOOLEAN, snoozed : BOOLEAN, profile : Profile]]
    /\ Profile \subseteq
          [team : BOOLEAN, breached : BOOLEAN, over30 : BOOLEAN, stale : BOOLEAN, due : Nat,
           used : {"none", "under50", "to75", "over75", "over100"}, score : Nat]
    /\ \A p \in Profile : p.breached => p.used \in {"over75", "over100"}
    /\ Preset \in [DOMAIN Preset -> Nat \ {0}] /\ DefaultRange \in DOMAIN Preset
    /\ MaxRangeDays \in Nat \ {0} /\ NoDate \notin Int

\* There is something to set, a copy lasts a while, and no reader is the event loop.
ASSUME SettingsAssumption ==
    Key # {} /\ CacheTtl \in Nat \ {0} /\ File \in [Key -> Choice] /\ Loop \notin Reader

\* An item of a list is the words that commas separate in it; what is typed or written of a
\* list is one, and of a switch a switch; conf.json may have any key.
ASSUME FormAssumption ==
    /\ Missing \notin Seq(Seq(STRING)) \cup BOOLEAN
    /\ \A k \in DOMAIN Specs :
          /\ Written[k] \ {Missing} # {}
          /\ Specs[k].kind = "list" => /\ Input[k] \subseteq Seq(Seq(STRING))
                                       /\ Written[k] \subseteq Seq(Seq(STRING)) \cup {Missing}
          /\ Specs[k].kind = "bool" => /\ Input[k] \subseteq BOOLEAN
                                       /\ Written[k] \subseteq BOOLEAN \cup {Missing}

\* A table holds finitely many rows.
ASSUME SnowAssumption == IsFiniteSet(Row) /\ PageSize \in Nat /\ MaxOffset \in Nat

\* The page has room for so many cards; a limit of zero would mean none, and no caller sets one.
ASSUME CardsAssumption == Limit \in Nat \ {0}

settingsVars == <<table, view, cache, thread, ago, changes, failures>>
vaultVars    == <<up, token, client, calm, revoked, vaultTroubles>>
issuerVars   == <<signing, published, reachable, jwks, cookie, signIn, issuerTroubles>>
snowVars     == <<matching, readable, counted, walk, changed, writes>>
formVars     == <<file, stored, running, opened, told, unsaid, acts>>
viewsVars    == <<day, part, board, signals, kept, daily, next, built, history, events>>
peopleVars   == <<account, called, member, job, session, changesOfPeople, past>>

vars == <<about, settingsVars, vaultVars, issuerVars, snowVars, formVars, viewsVars,
          journal, peopleVars>>

Init ==
    /\ about \in {"settings", "vault", "issuer", "snow", "form", "views", "cards", "people"}
    /\ Settings!Init /\ Vault!Init /\ Issuer!Init /\ Snow!Init /\ Form!Init /\ Views!Init
    /\ Cards!Init /\ People!Init
    /\ about # "snow" => readable = {} /\ ~counted

AboutSettings == about = "settings" /\ Settings!Next
    /\ UNCHANGED <<about, vaultVars, issuerVars, snowVars, formVars, viewsVars, journal, peopleVars>>

AboutVault == about = "vault" /\ Vault!Next
    /\ UNCHANGED <<about, settingsVars, issuerVars, snowVars, formVars, viewsVars, journal, peopleVars>>

AboutIssuer == about = "issuer" /\ Issuer!Next
    /\ UNCHANGED <<about, settingsVars, vaultVars, snowVars, formVars, viewsVars, journal, peopleVars>>

AboutSnow == about = "snow" /\ Snow!Next
    /\ UNCHANGED <<about, settingsVars, vaultVars, issuerVars, formVars, viewsVars, journal, peopleVars>>

AboutForm == about = "form" /\ Form!Next
    /\ UNCHANGED <<about, settingsVars, vaultVars, issuerVars, snowVars, viewsVars, journal, peopleVars>>

AboutViews == about = "views" /\ Views!Next
    /\ UNCHANGED <<about, settingsVars, vaultVars, issuerVars, snowVars, formVars, journal, peopleVars>>

AboutCards == about = "cards" /\ Cards!Next
    /\ UNCHANGED <<about, settingsVars, vaultVars, issuerVars, snowVars, formVars, viewsVars, peopleVars>>

AboutPeople == about = "people" /\ People!Next
    /\ UNCHANGED <<about, settingsVars, vaultVars, issuerVars, snowVars, formVars, viewsVars, journal>>

Next ==
    \/ AboutSettings \/ AboutVault \/ AboutIssuer \/ AboutSnow \/ AboutForm \/ AboutViews
    \/ AboutCards \/ AboutPeople

\* Fair to the settings; nothing is promised of the others in the long run.
FairSpec == Init /\ [][Next]_vars /\ Settings!Fairness

-----------------------------------------------------------------------------
(* The properties of the parts.                                             *)

\* What a page reads is at most two cache lifetimes old, and a stored change reaches every
\* reader for good.
SettingsArrive == []Settings!ReadsAreRecent /\ Settings!ChangesArrive

\* A token runs out only where Vault was in trouble for as long as it lasted; the pages of a
\* ServiceNow result that hold still make the whole of it, and the activity of a ticket tells
\* its history.
ServicesAreSteady ==
    /\ Vault!ExpiredOnlyInTrouble /\ Snow!WalkIsWhole
    /\ about = "cards" => Cards!JournalIsWhole /\ Cards!ChangesFollow

\* Nobody who signs in with a key the issuer publishes is turned away for a stale copy.
PublishedKeySignsIn == Issuer!PublishedKeySignsIn

\* Saving a section writes what its author edited and says truly what needs a restart.
FormSaves == []Form!RestartIsSaid /\ Form!OnlyWhatWasEdited

\* What the trends say is what there was, also of the day that is not over, and retention
\* does not change it.
TrendsAreRight ==
    about = "views" => Views!TrendIsRight /\ Views!HeadlineAgrees /\ Views!NewIsNew

\* Pages read side by side say the same of the same tickets, of the range asked for.
PagesAgree == about = "views" => Views!PagesAgree /\ Views!CountsAgree /\ Views!RangeIsSound

\* Every list, figure and single ticket keeps to the caller's queues.
ScopeIsOneRule == about = "views" => Views!ScopedPages /\ Views!ScopeIsOneRule

\* A sign-in ends in the account of who signs in, and in one only; its session ends when the
\* provider says, and its scope is of the queues ServiceNow knows the person in.
SignInsHold ==
    /\ [](about = "people" =>
            /\ People!OneAccountEach /\ People!OwnAccount
            /\ People!ProviderDecides /\ People!DerivedFromMembership)
    /\ People!LinksStay
=============================================================================
