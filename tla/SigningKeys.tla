----------------------------- MODULE SigningKeys -----------------------------
(***************************************************************************)
(* A single sign-on from the redirect to the verified token, and the signing *)
(* keys it is verified with: OIDCClient's cached set, refreshed when it is  *)
(* old or lacks a key, while the issuer rotates and withdraws its keys and  *)
(* is away.                                                                 *)
(*                                                                          *)
(* One browser signs in, perhaps in several tabs; its one state cookie is   *)
(* the last tab's.  A tick is a part of JWKS_CACHE_SECONDS and of           *)
(* STATE_MAX_AGE.                                                           *)
(***************************************************************************)
EXTENDS Naturals

CONSTANTS
    Kid, FirstKid, NoKid,
    Tab, NoTab,
    JwksCache,     \* JWKS_CACHE_SECONDS, in ticks
    StateMaxAge,   \* STATE_MAX_AGE, in ticks
    MaxTroubles    \* bound on rotations, withdrawals and outages

VARIABLES
    signing,     \* the key the issuer signs with
    published,   \* the keys it publishes
    reachable,
    jwks,        \* _jwks and _jwks_fetched_at: [keys, age]; none held, no keys
    cookie,      \* the browser's state cookie: [tab, age]
    signIn,      \* by tab: [pc, kid: the key its ID token is signed with]
    troubles

vars == <<signing, published, reachable, jwks, cookie, signIn, troubles>>

issuer == <<signing, published, reachable, troubles>>

AtRest == [pc |-> "idle", kid |-> NoKid]

Older(age, limit) == IF age < limit THEN age + 1 ELSE limit

-----------------------------------------------------------------------------
(* The issuer, and time.                                                    *)

Troubled == troubles < MaxTroubles /\ troubles' = troubles + 1

Rotate ==
    /\ Troubled
    /\ \E k \in Kid \ published : signing' = k /\ published' = published \cup {k}
    /\ UNCHANGED <<reachable, jwks, cookie, signIn>>

Withdraw ==
    /\ Troubled
    /\ \E k \in published \ {signing} : published' = published \ {k}
    /\ UNCHANGED <<signing, reachable, jwks, cookie, signIn>>

Outage ==
    /\ \/ reachable /\ Troubled
       \/ ~reachable /\ UNCHANGED troubles
    /\ reachable' = ~reachable
    /\ UNCHANGED <<signing, published, jwks, cookie, signIn>>

Tick ==
    /\ jwks' = [jwks EXCEPT !.age = Older(@, JwksCache)]
    /\ cookie' = [cookie EXCEPT !.age = Older(@, StateMaxAge + 1)]
    /\ UNCHANGED <<signIn>> /\ UNCHANGED issuer

-----------------------------------------------------------------------------
(* _load_jwks.                                                              *)

\* Mutant: what is young enough is served to a forced load too.
FreshForAll(force) == jwks.keys # {} /\ jwks.age < JwksCache

Fresh(force) == ~force /\ jwks.keys # {} /\ jwks.age < JwksCache

\* A set that cannot be refreshed is used as it is; with none there is nothing to use.
LoadJwks(force) ==
    jwks' = IF Fresh(force) \/ ~reachable THEN jwks ELSE [keys |-> published, age |-> 0]

-----------------------------------------------------------------------------
(* authorization_url, exchange, _verify.                                    *)

Goes(t, pc) == signIn' = [signIn EXCEPT ![t].pc = pc]

Start(t) ==
    /\ signIn[t].pc \in {"idle", "signedIn", "refused"}
    /\ signIn' = [signIn EXCEPT ![t] = [AtRest EXCEPT !.pc = "away"]]
    /\ cookie' = [tab |-> t, age |-> 0]
    /\ UNCHANGED jwks /\ UNCHANGED issuer

\* The state on the callback is the one in a cookie young enough, and the code is redeemed.
Welcome(t) == cookie.tab = t /\ cookie.age <= StateMaxAge /\ reachable

Return(t) ==
    /\ signIn[t].pc = "away"
    /\ signIn' = [signIn EXCEPT ![t] = IF Welcome(t) THEN [pc |-> "verifying", kid |-> signing]
                                       ELSE [@ EXCEPT !.pc = "refused"]]
    /\ UNCHANGED <<jwks, cookie>> /\ UNCHANGED issuer

\* _signing_key: the cached set, then - a key may be new - a fresh one.
Verify(t) ==
    /\ signIn[t].pc = "verifying"
    /\ LoadJwks(FALSE)
    /\ Goes(t, CASE signIn[t].kid \in jwks'.keys -> "signedIn"
                 [] jwks'.keys = {}              -> "refused"
                 [] OTHER                        -> "again")
    /\ UNCHANGED cookie /\ UNCHANGED issuer

VerifyAgain(t) ==
    /\ signIn[t].pc = "again"
    /\ LoadJwks(TRUE)
    /\ Goes(t, IF signIn[t].kid \in jwks'.keys THEN "signedIn" ELSE "refused")
    /\ UNCHANGED cookie /\ UNCHANGED issuer

Init ==
    /\ signing = FirstKid /\ published = {FirstKid} /\ reachable = TRUE
    /\ jwks = [keys |-> {}, age |-> JwksCache]
    /\ cookie = [tab |-> NoTab, age |-> StateMaxAge + 1]
    /\ signIn = [t \in Tab |-> AtRest]
    /\ troubles = 0

Next ==
    \/ Rotate \/ Withdraw \/ Outage \/ Tick
    \/ \E t \in Tab : Start(t) \/ Return(t) \/ Verify(t) \/ VerifyAgain(t)

Spec == Init /\ [][Next]_vars

-----------------------------------------------------------------------------
(* Properties.                                                              *)

\* A rotation locks nobody out: a token whose key is published when the last look is taken
\* is refused for its key only if the issuer could not be asked then.
PublishedKeySignsIn ==
    [][\A t \in Tab :
         /\ signIn[t].pc \in {"verifying", "again"} /\ signIn'[t].pc = "refused"
         /\ signIn[t].kid \in published
         => ~reachable]_<<signIn>>
=============================================================================
