------------------------------ MODULE VaultToken ------------------------------
(***************************************************************************)
(* The token a process has of Vault by AppRole, and the thread that keeps   *)
(* it valid (core/vault_client.py): it sleeps for part of the lease, renews *)
(* the token, and logs in again when that does not help, while Vault goes   *)
(* away and comes back, revokes tokens, and lets none live beyond a most.   *)
(*                                                                          *)
(* Time is in units; a request takes none, but Vault may go away between    *)
(* two of them.  The lease of a renewal is cut at the token's last day.     *)
(***************************************************************************)
EXTENDS Integers

CONSTANTS
    Ttl, MaxTtl,    \* Vault: the lease of a token, and how old one can get
    RenewPercent,   \* renew_ratio
    MinRenew,       \* min_renew_seconds
    Retry,          \* RENEW_RETRY_SECONDS
    MaxTroubles     \* bound on outages and revocations

\* What a configuration has to keep to: part of a lease is slept, and a lease is worth a renewal.
Sensible ==
    /\ Ttl \in Nat /\ MaxTtl \in Nat /\ MinRenew \in Nat /\ Retry \in Nat \ {0}
    /\ RenewPercent \in 0..99
    /\ MinRenew < Ttl /\ 2 * Retry <= Ttl

VARIABLES
    up,        \* can Vault be reached?
    token,     \* the client's token as Vault knows it: [left, age]
    client,    \* [at, lease, sleep]: what the thread is doing, the lease it believes in
    calm,      \* history: units since Vault last went, came or revoked
    revoked,   \* has the token been revoked?
    troubles

vars == <<up, token, client, calm, revoked, troubles>>

AtMost(a, b)  == IF a < b THEN a ELSE b
AtLeast(a, b) == IF a > b THEN a ELSE b
Less(n)       == AtLeast(n - 1, 0)

\* Mutant: the whole lease.
SleepWhole(lease) == IF lease <= 0 THEN Retry ELSE AtLeast(MinRenew, lease)

SleepSeconds(lease) ==
    IF lease <= 0 THEN Retry ELSE AtLeast(MinRenew, (lease * RenewPercent) \div 100)

Sleeping(lease) == [at |-> "asleep", lease |-> lease, sleep |-> SleepSeconds(lease)]

-----------------------------------------------------------------------------
(* Vault.                                                                   *)

Troubled == troubles < MaxTroubles /\ troubles' = troubles + 1 /\ calm' = 0

GoesDown  == up /\ Troubled /\ up' = FALSE /\ UNCHANGED <<token, client, revoked>>
ComesBack == ~up /\ up' = TRUE /\ calm' = 0 /\ UNCHANGED <<token, client, revoked, troubles>>

Revokes ==
    /\ up /\ ~revoked /\ Troubled
    /\ revoked' = TRUE
    /\ UNCHANGED <<up, token, client>>

-----------------------------------------------------------------------------
(* The renewal loop.                                                        *)

Tick ==
    /\ client.at = "asleep" /\ client.sleep > 0
    /\ client' = [client EXCEPT !.sleep = @ - 1]
    /\ token' = [left |-> Less(token.left), age |-> AtMost(token.age + 1, MaxTtl)]
    /\ calm' = AtMost(calm + 1, MaxTtl)
    /\ UNCHANGED <<up, revoked, troubles>>

Awake == client.at = "asleep" /\ client.sleep = 0

Extended  == AtMost(Ttl, MaxTtl - token.age)
Renewable == up /\ ~revoked /\ token.left > 0 /\ Extended > 0

\* What is not worth the while of another renewal is given up.
Renew ==
    /\ Awake
    /\ token' = IF Renewable THEN [token EXCEPT !.left = Extended] ELSE token
    /\ client' = IF Renewable /\ Extended > MinRenew THEN Sleeping(Extended)
                 ELSE [client EXCEPT !.at = "login"]
    /\ UNCHANGED <<up, calm, revoked, troubles>>

NewToken == [left |-> Ttl, age |-> 0]

Login ==
    /\ client.at = "login" /\ up
    /\ token' = NewToken /\ revoked' = FALSE
    /\ client' = Sleeping(Ttl)
    /\ UNCHANGED <<up, calm, troubles>>

\* The lease it then pretends to have is one that is retried soon.
AfterFailure == Sleeping(2 * Retry)

LoginFails ==
    /\ client.at = "login" /\ ~up
    /\ client' = AfterFailure
    /\ UNCHANGED <<up, token, calm, revoked, troubles>>

Refresh == Renew \/ Login \/ LoginFails

\* A process that cannot log in does not start.
Init ==
    /\ up = TRUE /\ token = NewToken /\ client = Sleeping(Ttl)
    /\ calm = MaxTtl /\ revoked = FALSE /\ troubles = 0

Next == GoesDown \/ ComesBack \/ Revokes \/ Tick \/ Refresh

Spec == Init /\ [][Next]_vars

-----------------------------------------------------------------------------
(* Properties.                                                              *)

LongestSleep == AtLeast(AtLeast(MinRenew, Retry), (Ttl * RenewPercent) \div 100)
RetrySleep   == AtLeast(MinRenew, (2 * Retry * RenewPercent) \div 100)

\* The process holds a token that has expired only while Vault is away or for one retry
\* after it came back, and a revoked one until its next renewal at the latest: renewals that
\* fail, leases that get shorter, and outages longer than a lease do not end the loop.
ExpiredOnlyInTrouble ==
    /\ token.left = 0 => ~up \/ calm <= RetrySleep
    /\ revoked => ~up \/ calm <= LongestSleep
=============================================================================
