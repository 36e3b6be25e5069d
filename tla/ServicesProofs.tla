---------------------------- MODULE ServicesProofs ----------------------------
(***************************************************************************)
(* What Services promises, for any constants that are as its assumptions    *)
(* say: each part keeps an invariant of its own, and rests while a          *)
(* behaviour is about another.                                              *)
(***************************************************************************)
EXTENDS Services, SetInduction, SequenceTheorems

\* A step is one part's, and the others rest.
LEMMA OnePartMoves ==
  ASSUME [Next]_vars
  PROVE  /\ [Settings!Next]_settingsVars /\ [Vault!Next]_vaultVars
         /\ [Issuer!Next]_issuerVars /\ [Snow!Next]_snowVars /\ [Form!Next]_formVars
         /\ [Views!Next]_viewsVars /\ [Cards!Next]_journal /\ [People!Next]_peopleVars
BY DEF Next, vars, AboutSettings, AboutVault, AboutIssuer, AboutSnow, AboutForm, AboutViews,
       AboutCards, AboutPeople

-----------------------------------------------------------------------------
(* The token of Vault: the thread wakes in time, whatever the lease.        *)

VaultTypeOK ==
    /\ up \in BOOLEAN /\ revoked \in BOOLEAN /\ calm \in Nat
    /\ token \in [left : Nat, age : 0..MaxTtl]
    /\ client \in [at : {"asleep", "login"}, lease : Int, sleep : Nat]

\* The thread wakes before the token runs out, or soon after Vault came back.
WakesInTime ==
    client.at = "asleep" =>
        \/ token.left > client.sleep
        \/ client.sleep <= Vault!RetrySleep /\ (up => calm + client.sleep <= Vault!RetrySleep)

LogsInSoon == client.at = "login" => token.left > 0 \/ ~up \/ calm <= Vault!RetrySleep

\* It wakes soon after a revocation.
NoticesRevocation ==
    /\ client.at = "asleep" => client.sleep <= Vault!LongestSleep
    /\ client.at = "asleep" /\ revoked /\ up => calm + client.sleep <= Vault!LongestSleep
    /\ client.at = "login" /\ revoked /\ up => calm <= Vault!LongestSleep

VaultInv == VaultTypeOK /\ WakesInTime /\ LogsInSoon /\ NoticesRevocation

-----------------------------------------------------------------------------
(* The token of Vault: sleeps.                                                                *)

LEMMA PartOf ==
  ASSUME NEW x \in Nat, NEW p \in 0..99
  PROVE  /\ (x * p) \div 100 \in Nat /\ (x * p) \div 100 <= x
         /\ x > 0 => (x * p) \div 100 < x
<1>1. x * p \in Nat /\ x * p <= x * 99
  <2>1. x * p \in Nat
    OBVIOUS
  <2>2. x * (99 - p) \in Nat /\ x * 99 = x * p + x * (99 - p)
    OBVIOUS
  <2> QED BY <2>1, <2>2
<1> DEFINE y == x * p
<1>2. y \in Nat /\ y <= 99 * x
  BY <1>1
<1> HIDE DEF y
<1>3. y \div 100 \in Nat /\ y \div 100 <= x /\ (x > 0 => y \div 100 < x)
  BY <1>2
<1> QED BY <1>3 DEF y

LEMMA PartsGrow ==
  ASSUME NEW x \in Nat, NEW z \in Nat, x <= z, NEW p \in 0..99
  PROVE  (x * p) \div 100 <= (z * p) \div 100
<1>1. x * p \in Nat /\ (z - x) * p \in Nat /\ z * p = x * p + (z - x) * p
  OBVIOUS
<1> DEFINE a == x * p
           b == (z - x) * p
           c == z * p
<1>2. a \in Nat /\ b \in Nat /\ c = a + b
  BY <1>1
<1> HIDE DEF a, b, c
<1>3. a \div 100 <= c \div 100
  BY <1>2
<1> QED BY <1>3 DEF a, c

LEMMA Greater ==
  ASSUME NEW a \in Nat, NEW b \in Nat
  PROVE  LET c == Vault!AtLeast(a, b) IN c \in Nat /\ c >= a /\ c >= b /\ c \in {a, b}
BY DEF Vault!AtLeast

\* What is worth a renewal outlasts the sleep.
LEMMA SleepOfALease ==
  ASSUME Vault!Sensible, NEW lease \in Nat, MinRenew < lease, lease <= Ttl
  PROVE  /\ Vault!SleepSeconds(lease) \in Nat
         /\ Vault!SleepSeconds(lease) < lease /\ Vault!SleepSeconds(lease) <= Vault!LongestSleep
<1>1. MinRenew \in Nat /\ lease > 0 /\ RenewPercent \in 0..99 /\ Ttl \in Nat /\ Retry \in Nat
  BY DEF Vault!Sensible
<1> DEFINE portion == (lease * RenewPercent) \div 100
           most == (Ttl * RenewPercent) \div 100
<1>a. portion \in Nat /\ portion < lease
  BY <1>1, PartOf
<1>b. most \in Nat
  BY <1>1, PartOf
<1>c. portion <= most
  BY <1>1, PartsGrow
<1> HIDE DEF portion, most
<1>2. portion \in Nat /\ portion < lease /\ portion <= most /\ most \in Nat
  BY <1>a, <1>b, <1>c
<1>3. Vault!SleepSeconds(lease) = Vault!AtLeast(MinRenew, portion)
      /\ Vault!LongestSleep = Vault!AtLeast(Vault!AtLeast(MinRenew, Retry), most)
  BY <1>1 DEF Vault!SleepSeconds, Vault!LongestSleep, portion, most
<1> DEFINE p == Vault!AtLeast(MinRenew, portion)
           q == Vault!AtLeast(MinRenew, Retry)
           r == Vault!AtLeast(q, most)
<1>4. p \in Nat /\ p \in {MinRenew, portion} /\ q \in Nat /\ q >= MinRenew
  BY <1>1, <1>2, Greater
<1>5. r >= q /\ r >= most /\ r \in Nat
  BY <1>2, <1>4, Greater
<1>6. Vault!SleepSeconds(lease) = p /\ Vault!LongestSleep = r
  BY <1>3
<1> HIDE DEF p, q, r
<1> QED BY <1>1, <1>2, <1>4, <1>5, <1>6

LEMMA SleepOfARetry ==
  ASSUME Vault!Sensible
  PROVE  /\ Vault!SleepSeconds(2 * Retry) = Vault!RetrySleep /\ Vault!RetrySleep \in Nat
         /\ Vault!RetrySleep <= Vault!LongestSleep /\ Vault!LongestSleep \in Nat
<1>1. MinRenew \in Nat /\ Retry \in Nat \ {0} /\ RenewPercent \in 0..99 /\ Ttl \in Nat
      /\ 2 * Retry <= Ttl
  BY DEF Vault!Sensible
<1> DEFINE twice == 2 * Retry
           portion == (twice * RenewPercent) \div 100
           most == (Ttl * RenewPercent) \div 100
<1>a. twice \in Nat /\ twice <= Ttl /\ twice > 0
  BY <1>1
<1> HIDE DEF twice
<1>b. portion \in Nat
  BY <1>1, <1>a, PartOf
<1>c. most \in Nat
  BY <1>1, PartOf
<1>d. portion <= most
  BY <1>1, <1>a, PartsGrow
<1> HIDE DEF portion, most
<1>2. portion \in Nat /\ portion <= most /\ most \in Nat
  BY <1>b, <1>c, <1>d
<1>3. Vault!SleepSeconds(2 * Retry) = Vault!AtLeast(MinRenew, portion) /\ Vault!RetrySleep = Vault!AtLeast(MinRenew, portion)
  BY <1>a DEF Vault!SleepSeconds, Vault!RetrySleep, portion, twice
<1>4. Vault!LongestSleep = Vault!AtLeast(Vault!AtLeast(MinRenew, Retry), most)
  BY DEF Vault!LongestSleep, most
<1> DEFINE p == Vault!AtLeast(MinRenew, portion)
           q == Vault!AtLeast(MinRenew, Retry)
           r == Vault!AtLeast(q, most)
<1>5. p \in Nat /\ p \in {MinRenew, portion} /\ q \in Nat /\ q >= MinRenew
  BY <1>1, <1>2, Greater
<1>6. r >= q /\ r >= most /\ r \in Nat
  BY <1>2, <1>5, Greater
<1>7. /\ Vault!SleepSeconds(2 * Retry) = p /\ Vault!RetrySleep = p
      /\ Vault!LongestSleep = r
  BY <1>3, <1>4
<1> HIDE DEF p, q, r
<1> QED BY <1>1, <1>2, <1>5, <1>6, <1>7

\* The thread goes to sleep on a lease, and the token is as good as the lease says.
LEMMA FallsAsleep ==
  ASSUME Vault!Sensible, NEW lease \in Nat, MinRenew < lease, lease <= Ttl,
         VaultTypeOK', client' = Vault!Sleeping(lease), token'.left = lease,
         revoked' = FALSE
  PROVE  VaultInv'
<1>1. client'.at = "asleep" /\ client'.sleep = Vault!SleepSeconds(lease)
  BY DEF Vault!Sleeping
<1>2. client'.sleep < token'.left /\ client'.sleep <= Vault!LongestSleep
  BY <1>1, SleepOfALease
<1>3. WakesInTime'
  BY <1>2 DEF WakesInTime
<1>4. LogsInSoon'
  BY <1>1 DEF LogsInSoon
<1>5. NoticesRevocation'
  BY <1>1, <1>2 DEF NoticesRevocation
<1> QED BY <1>3, <1>4, <1>5 DEF VaultInv

-----------------------------------------------------------------------------
LEMMA VaultStart ==
  ASSUME Vault!Sensible, Vault!Init PROVE VaultInv
<1>1. client.at = "asleep" /\ client.sleep = Vault!SleepSeconds(Ttl) /\ client.lease = Ttl
      /\ token = Vault!NewToken /\ token.left = Ttl /\ ~revoked
  BY DEF Vault!Init, Vault!Sleeping, Vault!NewToken
<1>2. Vault!SleepSeconds(Ttl) \in Nat /\ Vault!SleepSeconds(Ttl) < Ttl /\ Vault!SleepSeconds(Ttl) <= Vault!LongestSleep
  BY SleepOfALease DEF Vault!Sensible
<1>3. VaultTypeOK
  <2>1. Ttl \in Nat /\ MaxTtl \in Nat
    BY DEF Vault!Sensible
  <2>2. token \in [left : Nat, age : 0..MaxTtl]
    BY <2>1 DEF Vault!Init, Vault!NewToken
  <2>3. client \in [at : {"asleep", "login"}, lease : Int, sleep : Nat]
    BY <1>2, <2>1 DEF Vault!Init, Vault!Sleeping
  <2> QED BY <2>1, <2>2, <2>3 DEF VaultTypeOK, Vault!Init
<1> QED BY <1>1, <1>2, <1>3 DEF VaultInv, WakesInTime, LogsInSoon, NoticesRevocation

LEMMA VaultComesAndGoes ==
  ASSUME Vault!Sensible, VaultInv, Vault!GoesDown \/ Vault!ComesBack \/ Vault!Revokes PROVE VaultInv'
<1>1. UNCHANGED <<token, client>> /\ calm' = 0
  BY DEF Vault!GoesDown, Vault!ComesBack, Vault!Revokes, Vault!Troubled
<1>2. Vault!RetrySleep \in Nat /\ Vault!LongestSleep \in Nat
  BY SleepOfARetry
<1>3. VaultTypeOK'
  <2>1. up' \in BOOLEAN /\ revoked' \in BOOLEAN
    BY DEF VaultInv, VaultTypeOK, Vault!GoesDown, Vault!ComesBack, Vault!Revokes
  <2>2. calm' \in Nat /\ token' = token /\ client' = client
    BY <1>1
  <2> QED BY <2>1, <2>2 DEF VaultInv, VaultTypeOK
<1>4. client.sleep \in Nat /\ Vault!RetrySleep' = Vault!RetrySleep /\ Vault!LongestSleep' = Vault!LongestSleep
  BY DEF VaultInv, VaultTypeOK, Vault!RetrySleep, Vault!LongestSleep
<1>5. WakesInTime'
  BY <1>1, <1>2, <1>4 DEF VaultInv, WakesInTime
<1>6. LogsInSoon'
  BY <1>1, <1>2, <1>4 DEF LogsInSoon
<1>7. NoticesRevocation'
  BY <1>1, <1>2, <1>4 DEF VaultInv, NoticesRevocation
<1> QED BY <1>3, <1>5, <1>6, <1>7 DEF VaultInv

LEMMA TimePasses ==
  ASSUME Vault!Sensible, VaultInv, Vault!Tick PROVE VaultInv'
<1> DEFINE s == client.sleep
           l == token.left
           c == calm
<1>1. /\ s \in Nat /\ l \in Nat /\ c \in Nat /\ MaxTtl \in Nat /\ client.at = "asleep" /\ s > 0
      /\ token.age \in 0..MaxTtl
  BY DEF VaultInv, VaultTypeOK, Vault!Tick, Vault!Sensible
<1>2. client'.at = "asleep" /\ client'.sleep = s - 1 /\ client'.lease = client.lease
      /\ client' \in [at : {"asleep", "login"}, lease : Int, sleep : Nat]
  BY <1>1 DEF Vault!Tick, VaultInv, VaultTypeOK
<1>3. token'.left = Vault!Less(l) /\ token'.age = Vault!AtMost(token.age + 1, MaxTtl)
      /\ token' = [left |-> Vault!Less(l), age |-> Vault!AtMost(token.age + 1, MaxTtl)]
      /\ calm' = Vault!AtMost(c + 1, MaxTtl) /\ up' = up /\ revoked' = revoked
  BY DEF Vault!Tick
<1>4. Vault!Less(l) \in Nat /\ (l > s => Vault!Less(l) > s - 1)
  BY <1>1 DEF Vault!Less, Vault!AtLeast
<1>5. Vault!AtMost(c + 1, MaxTtl) \in Nat /\ Vault!AtMost(c + 1, MaxTtl) <= c + 1
      /\ Vault!AtMost(token.age + 1, MaxTtl) \in 0..MaxTtl
  BY <1>1 DEF Vault!AtMost
<1>6. VaultTypeOK'
  BY <1>2, <1>3, <1>4, <1>5 DEF VaultTypeOK, VaultInv
<1>7. Vault!RetrySleep \in Nat /\ Vault!LongestSleep \in Nat
  BY SleepOfARetry
<1>8. WakesInTime'
  BY <1>1, <1>2, <1>3, <1>4, <1>5, <1>7 DEF WakesInTime, VaultInv
<1>9. LogsInSoon' /\ NoticesRevocation'
  BY <1>1, <1>2, <1>3, <1>5, <1>7 DEF LogsInSoon, NoticesRevocation, VaultInv
<1> QED BY <1>6, <1>8, <1>9 DEF VaultInv

LEMMA Renewals ==
  ASSUME Vault!Sensible, VaultInv, Vault!Renew PROVE VaultInv'
<1>1. /\ VaultTypeOK /\ client.at = "asleep" /\ client.sleep = 0
      /\ UNCHANGED <<up, calm, revoked>>
      /\ calm \in Nat /\ token.left \in Nat /\ token.age \in 0..MaxTtl /\ MaxTtl \in Nat
      /\ Ttl \in Nat /\ MinRenew \in Nat
  BY DEF VaultInv, VaultTypeOK, Vault!Renew, Vault!Awake, Vault!Sensible
<1>2. Vault!Extended \in Nat /\ Vault!Extended <= Ttl
  BY <1>1 DEF Vault!Extended, Vault!AtMost
<1>3. token' \in [left : Nat, age : 0..MaxTtl]
      /\ token'.left = IF Vault!Renewable THEN Vault!Extended ELSE token.left
  BY <1>1, <1>2 DEF Vault!Renew, VaultTypeOK
<1>4. CASE Vault!Renewable /\ Vault!Extended > MinRenew
  <2>1. client' = Vault!Sleeping(Vault!Extended) /\ revoked' = FALSE
    BY <1>1, <1>4 DEF Vault!Renew, Vault!Renewable, VaultTypeOK
  <2>2. Vault!SleepSeconds(Vault!Extended) \in Nat
    BY <1>1, <1>2, <1>4, SleepOfALease
  <2>3. VaultTypeOK'
    BY <1>1, <1>2, <1>3, <2>1, <2>2 DEF VaultTypeOK, Vault!Sleeping
  <2> QED BY <1>1, <1>2, <1>3, <1>4, <2>1, <2>3, FallsAsleep
<1>5. CASE ~(Vault!Renewable /\ Vault!Extended > MinRenew)
  <2>1. client' = [client EXCEPT !.at = "login"]
    BY <1>5 DEF Vault!Renew
  <2>2. client'.at = "login" /\ client' \in [at : {"asleep", "login"}, lease : Int, sleep : Nat]
    BY <1>1, <2>1 DEF VaultTypeOK
  <2>3. VaultTypeOK'
    BY <1>1, <1>3, <2>2 DEF VaultTypeOK
  <2>4. token'.left > 0 \/ ~up \/ calm <= Vault!RetrySleep
    BY <1>1, <1>3, SleepOfARetry DEF VaultInv, WakesInTime, Vault!Renewable
  <2>5. revoked /\ up => calm <= Vault!LongestSleep
    BY <1>1, SleepOfARetry DEF VaultInv, NoticesRevocation
  <2> QED BY <1>1, <2>2, <2>3, <2>4, <2>5 DEF VaultInv, WakesInTime, LogsInSoon, NoticesRevocation
<1> QED BY <1>4, <1>5

LEMMA Logins ==
  ASSUME Vault!Sensible, VaultInv, Vault!Login \/ Vault!LoginFails PROVE VaultInv'
<1>1. CASE Vault!Login
  <2>1. client' = Vault!Sleeping(Ttl) /\ token'.left = Ttl /\ revoked' = FALSE
    BY <1>1 DEF Vault!Login, Vault!NewToken
  <2>2. Vault!SleepSeconds(Ttl) \in Nat
    BY SleepOfALease DEF Vault!Sensible
  <2>3. Ttl \in Nat /\ MinRenew < Ttl /\ 0 \in 0..MaxTtl
    BY DEF Vault!Sensible
  <2>4. token' \in [left : Nat, age : 0..MaxTtl]
    BY <1>1, <2>3 DEF Vault!Login, Vault!NewToken
  <2>5. client' \in [at : {"asleep", "login"}, lease : Int, sleep : Nat]
    BY <2>1, <2>2, <2>3 DEF Vault!Sleeping
  <2>6. VaultTypeOK'
    BY <1>1, <2>1, <2>4, <2>5 DEF Vault!Login, VaultTypeOK, VaultInv
  <2>7. Ttl <= Ttl
    BY <2>3
  <2> QED BY <2>1, <2>3, <2>6, <2>7, FallsAsleep
<1>2. CASE Vault!LoginFails
  <2>1. client'.at = "asleep" /\ client'.sleep = Vault!RetrySleep /\ client'.lease = 2 * Retry
        /\ client' = [at |-> "asleep", lease |-> 2 * Retry, sleep |-> Vault!RetrySleep]
    BY <1>2, SleepOfARetry DEF Vault!LoginFails, Vault!AfterFailure, Vault!Sleeping
  <2>2. ~up' /\ Vault!RetrySleep \in Nat /\ Vault!RetrySleep <= Vault!LongestSleep /\ 2 * Retry \in Int
    BY <1>2, SleepOfARetry DEF Vault!LoginFails, Vault!Sensible
  <2>3. VaultTypeOK'
    BY <1>2, <2>1, <2>2 DEF Vault!LoginFails, VaultTypeOK, VaultInv
  <2> QED BY <2>1, <2>2, <2>3 DEF VaultInv, WakesInTime, LogsInSoon, NoticesRevocation
<1> QED BY <1>1, <1>2

LEMMA VaultPreserved ==
  ASSUME Vault!Sensible, VaultInv, [Vault!Next]_vaultVars PROVE VaultInv'
<1>1. CASE UNCHANGED vaultVars
  BY <1>1 DEF VaultInv, VaultTypeOK, WakesInTime, LogsInSoon, NoticesRevocation, vaultVars
<1> QED BY <1>1, VaultComesAndGoes, TimePasses, Renewals, Logins DEF Vault!Next, Vault!Refresh


-----------------------------------------------------------------------------
(* The issuer's keys: no rotation locks anybody out.                        *)

SignInState == [pc : {"idle", "away", "verifying", "again", "signedIn", "refused"},
                kid : Kid \cup {NoKid}]

\* The issuer publishes the key it signs with, so what it answers is never empty.
IssuerInv ==
    /\ signing \in Kid /\ signing \in published
    /\ signIn \in [Tab -> SignInState]

LEMMA SigningKeysStart ==
  ASSUME FirstKid \in Kid, Issuer!Init PROVE IssuerInv
BY DEF Issuer!Init, IssuerInv, SignInState, Issuer!AtRest

LEMMA SigningKeysPreserved ==
  ASSUME IssuerInv, [Issuer!Next]_issuerVars PROVE IssuerInv'
<1>1. CASE UNCHANGED issuerVars
  BY <1>1 DEF IssuerInv, issuerVars
<1>2. CASE Issuer!Rotate \/ Issuer!Withdraw
  BY <1>2 DEF IssuerInv, Issuer!Rotate, Issuer!Withdraw
<1>3. CASE Issuer!Outage \/ Issuer!Tick
  BY <1>3 DEF IssuerInv, Issuer!Outage, Issuer!Tick, Issuer!issuer
<1>4. ASSUME NEW t \in Tab, Issuer!Start(t) \/ Issuer!Return(t) \/ Issuer!Verify(t) \/ Issuer!VerifyAgain(t)
      PROVE  IssuerInv'
  <2>1. signing' = signing /\ published' = published
    BY <1>4 DEF Issuer!Start, Issuer!Return, Issuer!Verify, Issuer!VerifyAgain, Issuer!issuer
  <2>2. signIn[t] \in SignInState
    BY DEF IssuerInv
  <2>3. \E s \in SignInState : signIn' = [signIn EXCEPT ![t] = s]
    <3>1. CASE Issuer!Start(t)
      BY <3>1 DEF Issuer!Start, Issuer!AtRest, SignInState
    <3>2. CASE Issuer!Return(t)
      BY <2>2, <3>2 DEF Issuer!Return, SignInState, IssuerInv
    <3>3. ASSUME NEW pc \in {"signedIn", "refused", "again"}, Issuer!Goes(t, pc)
          PROVE  \E s \in SignInState : signIn' = [signIn EXCEPT ![t] = s]
      <4>1. [signIn[t] EXCEPT !.pc = pc] \in SignInState
        BY <2>2 DEF SignInState
      <4> QED BY <3>3, <4>1 DEF Issuer!Goes
    <3>4. CASE Issuer!Verify(t)
      BY <3>3, <3>4 DEF Issuer!Verify
    <3>5. CASE Issuer!VerifyAgain(t)
      BY <3>3, <3>5 DEF Issuer!VerifyAgain
    <3> QED BY <1>4, <3>1, <3>2, <3>4, <3>5
  <2> QED BY <2>1, <2>3 DEF IssuerInv
<1> QED BY <1>1, <1>2, <1>3, <1>4 DEF Issuer!Next

\* A refusal for the key: what the issuer published was asked for, or could not be.
LEMMA RefusedUnreachable ==
  ASSUME IssuerInv, [Issuer!Next]_issuerVars, NEW t \in Tab, signIn[t].pc \in {"verifying", "again"},
         signIn'[t].pc = "refused", signIn[t].kid \in published
  PROVE  ~reachable
<1>1. PICK u \in Tab : Issuer!Verify(u) \/ Issuer!VerifyAgain(u)
  <2>1. signIn' # signIn
    BY DEF IssuerInv
  <2>2. ASSUME NEW u \in Tab, Issuer!Start(u) \/ Issuer!Return(u) PROVE FALSE
    <3>1. signIn[u].pc \notin {"verifying", "again"}
      BY <2>2 DEF Issuer!Start, Issuer!Return
    <3>2. u # t /\ signIn'[t] = signIn[t]
      BY <2>2, <3>1 DEF Issuer!Start, Issuer!Return, IssuerInv
    <3> QED BY <3>2
  <2> QED BY <2>1, <2>2 DEF Issuer!Next, Issuer!Rotate, Issuer!Withdraw, Issuer!Outage, Issuer!Tick, issuerVars
<1>2. u = t
  BY <1>1 DEF Issuer!Verify, Issuer!VerifyAgain, Issuer!Goes, IssuerInv
<1>3. SUFFICES ASSUME reachable PROVE FALSE
  OBVIOUS
<1>4. CASE Issuer!Verify(t)
  <2>1. signIn[t].kid \notin jwks'.keys /\ jwks'.keys = {}
    BY <1>4 DEF Issuer!Verify, Issuer!Goes, IssuerInv, SignInState
  <2>2. jwks' = IF Issuer!Fresh(FALSE) THEN jwks ELSE [keys |-> published, age |-> 0]
    BY <1>3, <1>4 DEF Issuer!Verify, Issuer!LoadJwks
  <2> QED BY <2>1, <2>2 DEF Issuer!Fresh, IssuerInv
<1>5. CASE Issuer!VerifyAgain(t)
  <2>1. jwks'.keys = published
    BY <1>3, <1>5 DEF Issuer!VerifyAgain, Issuer!LoadJwks, Issuer!Fresh
  <2>2. signIn'[t].pc = "signedIn"
    BY <1>5, <2>1 DEF Issuer!VerifyAgain, Issuer!Goes, IssuerInv, SignInState
  <2> QED BY <2>2
<1> QED BY <1>1, <1>2, <1>4, <1>5


-----------------------------------------------------------------------------
(* Accounts and sign-ins: whose account a sign-in ends in.                  *)

AnyGroup == (UNION Memberships) \cup DefaultGroups

AccountRow ==
    [there : {TRUE}, holder : Person, subject : Person \cup {Nobody}, active : BOOLEAN,
     local : BOOLEAN, groups : SUBSET AnyGroup,
     source : {"MANUAL", "SERVICENOW"}]

CallbackState ==
    [at : {"rest", "scope", "subject", "name", "update", "insert", "answer"},
     name : Name \cup {NoName}, groups : SUBSET AnyGroup,
     source : {"MANUAL", "SERVICENOW"}, row : Name \cup {NoName}, derived : BOOLEAN]

SessionState == [name : Name \cup {NoName}, left : Nat, idp : Nat, age : Nat]

PeopleTypeOK ==
    /\ account \in [Name -> AccountRow \cup {People!NoAccount}]
    /\ called \in [Person -> Name] /\ member \in [Person -> Memberships]
    /\ job \in [Tab -> CallbackState] /\ session \in [Tab -> SessionState]
    /\ past \in [names : SUBSET Name, strays : SUBSET Person,
                 groups : [Person -> SUBSET AnyGroup]]

Stray(p) == p \in past.strays

\* Two people are never called the same.
NamesDiffer == \A p, q \in Person : called[p] = called[q] => p = q

\* What an account says of its holder: the one it is linked to, who is called by its name
\* unless that name was given up, or an account never linked in time.
AccountHolds(n) ==
    account[n].there =>
        /\ account[n].subject \notin {Nobody, account[n].holder} => Stray(account[n].holder)
        /\ account[n].subject = Nobody /\ ~Stray(account[n].holder) => n = called[account[n].holder]
        /\ n \notin past.names => called[account[n].holder] = n
        /\ account[n].source = "SERVICENOW" => account[n].subject = account[n].holder
        /\ account[n].groups \subseteq (past.groups[account[n].holder] \cap Tracked) \cup DefaultGroups

AccountsDiffer ==
    \A n, m \in Name :
        /\ account[n].there /\ account[m].there
        /\ account[n].holder = account[m].holder /\ ~Stray(account[n].holder)
        => n = m

\* uq_external
SubjectsDiffer ==
    \A n, m \in Name :
        /\ account[n].there /\ account[m].there
        /\ account[n].subject # Nobody /\ account[n].subject = account[m].subject
        => n = m

\* What a callback has read is still so.
CallbackHolds(t) ==
    LET p == UsedBy[t]
        n == job[t].row
    IN  /\ job[t].at = "rest" <=> job[t] = People!AtRest
        /\ job[t].at # "rest" => job[t].name = called[p]
        /\ job[t].groups \subseteq (past.groups[p] \cap Tracked) \cup DefaultGroups
        /\ job[t].at \in {"name", "insert"} =>
              \A m \in Name : account[m].there /\ account[m].subject = p => m = job[t].name
        /\ job[t].at = "insert" => n = job[t].name
        /\ job[t].at \in {"update", "answer"} => n \in Name /\ account[n].there
        /\ job[t].at = "update" =>
              /\ account[n].subject = p \/ (account[n].subject = Nobody /\ n = job[t].name)
              /\ job[t].derived => account[n].source = "SERVICENOW"
        /\ job[t].at = "answer" => account[n].subject = p

SessionHolds(t) ==
    LET n == session[t].name
    IN  session[t] # People!NoSession =>
            /\ n \in Name /\ account[n].there
            /\ account[n].holder = UsedBy[t] \/ Stray(account[n].holder)
            /\ session[t].left + session[t].age <= MaxAge
            /\ session[t].left + session[t].age <= Floor \/ session[t].left <= session[t].idp

PastHolds == \A p \in Person : People!Plausible(member[p]) \subseteq past.groups[p]

PeopleInv ==
    /\ PeopleTypeOK /\ NamesDiffer /\ SubjectsDiffer /\ PastHolds /\ AccountsDiffer
    /\ \A n \in Name : AccountHolds(n)
    /\ \A t \in Tab : CallbackHolds(t) /\ SessionHolds(t)

LEMMA SameCount == ASSUME NEW S PROVE People!Cardinality(S) = Cardinality(S)
BY DEF People!Cardinality, Cardinality

LEMMA AtRestHolds == People!AtRest \in CallbackState /\ People!AtRest.at = "rest" /\ People!AtRest.groups = {}
BY DEF People!AtRest, CallbackState

LEMMA NoSessionType == People!NoSession \in SessionState
BY DEF People!NoSession, SessionState

LEMMA AnAccount ==
  ASSUME PeopleInv, NEW n \in Name
  PROVE  /\ account[n].there => account[n] \in AccountRow /\ account[n].holder \in Person
         /\ ~account[n].there => account[n].holder = Nobody
<1>1. account[n] \in AccountRow \/ account[n] = People!NoAccount
  BY DEF PeopleInv, PeopleTypeOK
<1>2. CASE account[n] \in AccountRow
  <2>1. account[n].there \in {TRUE} /\ account[n].holder \in Person
    BY <1>2 DEF AccountRow
  <2> QED BY <1>2, <2>1
<1>3. CASE account[n] = People!NoAccount
  <2>1. account[n].there = FALSE /\ account[n].holder = Nobody
    BY <1>3 DEF People!NoAccount
  <2> QED BY <2>1
<1> QED BY <1>1, <1>2, <1>3

\* A callback whose accounts, name and past are as they were.
LEMMA CallbackStays ==
  ASSUME PeopleInv, NEW t \in Tab, job'[t] = job[t], UNCHANGED <<account, called>>,
         past'.groups[UsedBy[t]] = past.groups[UsedBy[t]]
  PROVE  CallbackHolds(t)'
BY DEF PeopleInv, CallbackHolds

\* What is known of an account only grows.
Keeps(n) ==
    account[n].there =>
        /\ account'[n].there /\ account'[n].holder = account[n].holder
        /\ account'[n].source = account[n].source
        /\ account[n].subject # Nobody => account'[n].subject = account[n].subject

LEMMA SessionStays ==
  ASSUME PeopleInv, NEW t \in Tab, session'[t] = session[t], \A n \in Name : Keeps(n),
         past.strays \subseteq past'.strays
  PROVE  SessionHolds(t)'
BY DEF PeopleInv, SessionHolds, Keeps, Stray

\* A step of one callback that writes nothing.
LEMMA CallbackSteps ==
  ASSUME PeopleInv, NEW t \in Tab, NEW s \in CallbackState, job' = [job EXCEPT ![t] = s],
         UNCHANGED <<account, called, member, session, past>>, CallbackHolds(t)'
  PROVE  PeopleInv'
<1>1. PeopleTypeOK'
  BY DEF PeopleInv, PeopleTypeOK
<1>2. ASSUME NEW u \in Tab PROVE CallbackHolds(u)'
  <2>1. CASE u = t
    BY <2>1
  <2>2. CASE u # t
    BY <2>2, CallbackStays DEF PeopleInv, PeopleTypeOK
  <2> QED BY <2>1, <2>2
<1>3. ASSUME NEW u \in Tab PROVE SessionHolds(u)'
  BY SessionStays DEF Keeps
<1>4. /\ NamesDiffer' /\ SubjectsDiffer' /\ PastHolds' /\ AccountsDiffer'
      /\ \A n \in Name : AccountHolds(n)'
  BY DEF PeopleInv, NamesDiffer, SubjectsDiffer, PastHolds, AccountsDiffer,
         AccountHolds, Stray
<1> QED BY <1>1, <1>2, <1>3, <1>4 DEF PeopleInv

LEMMA Derivation ==
  ASSUME PeopleInv, NEW p \in Person
  PROVE  People!Derived(member[p]) \subseteq past.groups[p] \cap Tracked
<1>1. member[p] \in Memberships /\ IsFiniteSet(member[p])
  BY PeopleAssumption DEF PeopleInv, PeopleTypeOK
<1>2. Cardinality(member[p]) \in Nat /\ SaneLimit \in Nat
  BY <1>1, FS_CardinalityType, PeopleAssumption
<1>3. People!Plausible(member[p]) \subseteq past.groups[p]
  BY DEF PeopleInv, PastHolds
<1> QED BY <1>2, <1>3 DEF People!Derived, People!Plausible

LEMMA CallbackInv == ASSUME PeopleInv, NEW t \in Tab, People!Callback(t) PROVE PeopleInv'
<1> DEFINE s == [People!AtRest EXCEPT !.at = "scope", !.name = called[UsedBy[t]]]
<1>1. job' = [job EXCEPT ![t] = s] /\ UNCHANGED <<account, called, member, session, past>>
  BY DEF People!Callback
<1>2. s \in CallbackState /\ s.at = "scope" /\ s.name = called[UsedBy[t]] /\ s.groups = {}
  BY PeopleAssumption DEF People!AtRest, CallbackState, PeopleInv, PeopleTypeOK
<1>3. job'[t] = s
  BY <1>1 DEF PeopleInv, PeopleTypeOK
<1>4. s # People!AtRest
  BY <1>2, AtRestHolds
<1> HIDE DEF s
<1>5. CallbackHolds(t)'
  BY <1>1, <1>2, <1>3, <1>4, AtRestHolds DEF CallbackHolds
<1> QED BY <1>1, <1>2, <1>5, CallbackSteps

LEMMA InitialScopeInv == ASSUME PeopleInv, NEW t \in Tab, People!InitialScope(t) PROVE PeopleInv'
<1> DEFINE d == People!Derived(member[UsedBy[t]])
           s1 == [job[t] EXCEPT !.at = "subject", !.source = "SERVICENOW", !.groups = d]
           s2 == [job[t] EXCEPT !.at = "subject", !.groups = DefaultGroups]
<1>1. /\ job' = [job EXCEPT ![t] = s1] \/ job' = [job EXCEPT ![t] = s2]
      /\ UNCHANGED <<account, called, member, session, past>> /\ job[t].at = "scope"
  BY DEF People!InitialScope
<1>2. job[t] \in CallbackState /\ UsedBy[t] \in Person /\ CallbackHolds(t)
      /\ past.groups[UsedBy[t]] \subseteq AnyGroup
  BY PeopleAssumption DEF PeopleInv, PeopleTypeOK
<1>3. d \subseteq past.groups[UsedBy[t]] \cap Tracked
  BY <1>2, Derivation
<1> HIDE DEF d
<1>4. PICK s \in {s1, s2} : job' = [job EXCEPT ![t] = s]
  BY <1>1
<1>5. /\ s \in CallbackState /\ s.at = "subject" /\ s.name = job[t].name
      /\ s.groups \subseteq (past.groups[UsedBy[t]] \cap Tracked) \cup DefaultGroups
  <2>1. CASE s = s1
    BY <1>2, <1>3, <2>1 DEF CallbackState
  <2>2. CASE s = s2
    BY <1>2, <2>2 DEF CallbackState, AnyGroup
  <2> QED BY <1>4, <2>1, <2>2
<1>6. job'[t] = s
  BY <1>4 DEF PeopleInv, PeopleTypeOK
<1>7. CallbackHolds(t)'
  <2>1. job'[t] # People!AtRest
    BY <1>5, <1>6, AtRestHolds
  <2> QED BY <1>1, <1>2, <1>5, <1>6, <2>1 DEF CallbackHolds
<1> QED BY <1>1, <1>4, <1>5, <1>7, CallbackSteps

LEMMA FindSubjectInv == ASSUME PeopleInv, NEW t \in Tab, People!FindSubject(t) PROVE PeopleInv'
<1> DEFINE p == UsedBy[t]
           found == People!Linked(p, job[t].name)
<1>1. /\ job[t].at = "subject" /\ UNCHANGED <<account, called, member, session, past>>
      /\ job[t] \in CallbackState /\ p \in Person /\ CallbackHolds(t)
  BY PeopleAssumption DEF People!FindSubject, PeopleInv, PeopleTypeOK
<1>2. CASE found = {}
  <2> DEFINE s == [job[t] EXCEPT !.at = "name"]
  <2>1. job' = [job EXCEPT ![t] = s] /\ job'[t] = s
    BY <1>2 DEF People!FindSubject, People!Goes, PeopleInv, PeopleTypeOK
  <2>2. s \in CallbackState /\ s.at = "name" /\ s.name = job[t].name /\ s.groups = job[t].groups
    BY <1>1 DEF CallbackState
  <2>3. \A m \in Name : ~(account[m].there /\ account[m].subject = p)
    BY <1>2 DEF People!Linked
  <2> HIDE DEF s
  <2>4. CallbackHolds(t)'
    BY <1>1, <2>1, <2>2, <2>3, AtRestHolds DEF CallbackHolds
  <2> QED BY <1>1, <2>1, <2>2, <2>4, CallbackSteps
<1>3. CASE found # {}
  <2>1. PICK n \in found : People!Reads(t, n, "update")
    BY <1>3 DEF People!FindSubject
  <2> DEFINE s == [job[t] EXCEPT !.at = "update", !.row = n,
                                 !.derived = account[n].source = "SERVICENOW"]
  <2>2. job' = [job EXCEPT ![t] = s] /\ job'[t] = s
    BY <2>1 DEF People!Reads, PeopleInv, PeopleTypeOK
  <2>3. n \in Name /\ account[n].there /\ account[n].subject = p
    BY <2>1 DEF People!Linked
  <2>4. /\ s \in CallbackState /\ s.at = "update" /\ s.name = job[t].name
        /\ s.groups = job[t].groups /\ s.row = n /\ s.derived = (account[n].source = "SERVICENOW")
    BY <1>1, <2>3 DEF CallbackState
  <2> HIDE DEF s
  <2>5. CallbackHolds(t)'
    BY <1>1, <2>2, <2>3, <2>4, AtRestHolds DEF CallbackHolds
  <2> QED BY <1>1, <2>2, <2>4, <2>5, CallbackSteps
<1> QED BY <1>2, <1>3

LEMMA FindNameInv == ASSUME PeopleInv, NEW t \in Tab, People!FindName(t) PROVE PeopleInv'
<1> DEFINE n == job[t].name
<1>1. /\ job[t].at = "name" /\ UNCHANGED <<account, called, member, session, past>>
      /\ job[t] \in CallbackState /\ UsedBy[t] \in Person /\ CallbackHolds(t)
  BY PeopleAssumption DEF People!FindName, PeopleInv, PeopleTypeOK
<1>2. n \in Name
  BY <1>1 DEF CallbackHolds, PeopleInv, PeopleTypeOK
<1>3. CASE account[n].there /\ account[n].subject = Nobody
  <2> DEFINE s == [job[t] EXCEPT !.at = "update", !.row = n,
                                 !.derived = account[n].source = "SERVICENOW"]
  <2>1. job' = [job EXCEPT ![t] = s]
    BY <1>3 DEF People!FindName, People!Reads
  <2>2. job' = [job EXCEPT ![t] = s] /\ job'[t] = s
    BY <2>1 DEF PeopleInv, PeopleTypeOK
  <2>4. /\ s \in CallbackState /\ s.at = "update" /\ s.name = n
        /\ s.groups = job[t].groups /\ s.row = n /\ s.derived = (account[n].source = "SERVICENOW")
    BY <1>1, <1>2 DEF CallbackState
  <2> HIDE DEF s
  <2>3. /\ n = called[UsedBy[t]]
        /\ job[t].groups \subseteq (past.groups[UsedBy[t]] \cap Tracked) \cup DefaultGroups
        /\ s # People!AtRest
    BY <1>1, <2>4, AtRestHolds DEF CallbackHolds
  <2>5. s.derived => account[n].source = "SERVICENOW"
    BY <2>4
  <2>6. CallbackHolds(t)'
    <3> SUFFICES /\ s.at = "rest" <=> s = People!AtRest
                 /\ s.at # "rest" => s.name = called[UsedBy[t]]
                 /\ s.groups \subseteq (past.groups[UsedBy[t]] \cap Tracked) \cup DefaultGroups
                 /\ s.at = "update"
                 /\ s.row \in Name /\ account[s.row].there
                 /\ account[s.row].subject = Nobody /\ s.row = s.name
                 /\ s.derived => account[s.row].source = "SERVICENOW"
      BY <1>1, <2>2 DEF CallbackHolds
    <3> QED BY <1>2, <1>3, <2>3, <2>4, <2>5
  <2> QED BY <1>1, <2>2, <2>4, <2>6, CallbackSteps
<1>4. CASE ~(account[n].there /\ account[n].subject = Nobody)
  <2> DEFINE s == [job[t] EXCEPT !.at = "insert", !.row = n]
  <2>1. job' = [job EXCEPT ![t] = s]
    BY <1>4 DEF People!FindName
  <2>2. job' = [job EXCEPT ![t] = s] /\ job'[t] = s
    BY <2>1 DEF PeopleInv, PeopleTypeOK
  <2>4. /\ s \in CallbackState /\ s.at = "insert" /\ s.name = n /\ s.groups = job[t].groups /\ s.row = n
    BY <1>1, <1>2 DEF CallbackState
  <2> HIDE DEF s
  <2>5. CallbackHolds(t)'
    BY <1>1, <1>2, <2>2, <2>4, AtRestHolds DEF CallbackHolds
  <2> QED BY <1>1, <2>2, <2>4, <2>5, CallbackSteps
<1> QED BY <1>3, <1>4

LEMMA DuplicateInv == ASSUME PeopleInv, NEW t \in Tab, People!Duplicate(t) PROVE PeopleInv'
<1>1. job' = [job EXCEPT ![t] = People!AtRest] /\ UNCHANGED <<account, called, member, session, past>>
      /\ job'[t] = People!AtRest
  BY DEF People!Duplicate, PeopleInv, PeopleTypeOK
<1>2. CallbackHolds(t)'
  BY <1>1, AtRestHolds DEF CallbackHolds
<1> QED BY <1>1, <1>2, AtRestHolds, CallbackSteps

\* A step that writes no account.
LEMMA SessionSteps ==
  ASSUME PeopleInv, UNCHANGED <<account, called, member, past>>,
         session' \in [Tab -> SessionState], \A t \in Tab : SessionHolds(t)',
         job' \in [Tab -> CallbackState], \A t \in Tab : CallbackHolds(t)'
  PROVE  PeopleInv'
<1>1. PeopleTypeOK'
  BY DEF PeopleInv, PeopleTypeOK
<1>2. /\ NamesDiffer' /\ SubjectsDiffer' /\ PastHolds' /\ AccountsDiffer'
      /\ \A n \in Name : AccountHolds(n)'
  BY DEF PeopleInv, NamesDiffer, SubjectsDiffer, PastHolds, AccountsDiffer,
         AccountHolds, Stray
<1> QED BY <1>1, <1>2 DEF PeopleInv

LEMMA JobsStay ==
  ASSUME PeopleInv, UNCHANGED <<account, called, past, job>>
  PROVE  job' \in [Tab -> CallbackState] /\ \A t \in Tab : CallbackHolds(t)'
BY CallbackStays DEF PeopleInv, PeopleTypeOK

\* A session that is given.
LEMMA SessionGiven ==
  ASSUME PeopleInv, NEW t \in Tab, NEW s \in SessionState, session' = [session EXCEPT ![t] = s],
         UNCHANGED <<account, past>>, SessionHolds(t)'
  PROVE  session' \in [Tab -> SessionState] /\ \A u \in Tab : SessionHolds(u)'
<1>1. session' \in [Tab -> SessionState] /\ \A u \in Tab \ {t} : session'[u] = session[u]
  BY DEF PeopleInv, PeopleTypeOK
<1> QED BY <1>1, SessionStays DEF Keeps

LEMMA TickInv == ASSUME PeopleInv, People!Tick PROVE PeopleInv'
<1>1. UNCHANGED <<account, called, member, past, job>>
  BY DEF People!Tick
<1>2. ASSUME NEW t \in Tab PROVE session'[t] \in SessionState /\ SessionHolds(t)'
  <2> DEFINE s == session[t]
  <2>0. s \in SessionState /\ SessionHolds(t)
    BY DEF PeopleInv, PeopleTypeOK
  <2>1. CASE s.left <= 1
    BY <2>1, NoSessionType DEF People!Tick, SessionHolds
  <2>2. CASE ~(s.left <= 1)
    <3>1. session'[t] = [s EXCEPT !.left = s.left - 1, !.idp = People!Less(s.idp), !.age = s.age + 1]
      BY <2>2 DEF People!Tick
    <3>2. s.left \in Nat /\ s.left > 1 /\ s.idp \in Nat /\ s.age \in Nat /\ People!Less(s.idp) \in Nat
          /\ (s.left <= s.idp => s.left - 1 <= People!Less(s.idp))
      BY <2>0, <2>2 DEF SessionState, People!Less
    <3>3. /\ session'[t] \in SessionState /\ session'[t].name = s.name
          /\ session'[t].left = s.left - 1 /\ session'[t].age = s.age + 1
          /\ session'[t].idp = People!Less(s.idp)
      <4>1. s.left - 1 \in Nat /\ s.age + 1 \in Nat
        BY <3>2
      <4> DEFINE a == s.left - 1
                 b == People!Less(s.idp)
                 c == s.age + 1
      <4>2. a \in Nat /\ b \in Nat /\ c \in Nat
        BY <3>2, <4>1
      <4>3. session'[t] = [s EXCEPT !.left = a, !.idp = b, !.age = c]
        BY <3>1
      <4> HIDE DEF s, a, b, c
      <4>4. s \in SessionState
        BY <2>0
      <4>5. /\ session'[t] \in SessionState /\ session'[t].name = s.name
            /\ session'[t].left = a /\ session'[t].idp = b /\ session'[t].age = c
        BY <4>2, <4>3, <4>4 DEF SessionState
      <4> QED BY <4>5 DEF a, b, c
    <3>4. s # People!NoSession
      BY <3>2 DEF People!NoSession
    <3>5. (s.left - 1) + (s.age + 1) = s.left + s.age
      BY <3>2
    <3> QED BY <1>1, <2>0, <3>2, <3>3, <3>4, <3>5 DEF SessionHolds, Stray
  <2> QED BY <2>1, <2>2
<1>3. session' \in [Tab -> SessionState]
  BY <1>2 DEF People!Tick
<1> QED BY <1>1, <1>2, <1>3, JobsStay, SessionSteps

LEMMA LogoutInv == ASSUME PeopleInv, NEW t \in Tab, People!Logout(t) PROVE PeopleInv'
<1>1. session' = [session EXCEPT ![t] = People!NoSession] /\ UNCHANGED <<account, called, member, past, job>>
      /\ session'[t] = People!NoSession
  BY DEF People!Logout, PeopleInv, PeopleTypeOK
<1>2. SessionHolds(t)'
  BY <1>1 DEF SessionHolds, People!NoSession
<1> QED BY <1>1, <1>2, NoSessionType, SessionGiven, JobsStay, SessionSteps

LEMMA LocalLoginInv == ASSUME PeopleInv, NEW t \in Tab, People!LocalLogin(t) PROVE PeopleInv'
<1>1. PICK n \in People!Accounts(UsedBy[t]) :
        session' = [session EXCEPT ![t] = [name |-> n, left |-> MaxAge, idp |-> MaxAge, age |-> 0]]
  BY DEF People!LocalLogin
<1>2. UNCHANGED <<account, called, member, past, job>>
  BY DEF People!LocalLogin
<1> DEFINE s == [name |-> n, left |-> MaxAge, idp |-> MaxAge, age |-> 0]
<1>3. s \in SessionState /\ session'[t] = s
  BY <1>1, PeopleAssumption DEF People!Accounts, SessionState, PeopleInv, PeopleTypeOK
<1>4. n \in Name /\ account[n].holder = UsedBy[t] /\ account[n].there
  <2>1. n \in Name /\ account[n].holder = UsedBy[t] /\ UsedBy[t] # Nobody
    BY <1>1, PeopleAssumption DEF People!Accounts
  <2> QED BY <2>1, AnAccount
<1>5. SessionHolds(t)'
  BY <1>2, <1>3, <1>4, PeopleAssumption DEF SessionHolds
<1> HIDE DEF s
<1> QED BY <1>1, <1>2, <1>3, <1>5, SessionGiven, JobsStay, SessionSteps DEF s

LEMMA Lasting ==
  ASSUME NEW idp \in IdpLasts
  PROVE  /\ People!Lasts(idp) \in Nat /\ People!Lasts(idp) <= MaxAge
         /\ People!Lasts(idp) <= Floor \/ People!Lasts(idp) <= idp
<1>1. idp \in Nat /\ MaxAge \in Nat /\ Floor \in Nat /\ Floor <= MaxAge
  BY PeopleAssumption
<1> DEFINE least == IF MaxAge < idp THEN MaxAge ELSE idp
<1>2. least \in Nat /\ least <= MaxAge /\ least <= idp /\ least \in {MaxAge, idp}
  BY <1>1
<1>3. People!Min({MaxAge, idp}) = least
  BY <1>1, <1>2 DEF People!Min
<1>4. People!Lasts(idp) = People!Max({Floor, least})
  BY <1>3 DEF People!Lasts
<1> HIDE DEF least
<1>5. People!Max({Floor, least}) \in {Floor, least}
  <2>1. \E x \in {Floor, least} : \A y \in {Floor, least} : x >= y
    BY <1>1, <1>2
  <2> QED BY <2>1 DEF People!Max
<1> QED BY <1>1, <1>2, <1>4, <1>5

LEMMA AnswerInv == ASSUME PeopleInv, NEW t \in Tab, People!Answer(t) PROVE PeopleInv'
<1>1. job' = [job EXCEPT ![t] = People!AtRest] /\ UNCHANGED <<account, called, member, past>>
      /\ job'[t] = People!AtRest /\ job[t].at = "answer" /\ CallbackHolds(t)
  BY DEF People!Answer, PeopleInv, PeopleTypeOK
<1>2. job' \in [Tab -> CallbackState] /\ \A u \in Tab : CallbackHolds(u)'
  <2>1. job' \in [Tab -> CallbackState] /\ \A u \in Tab \ {t} : job'[u] = job[u]
    BY <1>1, AtRestHolds DEF PeopleInv, PeopleTypeOK
  <2>2. CallbackHolds(t)'
    BY <1>1, AtRestHolds DEF CallbackHolds
  <2> QED BY <1>1, <2>1, <2>2, CallbackStays
<1>3. session' \in [Tab -> SessionState] /\ \A u \in Tab : SessionHolds(u)'
  <2>1. CASE UNCHANGED session
    BY <1>1, <2>1, SessionStays DEF PeopleInv, PeopleTypeOK, Keeps
  <2>2. ASSUME NEW idp \in IdpLasts,
               session' = [session EXCEPT ![t] =
                             [name |-> job[t].row, left |-> People!Lasts(idp), idp |-> idp, age |-> 0]]
        PROVE  session' \in [Tab -> SessionState] /\ \A u \in Tab : SessionHolds(u)'
    <3> DEFINE n == job[t].row
    <3>1. n \in Name /\ account[n].there /\ account[n].subject = UsedBy[t] /\ UsedBy[t] # Nobody
      BY <1>1, PeopleAssumption DEF CallbackHolds
    <3>2. account[n].holder = UsedBy[t] \/ Stray(account[n].holder)
      BY <3>1 DEF PeopleInv, AccountHolds
    <3> PICK s \in SessionState : s = [name |-> n, left |-> People!Lasts(idp), idp |-> idp, age |-> 0]
      BY <3>1, Lasting, PeopleAssumption DEF SessionState
    <3>3. session'[t] = s /\ s.name = n /\ s.left = People!Lasts(idp) /\ s.idp = idp /\ s.age = 0
      BY <2>2 DEF PeopleInv, PeopleTypeOK
    <3>4. s.left + s.age <= MaxAge /\ (s.left + s.age <= Floor \/ s.left <= s.idp)
      BY <3>3, Lasting
    <3>5. SessionHolds(t)'
      BY <1>1, <3>1, <3>2, <3>3, <3>4 DEF SessionHolds, Stray
    <3> QED BY <1>1, <2>2, <3>5, SessionGiven
  <2> QED BY <2>1, <2>2 DEF People!Answer
<1> QED BY <1>1, <1>2, <1>3, SessionSteps

LEMMA JoinsInv == ASSUME PeopleInv, NEW p \in Person, People!Joins(p) PROVE PeopleInv'
<1>1. PICK groups \in Memberships :
        /\ member' = [member EXCEPT ![p] = groups]
        /\ past' = [past EXCEPT !.groups[p] = @ \cup People!Plausible(groups)]
  BY DEF People!Joins
<1>2. UNCHANGED <<account, called, job, session>>
  BY DEF People!Joins
<1>3. past \in [names : SUBSET Name, strays : SUBSET Person, groups : [Person -> SUBSET AnyGroup]]
  BY DEF PeopleInv, PeopleTypeOK
<1>4. People!Plausible(groups) \subseteq AnyGroup
  BY DEF People!Plausible, AnyGroup
<1>5. /\ past'.names = past.names /\ past'.strays = past.strays
      /\ past'.groups = [past.groups EXCEPT ![p] = @ \cup People!Plausible(groups)]
  BY <1>1, <1>3
<1>6. /\ \A q \in Person : past.groups[q] \subseteq past'.groups[q]
      /\ past'.groups \in [Person -> SUBSET AnyGroup] /\ People!Plausible(groups) \subseteq past'.groups[p]
  BY <1>3, <1>4, <1>5
<1>7. PeopleTypeOK'
  <2>1. past' \in [names : SUBSET Name, strays : SUBSET Person, groups : [Person -> SUBSET AnyGroup]]
    BY <1>1, <1>3, <1>6
  <2> QED BY <1>1, <1>2, <2>1 DEF PeopleInv, PeopleTypeOK
<1>8. PastHolds'
  <2> SUFFICES ASSUME NEW q \in Person PROVE People!Plausible(member'[q]) \subseteq past'.groups[q]
    BY DEF PastHolds, People!Plausible
  <2>1. member \in [Person -> Memberships] /\ People!Plausible(member[q]) \subseteq past.groups[q]
    BY DEF PeopleInv, PeopleTypeOK, PastHolds
  <2>2. CASE q = p
    BY <1>1, <1>6, <2>1, <2>2
  <2>3. CASE q # p
    BY <1>1, <1>6, <2>1, <2>3
  <2> QED BY <2>2, <2>3
<1>9. ASSUME NEW n \in Name PROVE AccountHolds(n)'
  <2>1. account[n].there => account[n].holder \in Person
    BY AnAccount
  <2>2. AccountHolds(n)
    BY DEF PeopleInv
  <2> QED BY <1>2, <1>5, <1>6, <2>1, <2>2 DEF AccountHolds, Stray
<1>10. ASSUME NEW t \in Tab PROVE CallbackHolds(t)' /\ SessionHolds(t)'
  <2>1. UsedBy[t] \in Person
    BY PeopleAssumption
  <2>2. past.groups[UsedBy[t]] \subseteq past'.groups[UsedBy[t]] /\ CallbackHolds(t)
    BY <1>6, <2>1 DEF PeopleInv
  <2>3. CallbackHolds(t)'
    BY <1>2, <2>2 DEF CallbackHolds
  <2> QED BY <1>2, <1>5, <2>3, SessionStays DEF Keeps
<1>11. NamesDiffer' /\ SubjectsDiffer' /\ AccountsDiffer'
  BY <1>2, <1>5 DEF PeopleInv, NamesDiffer, SubjectsDiffer, AccountsDiffer, Stray
<1> QED BY <1>7, <1>8, <1>9, <1>10, <1>11 DEF PeopleInv

LEMMA RenameInv == ASSUME PeopleInv, NEW p \in Person, People!Rename(p) PROVE PeopleInv'
<1>1. PICK n \in Name \ {called[q] : q \in Person} :
        /\ \A t \in Tab : UsedBy[t] = p \/ job[t].name = n => job[t] = People!AtRest
        /\ called' = [called EXCEPT ![p] = n]
  BY DEF People!Rename
<1>2. UNCHANGED <<account, member, job, session>>
  BY DEF People!Rename
<1> DEFINE linked == \E m \in People!Accounts(p) : account[m].subject = p
           strays == IF linked THEN past.strays ELSE past.strays \cup {p}
<1>3. past' = [past EXCEPT !.names = @ \cup {called[p]}, !.strays = strays]
  BY DEF People!Rename
<1>4. past \in [names : SUBSET Name, strays : SUBSET Person, groups : [Person -> SUBSET AnyGroup]]
      /\ called \in [Person -> Name]
  BY DEF PeopleInv, PeopleTypeOK
<1>5. strays \subseteq Person /\ past.strays \subseteq strays /\ (p \notin strays => linked)
  BY <1>4
<1> HIDE DEF strays
<1>6. past'.names = past.names \cup {called[p]} /\ past'.strays = strays
      /\ past'.groups = past.groups
  BY <1>3, <1>4
<1>7. past' \in [names : SUBSET Name, strays : SUBSET Person, groups : [Person -> SUBSET AnyGroup]]
  BY <1>3, <1>4, <1>5
<1>8. PeopleTypeOK' /\ NamesDiffer'
  BY <1>1, <1>2, <1>4, <1>7 DEF PeopleInv, PeopleTypeOK, NamesDiffer
<1>9. SubjectsDiffer' /\ AccountsDiffer' /\ PastHolds'
  BY <1>2, <1>5, <1>6 DEF PeopleInv, SubjectsDiffer, AccountsDiffer, PastHolds, Stray, People!Plausible
<1>10. ASSUME NEW m \in Name PROVE AccountHolds(m)'
  <2> SUFFICES ASSUME account[m].there PROVE AccountHolds(m)'
    BY <1>2 DEF AccountHolds
  <2> DEFINE h == account[m].holder
  <2>1. AccountHolds(m) /\ h \in Person
    BY AnAccount DEF PeopleInv
  <2>2. CASE h = p
    <3>1. account[m].subject = Nobody => Stray(h)'
      <4> SUFFICES ASSUME account[m].subject = Nobody, ~Stray(h)' PROVE FALSE
        OBVIOUS
      <4>1. PICK k \in People!Accounts(p) : account[k].subject = p
        BY <1>5, <1>6, <2>2, <1>2 DEF Stray
      <4>2. k \in Name /\ account[k].holder = p /\ account[k].there
        BY <4>1, AnAccount, PeopleAssumption DEF People!Accounts
      <4>3. k = m
        BY <1>2, <1>5, <1>6, <2>2, <4>2 DEF PeopleInv, AccountsDiffer, Stray
      <4> QED BY <4>1, <4>3, PeopleAssumption
    <3>2. m \notin past'.names => called'[h] = m
      BY <1>6, <2>1, <2>2 DEF AccountHolds
    <3> QED BY <1>2, <1>5, <1>6, <2>1, <2>2, <3>1, <3>2 DEF AccountHolds, Stray
  <2>3. CASE h # p
    <3>1. called'[h] = called[h]
      BY <1>1, <1>4, <2>1, <2>3
    <3> QED BY <1>2, <1>5, <1>6, <2>1, <3>1 DEF AccountHolds, Stray
  <2> QED BY <2>2, <2>3
<1>11. ASSUME NEW t \in Tab PROVE CallbackHolds(t)' /\ SessionHolds(t)'
  <2>1. CallbackHolds(t) /\ UsedBy[t] \in Person
    BY PeopleAssumption DEF PeopleInv
  <2>2. job[t].at # "rest" => called'[UsedBy[t]] = called[UsedBy[t]]
    BY <1>1, <1>4, <2>1, AtRestHolds
  <2>3. CallbackHolds(t)'
    BY <1>2, <1>6, <2>1, <2>2 DEF CallbackHolds
  <2> QED BY <1>2, <1>5, <1>6, <2>3, SessionStays DEF Keeps
<1> QED BY <1>8, <1>9, <1>10, <1>11 DEF PeopleInv

LEMMA SetActiveInv == ASSUME PeopleInv, NEW n \in Name, People!SetActive(n) PROVE PeopleInv'
<1>1. account' = [account EXCEPT ![n].active = ~@] /\ account[n].there
      /\ UNCHANGED <<called, member, job, session, past>>
  BY DEF People!SetActive
<1>2. account[n] \in AccountRow /\ account \in [Name -> AccountRow \cup {People!NoAccount}]
  BY <1>1, AnAccount DEF PeopleInv, PeopleTypeOK
<1>3. account'[n] \in AccountRow
  BY <1>1, <1>2 DEF AccountRow
<1>4. ASSUME NEW m \in Name
      PROVE  /\ (account'[m].there <=> account[m].there) /\ account'[m].holder = account[m].holder
             /\ account[m].there =>
                  /\ account'[m].subject = account[m].subject
                  /\ account'[m].source = account[m].source /\ account'[m].groups = account[m].groups
  <2>1. CASE m = n
    BY <1>1, <1>2, <2>1 DEF AccountRow
  <2>2. CASE m # n
    BY <1>1, <1>2, <2>2
  <2> QED BY <2>1, <2>2
<1>5. PeopleTypeOK'
  BY <1>1, <1>2, <1>3 DEF PeopleInv, PeopleTypeOK
<1>6. NamesDiffer' /\ SubjectsDiffer' /\ AccountsDiffer' /\ PastHolds'
  BY <1>1, <1>4 DEF PeopleInv, NamesDiffer, SubjectsDiffer, AccountsDiffer, PastHolds, Stray
<1>7. ASSUME NEW m \in Name PROVE AccountHolds(m)'
  <2>1. AccountHolds(m)
    BY DEF PeopleInv
  <2> QED BY <1>1, <1>4, <2>1 DEF AccountHolds, Stray
<1>8. ASSUME NEW t \in Tab PROVE CallbackHolds(t)'
  <2>1. CallbackHolds(t)
    BY DEF PeopleInv
  <2> QED BY <1>1, <1>4, <2>1 DEF CallbackHolds
<1>9. ASSUME NEW t \in Tab PROVE SessionHolds(t)'
  BY <1>1, <1>4, SessionStays DEF Keeps
<1> QED BY <1>5, <1>6, <1>7, <1>8, <1>9 DEF PeopleInv

\* An account that is made, under the name its holder has.
LEMMA AccountMade ==
  ASSUME PeopleInv, NEW p \in Person, NEW n \in Name, NEW a \in AccountRow,
         ~account[n].there, n = called[p], account' = [account EXCEPT ![n] = a],
         a.there = TRUE,
         a.holder = p, a.subject \in {p, Nobody}, a.source = "SERVICENOW" => a.subject = p,
         a.groups \subseteq (past.groups[p] \cap Tracked) \cup DefaultGroups,
         a.subject = p => \A m \in Name : account[m].there => account[m].subject # p,
         Stray(p) \/ People!Accounts(p) = {}, UNCHANGED <<called, member, past>>
  PROVE  /\ account' \in [Name -> AccountRow \cup {People!NoAccount}]
         /\ NamesDiffer' /\ SubjectsDiffer' /\ AccountsDiffer' /\ PastHolds'
         /\ \A m \in Name : AccountHolds(m)'
         /\ \A m \in Name : Keeps(m)
         /\ account'[n] = a /\ \A m \in Name \ {n} : account'[m] = account[m]
<1>1. account \in [Name -> AccountRow \cup {People!NoAccount}]
  BY DEF PeopleInv, PeopleTypeOK
<1>2. account'[n] = a /\ \A m \in Name \ {n} : account'[m] = account[m]
  BY <1>1
<1>3. SubjectsDiffer'
  BY <1>2 DEF PeopleInv, SubjectsDiffer
<1>4. AccountsDiffer'
  <2> SUFFICES ASSUME NEW k \in Name, NEW m \in Name, account'[k].there, account'[m].there,
                      account'[k].holder = account'[m].holder,
                      account'[k].holder \notin past'.strays
               PROVE  k = m
    BY DEF AccountsDiffer, Stray
  <2>1. CASE k = n \/ m = n
    BY <1>2, <2>1 DEF People!Accounts, Stray
  <2>2. CASE k # n /\ m # n
    BY <1>2, <2>2 DEF PeopleInv, AccountsDiffer, Stray
  <2> QED BY <2>1, <2>2
<1>5. ASSUME NEW m \in Name PROVE AccountHolds(m)'
  <2>1. CASE m = n
    BY <1>2, <2>1 DEF AccountHolds, Stray
  <2>2. CASE m # n
    BY <1>2, <2>2 DEF AccountHolds, Stray, PeopleInv
  <2> QED BY <2>1, <2>2
<1>6. NamesDiffer' /\ PastHolds'
  BY DEF PeopleInv, NamesDiffer, PastHolds, People!Plausible
<1> QED BY <1>1, <1>2, <1>3, <1>4, <1>5, <1>6 DEF Keeps

LEMMA CreateInv == ASSUME PeopleInv, NEW p \in Person, People!Create(p) PROVE PeopleInv'
<1> DEFINE n == called[p]
           a == [there |-> TRUE, holder |-> p, subject |-> Nobody, active |-> TRUE,
                 local |-> TRUE, groups |-> {}, source |-> "MANUAL"]
<1>1. /\ account' = [account EXCEPT ![n] = a] /\ ~account[n].there /\ People!Accounts(p) = {}
      /\ UNCHANGED <<called, member, job, session, past>>
  BY DEF People!Create
<1>2. n \in Name /\ a \in AccountRow /\ a.there = TRUE /\ a.holder = p /\ a.subject = Nobody
      /\ a.source = "MANUAL" /\ a.groups = {}
  BY DEF PeopleInv, PeopleTypeOK, AccountRow
<1> HIDE DEF a
<1>3. Nobody # p
  BY PeopleAssumption
<1>4. /\ account' \in [Name -> AccountRow \cup {People!NoAccount}]
      /\ NamesDiffer' /\ SubjectsDiffer' /\ AccountsDiffer' /\ PastHolds'
      /\ \A m \in Name : AccountHolds(m)'
      /\ \A m \in Name : Keeps(m)
      /\ account'[n] = a /\ \A m \in Name \ {n} : account'[m] = account[m]
  BY <1>1, <1>2, <1>3, AccountMade
<1>5. ASSUME NEW t \in Tab PROVE CallbackHolds(t)' /\ SessionHolds(t)'
  <2>1. CallbackHolds(t) /\ UsedBy[t] # Nobody
    BY PeopleAssumption DEF PeopleInv
  <2>2. CallbackHolds(t)'
    BY <1>1, <1>2, <1>4, <2>1 DEF CallbackHolds
  <2> QED BY <1>1, <1>4, <2>2, SessionStays
<1> QED BY <1>1, <1>4, <1>5 DEF PeopleInv, PeopleTypeOK

LEMMA GoesType ==
  ASSUME PeopleInv, NEW t \in Tab, People!Goes(t, "answer")
  PROVE  /\ job' \in [Tab -> CallbackState] /\ \A u \in Tab \ {t} : job'[u] = job[u]
         /\ job'[t].at = "answer" /\ job'[t].name = job[t].name /\ job'[t].row = job[t].row
         /\ job'[t].groups = job[t].groups
<1> DEFINE s == [job[t] EXCEPT !.at = "answer"]
<1>1. job \in [Tab -> CallbackState] /\ job' = [job EXCEPT ![t] = s]
  BY DEF People!Goes, PeopleInv, PeopleTypeOK
<1>2. job[t] \in CallbackState
  BY <1>1
<1>3. /\ s \in CallbackState /\ s.at = "answer" /\ s.name = job[t].name /\ s.row = job[t].row
      /\ s.groups = job[t].groups
  BY <1>2 DEF CallbackState
<1> HIDE DEF s
<1> QED BY <1>1, <1>3

LEMMA InsertInv == ASSUME PeopleInv, NEW t \in Tab, People!Insert(t) PROVE PeopleInv'
<1> DEFINE p == UsedBy[t]
           n == called[p]
           source == IF job[t].groups = {} THEN "MANUAL" ELSE job[t].source
           a == People!Provisioned(p, job[t].groups, source)
<1>1. CallbackHolds(t) /\ job[t] \in CallbackState /\ p \in Person /\ p # Nobody
  BY PeopleAssumption DEF PeopleInv, PeopleTypeOK
<1>2. job[t].at = "insert" /\ job[t].name = n /\ job[t].row = n /\ n \in Name
  BY <1>1 DEF People!Insert, CallbackHolds, PeopleInv, PeopleTypeOK
<1>3. /\ account' = [account EXCEPT ![n] = a] /\ ~account[n].there /\ ~People!Elsewhere(p, n)
      /\ UNCHANGED <<called, member, session, past>> /\ People!Goes(t, "answer")
  BY <1>2 DEF People!Insert
<1>4. a \in AccountRow /\ a.there = TRUE /\ a.holder = p /\ a.subject = p
      /\ a.groups = job[t].groups
  BY <1>1 DEF People!Provisioned, AccountRow, CallbackState
<1> HIDE DEF a
<1>5. \A m \in Name : account[m].there => account[m].subject # p
  BY <1>3 DEF People!Elsewhere
<1>6. Stray(p) \/ People!Accounts(p) = {}
  <2> SUFFICES ASSUME ~Stray(p), NEW m \in People!Accounts(p) PROVE FALSE
    OBVIOUS
  <2>1. m \in Name /\ account[m].holder = p /\ account[m].there
    BY <1>1, AnAccount DEF People!Accounts
  <2>2. AccountHolds(m)
    BY <2>1 DEF PeopleInv
  <2>3. m = n
    BY <1>5, <2>1, <2>2 DEF AccountHolds
  <2> QED BY <1>3, <2>1, <2>3
<1>7. /\ account' \in [Name -> AccountRow \cup {People!NoAccount}]
      /\ NamesDiffer' /\ SubjectsDiffer' /\ AccountsDiffer' /\ PastHolds'
      /\ \A m \in Name : AccountHolds(m)'
      /\ \A m \in Name : Keeps(m)
      /\ account'[n] = a /\ \A m \in Name \ {n} : account'[m] = account[m]
  <2>1. a.groups \subseteq (past.groups[p] \cap Tracked) \cup DefaultGroups
    BY <1>1, <1>4 DEF CallbackHolds
  <2> HIDE DEF p
  <2> QED BY <1>1, <1>2, <1>3, <1>4, <1>5, <1>6, <2>1, AccountMade
<1>8. /\ job' \in [Tab -> CallbackState] /\ \A u \in Tab \ {t} : job'[u] = job[u]
      /\ job'[t].at = "answer" /\ job'[t].name = job[t].name /\ job'[t].row = job[t].row
      /\ job'[t].groups = job[t].groups
  BY <1>3, GoesType
<1>9. ASSUME NEW u \in Tab PROVE CallbackHolds(u)'
  <2>1. CASE u = t
    BY <1>1, <1>2, <1>3, <1>4, <1>7, <1>8, <2>1, AtRestHolds DEF CallbackHolds
  <2>2. CASE u # t
    <3>1. CallbackHolds(u) /\ job'[u] = job[u]
      BY <1>8, <2>2 DEF PeopleInv
    <3>2. UsedBy[u] = p => called[UsedBy[u]] = n
      OBVIOUS
    <3>3. job[u].at \in {"name", "insert"} =>
              \A m \in Name : account'[m].there /\ account'[m].subject = UsedBy[u] => m = job[u].name
      BY <1>4, <1>7, <3>1, <3>2 DEF CallbackHolds
    <3> QED BY <1>2, <1>3, <1>7, <3>1, <3>3 DEF CallbackHolds
  <2> QED BY <2>1, <2>2
<1>10. ASSUME NEW u \in Tab PROVE SessionHolds(u)'
  BY <1>3, <1>7, SessionStays
<1> QED BY <1>3, <1>7, <1>8, <1>9, <1>10 DEF PeopleInv, PeopleTypeOK

LEMMA UpdateInv == ASSUME PeopleInv, NEW t \in Tab, People!Update(t) PROVE PeopleInv'
<1> DEFINE p == UsedBy[t]
<1>0. /\ CallbackHolds(t) /\ job[t] \in CallbackState /\ p \in Person /\ p # Nobody
      /\ job[t].at = "update"
  BY PeopleAssumption DEF PeopleInv, PeopleTypeOK, People!Update
<1> PICK n \in Name : n = job[t].row
  BY <1>0 DEF CallbackHolds
<1> DEFINE refreshed == RefreshScope /\ job[t].groups # {} /\ job[t].derived
           a == [account[n] EXCEPT !.subject = p,
                                   !.groups = IF refreshed THEN job[t].groups ELSE @]
<1>1. CallbackHolds(t) /\ job[t] \in CallbackState /\ p \in Person /\ p # Nobody
  BY <1>0
<1>2. /\ job[t].at = "update" /\ job[t].name = called[p]
      /\ n \in Name /\ account[n].there /\ account[n] \in AccountRow /\ AccountHolds(n)
      /\ account[n].subject = p \/ (account[n].subject = Nobody /\ n = called[p])
      /\ job[t].derived => account[n].source = "SERVICENOW"
  <2>1. job[t].at = "update"
    BY <1>0
  <2>2. n \in Name /\ account[n].there
    BY <1>1, <2>1 DEF CallbackHolds
  <2> QED BY <1>1, <2>1, <2>2, AnAccount DEF CallbackHolds, PeopleInv
<1>3. /\ account' = [account EXCEPT ![n] = a] /\ ~People!Elsewhere(p, n)
      /\ UNCHANGED <<called, member, session, past>> /\ People!Goes(t, "answer")
  BY <1>2 DEF People!Update, PeopleInv, PeopleTypeOK
<1>4. /\ a \in AccountRow /\ a.there = TRUE /\ a.holder = account[n].holder /\ a.subject = p
      /\ a.source = account[n].source /\ a.groups = IF refreshed THEN job[t].groups ELSE account[n].groups
  BY <1>1, <1>2 DEF AccountRow, CallbackState
<1> HIDE DEF a
<1>5. /\ account \in [Name -> AccountRow \cup {People!NoAccount}]
      /\ account'[n] = a /\ \A m \in Name \ {n} : account'[m] = account[m]
  BY <1>2, <1>3 DEF PeopleInv, PeopleTypeOK
<1>6. account[n].holder = p \/ Stray(account[n].holder)
  <2>1. CASE account[n].subject = p
    BY <1>1, <1>2, <2>1 DEF AccountHolds
  <2>2. CASE account[n].subject = Nobody /\ n = called[p]
    BY <1>1, <1>2, <2>2, AnAccount DEF AccountHolds, PeopleInv, NamesDiffer
  <2> QED BY <1>2, <2>1, <2>2
<1>7. AccountHolds(n)'
  <2>1. a.source = "SERVICENOW" => a.subject = a.holder
    BY <1>1, <1>2, <1>4, AnAccount, PeopleAssumption DEF AccountHolds
  <2>2. a.groups \subseteq (past.groups[a.holder] \cap Tracked) \cup DefaultGroups
    <3>1. CASE refreshed
      <4>1. a.holder = p /\ a.groups = job[t].groups
        BY <1>2, <1>4, <2>1, <3>1 DEF refreshed
      <4> QED BY <1>1, <4>1 DEF CallbackHolds
    <3>2. CASE ~refreshed
      BY <1>2, <1>4, <3>2 DEF AccountHolds
    <3> QED BY <3>1, <3>2
  <2> QED BY <1>1, <1>2, <1>3, <1>4, <1>5, <1>6, <2>1, <2>2 DEF AccountHolds, Stray
<1>8. ASSUME NEW m \in Name PROVE AccountHolds(m)'
  <2>1. CASE m = n
    BY <1>7, <2>1
  <2>2. CASE m # n
    <3>1. account'[m] = account[m] /\ AccountHolds(m)
      BY <1>5, <2>2 DEF PeopleInv
    <3> QED BY <1>3, <3>1 DEF AccountHolds, Stray
  <2> QED BY <2>1, <2>2
<1>9. \A m \in Name : Keeps(m)
  BY <1>1, <1>2, <1>4, <1>5 DEF Keeps
<1>10. AccountsDiffer' /\ NamesDiffer' /\ PastHolds'
  <2>1. \A m \in Name : /\ account'[m].there => account[m].there
                        /\ account[m].there => account'[m].holder = account[m].holder
    BY <1>2, <1>4, <1>5
  <2> QED BY <1>3, <2>1 DEF PeopleInv, AccountsDiffer, NamesDiffer, PastHolds, People!Plausible, Stray
<1>11. SubjectsDiffer'
  <2>1. \A m \in Name \ {n} : account'[m].there => account'[m].subject # p
    BY <1>3, <1>5 DEF People!Elsewhere
  <2> QED BY <1>4, <1>5, <2>1 DEF PeopleInv, SubjectsDiffer
<1>12. /\ job' \in [Tab -> CallbackState] /\ \A u \in Tab \ {t} : job'[u] = job[u]
       /\ job'[t].at = "answer" /\ job'[t].name = job[t].name /\ job'[t].row = job[t].row
       /\ job'[t].groups = job[t].groups
  BY <1>3, GoesType
<1>13. ASSUME NEW u \in Tab PROVE CallbackHolds(u)'
  <2>1. CASE u = t
    BY <1>1, <1>2, <1>3, <1>4, <1>5, <1>12, <2>1, AtRestHolds DEF CallbackHolds
  <2>2. CASE u # t
    <3> DEFINE q == UsedBy[u]
    <3>1. CallbackHolds(u) /\ job'[u] = job[u] /\ q \in Person
      BY <1>12, <2>2, PeopleAssumption DEF PeopleInv
    <3>2. job[u].at \in {"name", "insert"} =>
              \A m \in Name : account'[m].there /\ account'[m].subject = q => m = job[u].name
      <4> SUFFICES ASSUME job[u].at \in {"name", "insert"}, NEW m \in Name,
                          account'[m].there, account'[m].subject = q
                   PROVE  m = job[u].name
        OBVIOUS
      <4>1. CASE m # n
        BY <1>5, <3>1, <4>1 DEF CallbackHolds
      <4>2. CASE m = n
        <5>1. q = p /\ job[u].name = called[q]
          BY <1>4, <1>5, <3>1, <4>2 DEF CallbackHolds
        <5> QED BY <1>2, <3>1, <4>2, <5>1 DEF CallbackHolds
      <4> QED BY <4>1, <4>2
    <3>3. job[u].at \in {"update", "answer"} /\ job[u].row = n /\ account[n].subject = Nobody => q = p
      BY <1>1, <1>2, <3>1, PeopleAssumption DEF CallbackHolds, PeopleInv, NamesDiffer
    <3>4. job[u].at \in {"update", "answer"} =>
            LET m == job[u].row
            IN  /\ m \in Name /\ account'[m].there
                /\ account'[m].source = account[m].source
                /\ account'[m].subject = account[m].subject \/ (m = n /\ account'[m].subject = p
                      /\ account[m].subject = Nobody)
      BY <1>2, <1>4, <1>5, <3>1 DEF CallbackHolds
    <3>5. job[u].at = "update" =>
            LET m == job[u].row
            IN  /\ account'[m].subject = q \/ (account'[m].subject = Nobody /\ m = job[u].name)
                /\ job[u].derived => account'[m].source = "SERVICENOW"
      BY <3>1, <3>3, <3>4 DEF CallbackHolds
    <3>6. job[u].at = "answer" => account'[job[u].row].subject = q
      BY <3>1, <3>3, <3>4 DEF CallbackHolds
    <3> QED BY <1>3, <3>1, <3>2, <3>4, <3>5, <3>6 DEF CallbackHolds
  <2> QED BY <2>1, <2>2
<1>14. ASSUME NEW u \in Tab PROVE SessionHolds(u)'
  BY <1>3, <1>9, SessionStays
<1>15. PeopleTypeOK'
  BY <1>3, <1>4, <1>5, <1>12 DEF PeopleInv, PeopleTypeOK
<1> QED BY <1>8, <1>10, <1>11, <1>13, <1>14, <1>15 DEF PeopleInv

LEMMA PeopleStart == ASSUME People!Init PROVE PeopleInv
<1>1. /\ FirstName \in [Person -> Name] /\ Known \subseteq Person
      /\ \A p, q \in Person : FirstName[p] = FirstName[q] => p = q
      /\ Nobody \notin Person
  BY PeopleAssumption
<1>2. ASSUME NEW n \in Name
      PROVE  \/ account[n] = People!NoAccount
             \/ \E p \in Known : FirstName[p] = n /\ account[n] = People!Provisioned(p, DefaultGroups, "MANUAL")
  <2>1. CASE \E p \in Known : FirstName[p] = n
    <3> DEFINE p == CHOOSE q \in Known : FirstName[q] = n
    <3>1. p \in Known /\ FirstName[p] = n
      BY <2>1
    <3>2. account[n] = People!Provisioned(p, DefaultGroups, "MANUAL")
      BY <2>1 DEF People!Init
    <3> QED BY <3>1, <3>2
  <2>2. CASE ~\E p \in Known : FirstName[p] = n
    BY <2>2 DEF People!Init
  <2> QED BY <2>1, <2>2
<1>3. ASSUME NEW n \in Name, account[n] # People!NoAccount
      PROVE  /\ account[n] \in AccountRow /\ account[n].there
             /\ account[n].holder \in Person
             /\ FirstName[account[n].holder] = n /\ account[n].subject = account[n].holder
             /\ account[n].groups = DefaultGroups
  <2>1. PICK p \in Known : FirstName[p] = n /\ account[n] = People!Provisioned(p, DefaultGroups, "MANUAL")
    BY <1>2, <1>3
  <2>2. p \in Person
    BY <1>1, <2>1
  <2> QED BY <2>1, <2>2 DEF People!Provisioned, AccountRow, AnyGroup
<1>4. ASSUME NEW n \in Name, account[n].there
      PROVE  /\ account[n] \in AccountRow /\ account[n].holder \in Person
             /\ FirstName[account[n].holder] = n /\ account[n].subject = account[n].holder
             /\ account[n].groups = DefaultGroups
  <2>1. account[n] # People!NoAccount
    BY <1>4 DEF People!NoAccount
  <2> QED BY <1>3, <2>1
<1>5. account \in [Name -> AccountRow \cup {People!NoAccount}]
  <2>1. \A n \in Name : account[n] \in AccountRow \cup {People!NoAccount}
    BY <1>3
  <2> QED BY <2>1 DEF People!Init
<1>6. member \in [Person -> Memberships] /\ called = FirstName
  <2>1. (CHOOSE groups \in Memberships : TRUE) \in Memberships
    BY PeopleAssumption
  <2> QED BY <2>1 DEF People!Init
<1>7. /\ past.names = {} /\ past.strays = {} /\ past.groups = [p \in Person |-> People!Plausible(member[p])]
      /\ past \in [names : SUBSET Name, strays : SUBSET Person, groups : [Person -> SUBSET AnyGroup]]
  <2>1. \A p \in Person : People!Plausible(member[p]) \in SUBSET AnyGroup
    BY <1>6 DEF People!Plausible, AnyGroup
  <2> QED BY <2>1 DEF People!Init
<1>8. PeopleTypeOK
  BY <1>1, <1>5, <1>6, <1>7, AtRestHolds, NoSessionType DEF People!Init, PeopleTypeOK
<1>9. NamesDiffer /\ SubjectsDiffer /\ AccountsDiffer /\ PastHolds
  BY <1>1, <1>4, <1>6, <1>7 DEF NamesDiffer, SubjectsDiffer, AccountsDiffer, PastHolds
<1>10. \A n \in Name : AccountHolds(n)
  BY <1>1, <1>4, <1>6 DEF AccountHolds
<1>11. \A t \in Tab : CallbackHolds(t) /\ SessionHolds(t)
  BY AtRestHolds DEF People!Init, CallbackHolds, SessionHolds
<1> QED BY <1>8, <1>9, <1>10, <1>11 DEF PeopleInv

LEMMA PeoplePreserved == ASSUME PeopleInv, [People!Next]_peopleVars PROVE PeopleInv'
<1>1. CASE UNCHANGED peopleVars
  BY <1>1, JobsStay, SessionSteps, SessionStays DEF peopleVars, PeopleInv, PeopleTypeOK, Keeps
<1>2. CASE People!Next
  BY <1>2, TickInv, RenameInv, JoinsInv, CreateInv, SetActiveInv, LocalLoginInv, LogoutInv,
     CallbackInv, InitialScopeInv, FindSubjectInv, FindNameInv, UpdateInv, InsertInv,
     DuplicateInv, AnswerInv DEF People!Next
<1> QED BY <1>1, <1>2

LEMMA PeopleSafe ==
  ASSUME PeopleInv
  PROVE  People!OneAccountEach /\ People!OwnAccount /\ People!ProviderDecides /\ People!DerivedFromMembership
<1>1. People!OneAccountEach
  <2> SUFFICES ASSUME NEW p \in Person \ past.strays PROVE Cardinality(People!Accounts(p)) <= 1
    BY SameCount DEF People!OneAccountEach
  <2>1. ASSUME NEW n \in People!Accounts(p), NEW m \in People!Accounts(p) PROVE n = m
    <3>1. /\ n \in Name /\ account[n].holder = p /\ account[n].there
          /\ m \in Name /\ account[m].holder = p /\ account[m].there
      BY AnAccount, PeopleAssumption DEF People!Accounts
    <3> QED BY <3>1 DEF PeopleInv, AccountsDiffer, Stray
  <2>2. CASE People!Accounts(p) = {}
    BY <2>2, FS_EmptySet
  <2>3. CASE People!Accounts(p) # {}
    <3>1. PICK n \in People!Accounts(p) : People!Accounts(p) = {n}
      BY <2>1, <2>3
    <3> QED BY <3>1, FS_Singleton
  <2> QED BY <2>2, <2>3
<1>2. People!OwnAccount
  BY DEF People!OwnAccount, PeopleInv, SessionHolds, Stray
<1>3. People!ProviderDecides
  <2> SUFFICES ASSUME NEW t \in Tab, People!Admitted(t)
               PROVE  session[t].age < MaxAge /\ (session[t].idp > 0 \/ session[t].age < Floor)
    BY DEF People!ProviderDecides
  <2> DEFINE l == session[t].left
             a == session[t].age
             i == session[t].idp
  <2>1. l \in Nat /\ a \in Nat /\ i \in Nat /\ l > 0 /\ MaxAge \in Nat /\ Floor \in Nat
    BY PeopleAssumption DEF People!Admitted, PeopleInv, PeopleTypeOK, SessionState
  <2>2. l + a <= MaxAge /\ (l + a <= Floor \/ l <= i)
    <3>1. session[t] # People!NoSession
      BY <2>1 DEF People!NoSession
    <3> QED BY <3>1 DEF PeopleInv, SessionHolds
  <2> HIDE DEF l, a, i
  <2>3. a < MaxAge /\ (i > 0 \/ a < Floor)
    BY <2>1, <2>2
  <2> QED BY <2>3 DEF l, a, i
<1>4. People!DerivedFromMembership
  BY DEF People!DerivedFromMembership, PeopleInv, AccountHolds
<1> QED BY <1>1, <1>2, <1>3, <1>4

LEMMA LinksKept == ASSUME PeopleInv, People!Next, NEW n \in Name PROVE Keeps(n)
<1>1. CASE UNCHANGED account
  BY <1>1 DEF Keeps
<1>2. account \in [Name -> AccountRow \cup {People!NoAccount}]
  BY DEF PeopleInv, PeopleTypeOK
<1>3. ASSUME NEW m \in Name, People!SetActive(m) PROVE Keeps(n)
  BY <1>2, <1>3, AnAccount DEF People!SetActive, Keeps, AccountRow
<1>4. ASSUME NEW p \in Person, People!Create(p) PROVE Keeps(n)
  BY <1>2, <1>4 DEF People!Create, Keeps
<1>5. ASSUME NEW t \in Tab, People!Insert(t) PROVE Keeps(n)
  BY <1>2, <1>5 DEF People!Insert, Keeps
<1>6. ASSUME NEW t \in Tab, People!Update(t) PROVE Keeps(n)
  <2> DEFINE m == job[t].row
  <2>1. m \in Name /\ account[m].there /\ account[m].subject \in {UsedBy[t], Nobody}
    BY <1>6 DEF People!Update, PeopleInv, CallbackHolds
  <2>2. account[m] \in AccountRow
    BY <2>1, AnAccount
  <2>3. CASE n = m
    BY <1>2, <1>6, <2>1, <2>2, <2>3 DEF People!Update, Keeps, AccountRow
  <2>4. CASE n # m
    BY <1>2, <1>6, <2>4 DEF People!Update, Keeps
  <2> QED BY <2>3, <2>4
<1> QED BY <1>1, <1>3, <1>4, <1>5, <1>6
        DEF People!Next, People!Tick, People!Rename, People!Joins, People!LocalLogin, People!Logout, People!Callback, People!InitialScope, People!FindSubject,
            People!FindName, People!Duplicate, People!Answer

\* A sign-in that fails finds the account it was about to make or to link.
LEMMA NotForGood ==
  ASSUME PeopleInv, NEW t \in Tab, People!Duplicate(t), job[t].name \notin past.names
  PROVE  account[job[t].name].holder = UsedBy[t]
<1> DEFINE p == UsedBy[t]
<1> DEFINE n == job[t].name
<1>1. CallbackHolds(t) /\ p \in Person /\ p # Nobody
  BY PeopleAssumption DEF PeopleInv
<1>2. job[t].at # "rest"
  BY DEF People!Duplicate
<1>3. n = called[p]
  BY <1>1, <1>2 DEF CallbackHolds
<1>4. n \in Name
  BY <1>1, <1>3 DEF PeopleInv, PeopleTypeOK
<1>5. account[n].there
  <2>1. CASE job[t].at = "insert"
    BY <1>1, <1>4, <2>1 DEF People!Duplicate, People!Elsewhere, CallbackHolds
  <2>2. CASE job[t].at = "update"
    <3>1. PICK m \in Name \ {job[t].row} : account[m].there /\ account[m].subject = p
      BY <2>2 DEF People!Duplicate, People!Elsewhere
    <3>2. account[job[t].row].subject # p
      BY <1>1, <2>2, <3>1 DEF CallbackHolds, PeopleInv, SubjectsDiffer
    <3> QED BY <1>1, <2>2, <3>2 DEF CallbackHolds
  <2> QED BY <2>1, <2>2 DEF People!Duplicate
<1>6. called[account[n].holder] = n /\ account[n].holder \in Person
  BY <1>5, <1>4, AnAccount DEF PeopleInv, AccountHolds
<1> QED BY <1>1, <1>6, <1>3 DEF PeopleInv, NamesDiffer

LEMMA LinksStayHere ==
  ASSUME PeopleInv, [People!Next]_peopleVars
  PROVE  [/\ \A n \in Name :
               account[n].there /\ account[n].subject # Nobody => account'[n].subject = account[n].subject
          /\ \A t \in Tab :
               People!Duplicate(t) /\ job[t].name \notin past.names => account[job[t].name].holder = UsedBy[t]]_peopleVars
BY LinksKept, NotForGood DEF Keeps

-----------------------------------------------------------------------------
(* The board and the trends.                                                *)

Found == {{}} \cup {{p} : p \in Profile}

BoardRow == [queue : Queue, shown : BOOLEAN, snoozed : BOOLEAN, profile : Profile]

TrendRow == [tickets : Nat, team : Nat, breached : Nat, over30 : Nat, newly : Nat, retired : Nat]

ViewsTypeOK ==
    /\ day \in 0..LastDay /\ part \in {"early", "rollup", "prune", "late"}
    /\ board \in [Ticket -> BoardRow]
    /\ signals \in [Ticket -> [Views!Day -> [Views!Shift -> Found]]]
    /\ kept \in Nat
    /\ daily \in [Views!Day -> [Queue -> TrendRow]]
    /\ next \in Nat /\ built \in [Views!Day -> 0..Views!Never]
    /\ history \in [moved : BOOLEAN, returned : BOOLEAN, still : BOOLEAN]

LEMMA ViewsCount ==
  /\ \A S : Views!Cardinality(S) = Cardinality(S)
  /\ \A S : Views!IsFiniteSet(S) <=> IsFiniteSet(S)
BY DEF Views!Cardinality, Cardinality, Views!IsFiniteSet, IsFiniteSet

LEMMA DisjointCount ==
  ASSUME NEW S, NEW T, IsFiniteSet(S), IsFiniteSet(T), S \cap T = {}
  PROVE  IsFiniteSet(S \cup T) /\ Cardinality(S \cup T) = Cardinality(S) + Cardinality(T)
<1>1. Cardinality(S) \in Nat /\ Cardinality(T) \in Nat
  BY FS_CardinalityType
<1>2. Cardinality(S \cap T) = 0
  BY FS_EmptySet
<1>3. /\ IsFiniteSet(S \cup T)
      /\ Cardinality(S \cup T) = Cardinality(S) + Cardinality(T) - Cardinality(S \cap T)
  BY FS_Union
<1>4. Cardinality(S \cup T) = Cardinality(S) + Cardinality(T)
  BY <1>1, <1>2, <1>3
<1> QED BY <1>3, <1>4

LEMMA Bounds ==
  /\ WindowDays \in Nat /\ RetainDays \in Nat /\ LastDay \in Nat
  /\ 1 <= WindowDays /\ WindowDays <= RetainDays
  /\ Views!Day = 0..LastDay /\ Views!Never = LastDay + 1 /\ Views!Never \in Nat
BY WindowAssumption, ViewsAssumption DEF Views!Day, Views!Never

LEMMA SignalType ==
  ASSUME ViewsTypeOK, NEW t \in Ticket, NEW d \in Views!Day, NEW s \in Views!Shift
  PROVE  signals[t][d][s] = {} \/ \E p \in Profile : signals[t][d][s] = {p}
<1>1. signals[t][d][s] \in Found
  BY DEF ViewsTypeOK
<1> QED BY <1>1 DEF Found

LEMMA HeldDays ==
  ASSUME ViewsTypeOK, NEW t \in Ticket, Views!DaysOf(t) # {}
  PROVE  /\ Views!FinalDay(t) \in Views!DaysOf(t) /\ \A e \in Views!DaysOf(t) : Views!FinalDay(t) >= e
         /\ Views!FirstDay(t) \in Views!DaysOf(t) /\ \A e \in Views!DaysOf(t) : Views!FirstDay(t) <= e
<1> DEFINE D == Views!DaysOf(t)
           same == [e \in D |-> e]
           back == [e \in D |-> 0 - e]
<1>1. D \subseteq 0..LastDay /\ IsFiniteSet(0..LastDay)
  BY Bounds, FS_Interval DEF Views!DaysOf
<1>2. IsFiniteSet(D) /\ D \subseteq Nat
  <2>1. D \subseteq Nat
    BY <1>1, Bounds
  <2> HIDE DEF D
  <2> QED BY <1>1, <2>1, FS_Subset
<1> HIDE DEF D
<1>3. PICK r \in D : \A o \in D : same[o] <= same[r]
  <2>1. same \in [D -> Int]
    BY <1>2
  <2> HIDE DEF same
  <2> QED BY <1>2, <2>1, LargestExists DEF D
<1>4. PICK f \in D : \A o \in D : back[o] <= back[f]
  <2>1. back \in [D -> Int]
    BY <1>2
  <2> HIDE DEF back
  <2> QED BY <1>2, <2>1, LargestExists DEF D
<1>5. \A o \in D : r >= o
  BY <1>2, <1>3
<1>6. \A o \in D : f <= o
  BY <1>2, <1>4
<1>7. Views!FinalDay(t) \in D /\ \A e \in D : Views!FinalDay(t) >= e
  BY <1>5 DEF Views!FinalDay, D
<1>8. Views!FirstDay(t) \in D /\ \A e \in D : Views!FirstDay(t) <= e
  BY <1>6 DEF Views!FirstDay, D
<1> QED BY <1>7, <1>8 DEF D

LEMMA LastSignalType ==
  ASSUME ViewsTypeOK, NEW t \in Ticket, NEW d \in Views!Day, Views!Held(t, d)
  PROVE  /\ Views!LastSignal(t, d) \in Profile
         /\ signals[t][d][IF "late" \in Views!Rows(t, d) THEN "late" ELSE "early"]
              = {Views!LastSignal(t, d)}
<1> DEFINE s == IF "late" \in Views!Rows(t, d) THEN "late" ELSE "early"
<1>1. s \in Views!Rows(t, d)
  BY DEF Views!Held, Views!Rows, Views!Shift
<1>2. s \in Views!Shift /\ signals[t][d][s] # {}
  BY <1>1 DEF Views!Rows
<1> HIDE DEF s
<1>3. PICK p \in Profile : signals[t][d][s] = {p}
  BY <1>2, SignalType
<1>4. Views!LastSignal(t, d) = CHOOSE o \in Profile : o \in signals[t][d][s]
  BY DEF Views!LastSignal, s
<1>5. Views!LastSignal(t, d) = p
  BY <1>3, <1>4
<1> QED BY <1>3, <1>5 DEF s

LEMMA LatestType ==
  ASSUME ViewsTypeOK, NEW t \in Views!OnTheBoard
  PROVE  /\ Views!LatestSignal(t) \in Profile
         /\ Views!LatestSignal(t).score \in Nat /\ Views!LatestSignal(t).due \in Nat
         /\ Views!LatestSignal(t).used \in {"none", "under50", "to75", "over75", "over100"}
         /\ Views!LatestSignal(t).breached \in BOOLEAN
         /\ Views!LatestSignal(t).breached => Views!LatestSignal(t).used \in {"over75", "over100"}
<1>1. t \in Ticket /\ Views!DaysOf(t) # {}
  BY DEF Views!OnTheBoard
<1>2. Views!FinalDay(t) \in Views!Day /\ Views!Held(t, Views!FinalDay(t))
  BY <1>1, HeldDays DEF Views!DaysOf
<1>3. Views!LatestSignal(t) \in Profile
  BY <1>1, <1>2, LastSignalType DEF Views!LatestSignal
<1> QED BY <1>3, ViewsAssumption

LEMMA TicketsOf ==
  ASSUME ViewsTypeOK, NEW S \in SUBSET Ticket
  PROVE  /\ IsFiniteSet(S) /\ Cardinality(S) \in Nat
         /\ \A t \in S : board[t] \in BoardRow /\ board[t].queue \in Queue
<1>1. IsFiniteSet(S) /\ Cardinality(S) \in Nat
  BY ViewsAssumption, FS_Subset, FS_CardinalityType
<1>2. \A t \in S : board[t] \in BoardRow
  BY DEF ViewsTypeOK
<1> QED BY <1>1, <1>2 DEF BoardRow

-----------------------------------------------------------------------------
(* Scope.                                                                    *)

LEMMA ListsKeepToScope ==
  ASSUME NEW caller \in Caller, NEW f, NEW t \in Views!BoardSelection(caller, f)
  PROVE  t \in Views!Fetchable(caller)
<1> DEFINE groups == Views!NarrowScope(caller, f.group)
<1>1. groups # {} /\ t \in Views!BoardRows(groups, f)
  BY DEF Views!BoardSelection
<1>2. t \in Views!OnTheBoard /\ board[t].queue \in groups
  BY <1>1 DEF Views!BoardRows
<1>3. Views!CanSeeGroup(caller, board[t].queue)
  BY <1>2 DEF Views!NarrowScope, Views!VisibleGroups, Views!CanSeeGroup, Views!Unrestricted
<1> QED BY <1>2, <1>3 DEF Views!Fetchable

LEMMA WhatOpensIsListed ==
  ASSUME ViewsTypeOK, NEW caller \in Caller, NEW t \in Views!Fetchable(caller),
         board[t].queue # NoQueue
  PROVE  t \in Views!BoardSelection(caller, [Views!Plain EXCEPT !.showSnoozed = TRUE])
<1> DEFINE f == [Views!Plain EXCEPT !.showSnoozed = TRUE]
           groups == Views!NarrowScope(caller, f.group)
<1>1. t \in Views!OnTheBoard /\ t \in Ticket /\ Views!CanSeeGroup(caller, board[t].queue)
  BY DEF Views!Fetchable, Views!OnTheBoard
<1>2. /\ f.group = AnyOf /\ f.agent = AnyOf /\ f.ball = AnyOf /\ f.minScore = 0
      /\ f.showSnoozed = TRUE
  BY DEF Views!Plain
<1> HIDE DEF f
<1>3. board[t].queue \in Views!KnownGroups
  BY <1>1 DEF Views!KnownGroups
<1>4. board[t].queue \in groups
  <2>1. groups = Views!VisibleGroups(caller)
    BY <1>2 DEF Views!NarrowScope
  <2>2. board[t].queue \in Views!VisibleGroups(caller)
    BY <1>1, <1>3 DEF Views!VisibleGroups, Views!CanSeeGroup, Views!Unrestricted
  <2> QED BY <2>1, <2>2
<1> HIDE DEF groups
<1>5. Views!LatestSignal(t).score >= 0
  BY <1>1, LatestType
<1>6. t \in Views!BoardRows(groups, f)
  BY <1>1, <1>2, <1>4, <1>5 DEF Views!BoardRows
<1> QED BY <1>2, <1>4, <1>6 DEF Views!BoardSelection, groups, f

LEMMA ScopeIsOne ==
  ASSUME ViewsTypeOK
  PROVE  Views!ScopeIsOneRule
BY ListsKeepToScope, WhatOpensIsListed DEF Views!ScopeIsOneRule

\* The folds of the pages are sums.
LEMMA TrendSum ==
  ASSUME NEW Q, IsFiniteSet(Q), NEW row, NEW column
  PROVE  Views!MapThenSumSet(LAMBDA q : row[q][column], Q) = SumOver([q \in Q |-> row[q][column]], Q)
<1> DEFINE F == [q \in Q |-> row[q][column]]
<1>1. PICK g : Sums(F, Q, g)
  BY SumsExist
<1>2. g = [s \in SUBSET Q |-> IF s = {} THEN 0
             ELSE row[CHOOSE x \in s : TRUE][column] + g[s \ {CHOOSE x \in s : TRUE}]]
  BY <1>1 DEF Sums, One
<1>3. ASSUME NEW h,
             h = [s \in SUBSET Q |-> IF s = {} THEN 0
                    ELSE row[CHOOSE x \in s : TRUE][column] + h[s \ {CHOOSE x \in s : TRUE}]]
      PROVE  h = g
  <2>1. Sums(F, Q, h)
    BY <1>3 DEF Sums, One
  <2> HIDE DEF F
  <2> QED BY <1>1, <2>1, SumsUnique
<1>4. SumOver(F, Q) = g[Q]
  <2> HIDE DEF F
  <2> QED BY <1>1, SumIs
<1>5. Views!MapThenSumSet(LAMBDA q : row[q][column], Q) = g[Q]
  BY <1>2, <1>3 DEF Views!MapThenSumSet, Views!MapThenFoldSet
<1> QED BY <1>4, <1>5

LEMMA SeriesSum ==
  ASSUME NEW series, IsFiniteSet(DOMAIN series)
  PROVE  Views!Sum(series) = SumOver(series, DOMAIN series)
<1> DEFINE D == DOMAIN series
<1>1. PICK g : Sums(series, D, g)
  BY SumsExist
<1>2. g = [s \in SUBSET D |-> IF s = {} THEN 0
             ELSE series[CHOOSE x \in s : TRUE] + g[s \ {CHOOSE x \in s : TRUE}]]
  BY <1>1 DEF Sums, One
<1>3. ASSUME NEW h,
             h = [s \in SUBSET D |-> IF s = {} THEN 0
                    ELSE series[CHOOSE x \in s : TRUE] + h[s \ {CHOOSE x \in s : TRUE}]]
      PROVE  h = g
  <2>1. Sums(series, D, h)
    BY <1>3 DEF Sums, One
  <2> QED BY <1>1, <2>1, SumsUnique
<1>4. SumOver(series, D) = g[D]
  BY <1>1, SumIs
<1>5. Views!Sum(series) = g[D]
  BY <1>2, <1>3 DEF Views!Sum, Views!MapThenSumSet, Views!MapThenFoldSet
<1> QED BY <1>4, <1>5

LEMMA DailyIs ==
  ASSUME NEW trend, NEW Q \in SUBSET Queue, NEW column, NEW d \in Views!DaysWithRows(trend, Q)
  PROVE  /\ Views!Daily(trend, Q, column)[d] = SumOver([q \in Q |-> trend[d][q][column]], Q)
         /\ DOMAIN Views!Daily(trend, Q, column) = Views!DaysWithRows(trend, Q)
<1>1. Views!Scope(Q, Queue) = Q /\ IsFiniteSet(Q)
  BY ViewsAssumption, FS_Subset DEF Views!Scope
<1>2. Views!Daily(trend, Q, column)[d]
        = Views!MapThenSumSet(LAMBDA q : trend[d][q][column], Views!Scope(Q, Queue))
  BY DEF Views!Daily
<1>3. Views!MapThenSumSet(LAMBDA q : trend[d][q][column], Q)
        = SumOver([q \in Q |-> trend[d][q][column]], Q)
  <2> DEFINE row == trend[d]
  <2> HIDE DEF row
  <2>1. Views!MapThenSumSet(LAMBDA q : row[q][column], Q) = SumOver([q \in Q |-> row[q][column]], Q)
    BY <1>1, TrendSum
  <2> QED BY <2>1 DEF row
<1>4. DOMAIN Views!Daily(trend, Q, column) = Views!DaysWithRows(trend, Q)
  BY DEF Views!Daily
<1> QED BY <1>1, <1>2, <1>3, <1>4

LEMMA DailyIsScoped ==
  ASSUME NEW Q \in SUBSET Queue, NEW column
  PROVE  /\ Views!DaysWithRows(daily, Q) = Views!DaysWithRows(Views!Without(daily, Q), Q)
         /\ Views!Daily(daily, Q, column) = Views!Daily(Views!Without(daily, Q), Q, column)
<1> DEFINE other == Views!Without(daily, Q)
           D == Views!DaysWithRows(daily, Q)
<1>1. Views!Scope(Q, Queue) = Q /\ IsFiniteSet(Q)
  BY ViewsAssumption, FS_Subset DEF Views!Scope
<1>2. \A d \in Views!Day : \A q \in Q : other[d][q] = daily[d][q]
  BY DEF Views!Without
<1> HIDE DEF other
<1>3. D = Views!DaysWithRows(other, Q)
  BY <1>1, <1>2 DEF Views!DaysWithRows
<1>4. ASSUME NEW d \in D
      PROVE  Views!Daily(daily, Q, column)[d] = Views!Daily(other, Q, column)[d]
  <2> DEFINE F == [q \in Q |-> daily[d][q][column]]
             G == [q \in Q |-> other[d][q][column]]
  <2>1. d \in Views!Day
    BY DEF Views!DaysWithRows
  <2>2. F = G
    BY <1>2, <2>1
  <2>3. Views!Daily(daily, Q, column)[d] = SumOver(F, Q)
    BY DailyIs
  <2>4. Views!Daily(other, Q, column)[d] = SumOver(G, Q)
    BY <1>3, DailyIs
  <2> QED BY <2>2, <2>3, <2>4
<1> HIDE DEF D
<1>5. /\ Views!Daily(daily, Q, column) = [d \in D |-> Views!Daily(daily, Q, column)[d]]
      /\ Views!Daily(other, Q, column) = [d \in D |-> Views!Daily(other, Q, column)[d]]
  BY <1>3 DEF Views!Daily, D
<1>6. Views!Daily(daily, Q, column) = Views!Daily(other, Q, column)
  BY <1>4, <1>5
<1> QED BY <1>3, <1>6 DEF other, D

LEMMA PagesAreScoped == Views!ScopedPages
<1> SUFFICES ASSUME NEW Q \in SUBSET Queue
             PROVE  Views!Pages(Views!OnTheBoard, daily, Q)
                      = Views!Pages({t \in Views!OnTheBoard : board[t].queue \in Q},
                                    Views!Without(daily, Q), Q)
  BY DEF Views!ScopedPages
<1> DEFINE ours == {t \in Views!OnTheBoard : board[t].queue \in Q}
           other == Views!Without(daily, Q)
<1>1. Views!Board(Views!OnTheBoard, Q) = Views!Board(ours, Q)
  BY DEF Views!Board, Views!InScope, Views!Scope
<1>2. Views!Operations(Views!OnTheBoard, Q) = Views!Operations(ours, Q)
  BY <1>1 DEF Views!Operations
<1>3. Views!Risk(Views!OnTheBoard, Q) = Views!Risk(ours, Q)
  BY <1>1 DEF Views!Risk
<1>4. Views!People(Views!OnTheBoard, Q) = Views!People(ours, Q)
  BY <1>1 DEF Views!People
<1>5. /\ Views!DaysWithRows(daily, Q) = Views!DaysWithRows(other, Q)
      /\ Views!Daily(daily, Q, "tickets") = Views!Daily(other, Q, "tickets")
      /\ Views!Daily(daily, Q, "newly") = Views!Daily(other, Q, "newly")
      /\ Views!Daily(daily, Q, "retired") = Views!Daily(other, Q, "retired")
      /\ Views!Daily(daily, Q, "breached") = Views!Daily(other, Q, "breached")
      /\ Views!Daily(daily, Q, "over30") = Views!Daily(other, Q, "over30")
  BY DailyIsScoped
<1> HIDE DEF other
<1>6. Views!Backlog(daily, Q) = Views!Backlog(other, Q)
  BY <1>5 DEF Views!Backlog
<1>7. Views!Summary(daily, Q) = Views!Summary(other, Q)
  BY <1>5 DEF Views!Summary
<1> QED BY <1>2, <1>3, <1>4, <1>6, <1>7 DEF Views!Pages, other

-----------------------------------------------------------------------------
(* The pages beside each other.                                              *)

LEMMA HeldSum ==
  ASSUME NEW rows, NEW A, IsFiniteSet(A)
  PROVE  Views!MapThenSumSet(LAMBDA a : Views!Cardinality({t \in rows : Holder[t] = a}), A)
           = SumOver([a \in A |-> Cardinality({t \in rows : Holder[t] = a})], A)
<1> DEFINE F == [a \in A |-> Cardinality({t \in rows : Holder[t] = a})]
           of(a) == Views!Cardinality({t \in rows : Holder[t] = a})
<1>0. \A a \in A : F[a] = of(a)
  BY ViewsCount
<1> HIDE DEF F, of
<1>1. PICK g : Sums(F, A, g)
  BY SumsExist
<1>2. g = [s \in SUBSET A |-> IF s = {} THEN 0
             ELSE of(CHOOSE x \in s : TRUE) + g[s \ {CHOOSE x \in s : TRUE}]]
  BY <1>0, <1>1 DEF Sums, One
<1>3. ASSUME NEW h,
             h = [s \in SUBSET A |-> IF s = {} THEN 0
                    ELSE of(CHOOSE x \in s : TRUE) + h[s \ {CHOOSE x \in s : TRUE}]]
      PROVE  h = g
  <2>1. Sums(F, A, h)
    BY <1>0, <1>3 DEF Sums, One
  <2> QED BY <1>1, <2>1, SumsUnique
<1>4. SumOver(F, A) = g[A]
  BY <1>1, SumIs
<1>5. Views!MapThenSumSet(of, A) = g[A]
  BY <1>2, <1>3 DEF Views!MapThenSumSet, Views!MapThenFoldSet
<1> QED BY <1>4, <1>5 DEF F, of

LEMMA BreachedSum ==
  ASSUME NEW rows, NEW A, IsFiniteSet(A)
  PROVE  Views!MapThenSumSet(LAMBDA a :
             Views!Number({t \in rows : Holder[t] = a}, LAMBDA p : p.breached), A)
           = SumOver([a \in A |-> Cardinality({t \in {o \in rows : Views!LatestSignal(o).breached}
                                                  : Holder[t] = a})], A)
<1> DEFINE F == [a \in A |-> Cardinality({t \in {o \in rows : Views!LatestSignal(o).breached}
                                            : Holder[t] = a})]
           of(a) == Views!Number({t \in rows : Holder[t] = a}, LAMBDA p : p.breached)
<1>0. \A a \in A : F[a] = of(a)
  <2> TAKE a \in A
  <2>1. {t \in {o \in rows : Views!LatestSignal(o).breached} : Holder[t] = a}
          = {t \in {o \in rows : Holder[o] = a} : Views!LatestSignal(t).breached}
    OBVIOUS
  <2> QED BY <2>1, ViewsCount DEF Views!Number
<1> HIDE DEF F, of
<1>1. PICK g : Sums(F, A, g)
  BY SumsExist
<1>2. g = [s \in SUBSET A |-> IF s = {} THEN 0
             ELSE of(CHOOSE x \in s : TRUE) + g[s \ {CHOOSE x \in s : TRUE}]]
  BY <1>0, <1>1 DEF Sums, One
<1>3. ASSUME NEW h,
             h = [s \in SUBSET A |-> IF s = {} THEN 0
                    ELSE of(CHOOSE x \in s : TRUE) + h[s \ {CHOOSE x \in s : TRUE}]]
      PROVE  h = g
  <2>1. Sums(F, A, h)
    BY <1>0, <1>3 DEF Sums, One
  <2> QED BY <1>1, <2>1, SumsUnique
<1>4. SumOver(F, A) = g[A]
  BY <1>1, SumIs
<1>5. Views!MapThenSumSet(of, A) = g[A]
  BY <1>2, <1>3 DEF Views!MapThenSumSet, Views!MapThenFoldSet
<1> QED BY <1>4, <1>5 DEF F, of

\* Who holds them, holds them all.
LEMMA HoldersCount ==
  ASSUME NEW rows \in SUBSET Ticket, NEW A, A = {Holder[t] : t \in rows},
         NEW some \in SUBSET rows
  PROVE  /\ IsFiniteSet(A)
         /\ SumOver([a \in A |-> Cardinality({t \in some : Holder[t] = a})], A) = Cardinality(some)
<1> DEFINE of == [t \in rows |-> Holder[t]]
           F == [a \in A |-> Cardinality({t \in some : Holder[t] = a})]
<1>1. IsFiniteSet(rows) /\ IsFiniteSet(some)
  BY ViewsAssumption, FS_Subset
<1>2. IsFiniteSet(A)
  <2>1. of \in Surjection(rows, A)
    BY DEF Surjection
  <2> QED BY <1>1, <2>1, FS_Surjection
<1>3. F \in [A -> Int]
  <2>1. ASSUME NEW a \in A PROVE F[a] \in Int
    <3>1. {t \in some : Holder[t] = a} \in SUBSET some
      OBVIOUS
    <3> QED BY <1>1, <3>1, FS_Subset, FS_CardinalityType
  <2> QED BY <2>1
<1>4. ASSUME NEW a \in A PROVE F[a] = Cardinality({t \in some : of[t] = a})
  <2>1. {t \in some : Holder[t] = a} = {t \in some : of[t] = a}
    OBVIOUS
  <2> QED BY <2>1
<1>5. {t \in some : of[t] \in A} = some
  OBVIOUS
<1> HIDE DEF F, of
<1>6. SumOver(F, A) = Cardinality({t \in some : of[t] \in A})
  BY <1>1, <1>2, <1>3, <1>4, SumOfCounts
<1> QED BY <1>2, <1>5, <1>6 DEF F

Breached(rows) == {t \in rows : Views!LatestSignal(t).breached}

LEMMA PeopleAre ==
  ASSUME NEW tickets \in SUBSET Ticket, NEW Q
  PROVE  LET rows == Views!Board(tickets, Q)
             p    == Views!People(tickets, Q)
         IN  /\ p.total = Cardinality(rows) /\ p.breached = Cardinality(Breached(rows))
             /\ p.unassigned = Cardinality({t \in rows : Holder[t] = Nobody})
<1> DEFINE rows == Views!Board(tickets, Q)
           agents == {Holder[t] : t \in rows}
           p == Views!People(tickets, Q)
<1>1. rows \in SUBSET Ticket
  BY DEF Views!Board, Views!InScope
<1> HIDE DEF rows
<1>2. IsFiniteSet(agents)
  BY <1>1, HoldersCount
<1> DEFINE T == Views!MapThenSumSet(LAMBDA a : Views!Cardinality({t \in rows : Holder[t] = a}), agents)
           B == Views!MapThenSumSet(LAMBDA a :
                   Views!Number({t \in rows : Holder[t] = a}, LAMBDA x : x.breached), agents)
<1>3. p.total = T /\ p.breached = B
      /\ p.unassigned = IF Nobody \in agents
                        THEN Views!Cardinality({t \in rows : Holder[t] = Nobody}) ELSE 0
  BY DEF Views!People, rows
<1>4. T = Cardinality(rows)
  <2> HIDE DEF agents
  <2>1. T = SumOver([a \in agents |-> Cardinality({t \in rows : Holder[t] = a})], agents)
    BY <1>2, HeldSum
  <2>2. SumOver([a \in agents |-> Cardinality({t \in rows : Holder[t] = a})], agents)
          = Cardinality(rows)
    BY <1>1, HoldersCount DEF agents
  <2> QED BY <2>1, <2>2
<1>5. B = Cardinality(Breached(rows))
  <2> DEFINE some == Breached(rows)
  <2> HIDE DEF agents
  <2>1. B = SumOver([a \in agents |-> Cardinality({t \in some : Holder[t] = a})], agents)
    BY <1>2, BreachedSum DEF Breached
  <2>2. SumOver([a \in agents |-> Cardinality({t \in some : Holder[t] = a})], agents)
          = Cardinality(some)
    <3>1. some \in SUBSET rows
      BY DEF Breached
    <3> HIDE DEF some
    <3> QED BY <1>1, <3>1, HoldersCount DEF agents
  <2> QED BY <2>1, <2>2
<1>6. p.unassigned = Cardinality({t \in rows : Holder[t] = Nobody})
  <2>1. Nobody \notin agents => {t \in rows : Holder[t] = Nobody} = {}
    OBVIOUS
  <2> HIDE DEF agents, p
  <2> QED BY <1>3, <2>1, ViewsCount, FS_EmptySet
<1> HIDE DEF T, B, p
<1> QED BY <1>3, <1>4, <1>5, <1>6 DEF rows, p

\* Five bars that every ticket is in one of.
LEMMA BarsAddUp ==
  ASSUME ViewsTypeOK, NEW rows \in SUBSET Views!OnTheBoard
  PROVE  LET r == Views!Runway(rows)
         IN  /\ Cardinality(rows) = r.under50 + r.to75 + r.to100 + r.breached + r.noSla
             /\ r.breached = Cardinality(Breached(rows))
<1> DEFINE u(t) == Views!LatestSignal(t).used
           A == {t \in rows : u(t) = "under50"}
           B == {t \in rows : u(t) = "to75"}
           C == {t \in rows : u(t) \in {"over75", "over100"} /\ ~Views!LatestSignal(t).breached}
           D == Breached(rows)
           E == {t \in rows : u(t) = "none"}
           r == Views!Runway(rows)
<1>1. /\ r.under50 = Cardinality(A) /\ r.to75 = Cardinality(B) /\ r.to100 = Cardinality(C)
      /\ r.breached = Cardinality(D) /\ r.noSla = Cardinality(E)
  BY ViewsCount DEF Views!Runway, Views!Number, Breached
<1>2. \A t \in rows : /\ u(t) \in {"none", "under50", "to75", "over75", "over100"}
                      /\ Views!LatestSignal(t).breached \in BOOLEAN
                      /\ Views!LatestSignal(t).breached => u(t) \in {"over75", "over100"}
  BY LatestType
<1>3. /\ rows = A \cup (B \cup (C \cup (D \cup E)))
      /\ A \cap (B \cup (C \cup (D \cup E))) = {} /\ B \cap (C \cup (D \cup E)) = {}
      /\ C \cap (D \cup E) = {} /\ D \cap E = {}
  <2> HIDE DEF r
  <2> QED BY <1>2 DEF Breached
<1>4. rows \subseteq Ticket /\ A \subseteq Ticket /\ B \subseteq Ticket /\ C \subseteq Ticket
      /\ D \subseteq Ticket /\ E \subseteq Ticket
  BY DEF Views!OnTheBoard, Breached
<1> HIDE DEF A, B, C, D, E, r, u
<1>5. /\ IsFiniteSet(A) /\ Cardinality(A) \in Nat /\ IsFiniteSet(B) /\ Cardinality(B) \in Nat
      /\ IsFiniteSet(C) /\ Cardinality(C) \in Nat /\ IsFiniteSet(D) /\ Cardinality(D) \in Nat
      /\ IsFiniteSet(E) /\ Cardinality(E) \in Nat
  BY <1>4, TicketsOf
<1> DEFINE V == D \cup E
           W == C \cup V
           X == B \cup W
<1>6. IsFiniteSet(V) /\ Cardinality(V) = Cardinality(D) + Cardinality(E)
  BY <1>3, <1>5, DisjointCount
<1>7. /\ C \cap V = {} /\ B \cap W = {} /\ A \cap X = {} /\ rows = A \cup X
      /\ W = C \cup V /\ X = B \cup W
  BY <1>3
<1> HIDE DEF V, W, X
<1>8. IsFiniteSet(W) /\ Cardinality(W) = Cardinality(C) + Cardinality(V)
  BY <1>5, <1>6, <1>7, DisjointCount
<1>9. IsFiniteSet(X) /\ Cardinality(X) = Cardinality(B) + Cardinality(W)
  BY <1>5, <1>7, <1>8, DisjointCount
<1>10. Cardinality(rows) = Cardinality(A) + Cardinality(X)
  BY <1>5, <1>7, <1>9, DisjointCount
<1> QED BY <1>1, <1>5, <1>6, <1>8, <1>9, <1>10 DEF r, D

LEMMA SoonIsTwoDays ==
  ASSUME ViewsTypeOK, NEW rows \in SUBSET Views!OnTheBoard
  PROVE  Views!Number(rows, LAMBDA p : ~p.breached /\ p.due \in 1..2)
           = Views!Runway(rows).buckets[1] + Views!Runway(rows).buckets[2]
<1> DEFINE due(d) == {t \in rows : ~Views!LatestSignal(t).breached /\ Views!LatestSignal(t).due = d}
<1>1. /\ Views!Runway(rows).buckets[1] = Cardinality(due(1))
      /\ Views!Runway(rows).buckets[2] = Cardinality(due(2))
  BY ViewsCount DEF Views!Runway, Views!Number
<1>2. Views!Number(rows, LAMBDA p : ~p.breached /\ p.due \in 1..2)
        = Cardinality({t \in rows : /\ ~Views!LatestSignal(t).breached
                                    /\ Views!LatestSignal(t).due \in 1..2})
  BY ViewsCount DEF Views!Number
<1>3. 1..2 = {1, 2}
  OBVIOUS
<1>4. {t \in rows : ~Views!LatestSignal(t).breached /\ Views!LatestSignal(t).due \in 1..2}
        = due(1) \cup due(2)
  BY <1>3
<1>5. due(1) \cap due(2) = {}
  OBVIOUS
<1>6. due(1) \in SUBSET Ticket /\ due(2) \in SUBSET Ticket
  BY DEF Views!OnTheBoard
<1> HIDE DEF due
<1>7. IsFiniteSet(due(1)) /\ IsFiniteSet(due(2))
  BY <1>6, TicketsOf
<1>8. Cardinality(due(1) \cup due(2)) = Cardinality(due(1)) + Cardinality(due(2))
  BY <1>5, <1>7, DisjointCount
<1> QED BY <1>1, <1>2, <1>4, <1>8

LEMMA FiguresAgree ==
  ASSUME ViewsTypeOK
  PROVE  Views!PagesAgree
<1> SUFFICES ASSUME NEW Q \in SUBSET Queue
             PROVE  LET o == Views!Operations(Views!OnTheBoard, Q)
                        r == Views!Risk(Views!OnTheBoard, Q)
                        p == Views!People(Views!OnTheBoard, Q)
                    IN  /\ o.total = p.total /\ o.unassigned = p.unassigned
                        /\ o.total = r.under50 + r.to75 + r.to100 + r.breached + r.noSla
                        /\ o.breached = r.breached /\ o.breached = p.breached
                        /\ o.soon = r.buckets[1] + r.buckets[2]
  BY DEF Views!PagesAgree
<1> DEFINE rows == Views!Board(Views!OnTheBoard, Q)
           o == Views!Operations(Views!OnTheBoard, Q)
           r == Views!Risk(Views!OnTheBoard, Q)
           p == Views!People(Views!OnTheBoard, Q)
<1>1. /\ Views!OnTheBoard \in SUBSET Ticket /\ rows \in SUBSET Views!OnTheBoard
  BY DEF Views!OnTheBoard, Views!Board, Views!InScope
<1>2. /\ p.total = Cardinality(rows) /\ p.breached = Cardinality(Breached(rows))
      /\ p.unassigned = Cardinality({t \in rows : Holder[t] = Nobody})
  BY <1>1, PeopleAre
<1>3. r = Views!Runway(rows)
  BY DEF Views!Risk
<1>4. /\ o.total = Cardinality(rows) /\ o.breached = Cardinality(Breached(rows))
      /\ o.unassigned = Cardinality({t \in rows : Holder[t] = Nobody})
      /\ o.soon = Views!Number(rows, LAMBDA x : ~x.breached /\ x.due \in 1..2)
  BY ViewsCount DEF Views!Operations, Views!Number, Views!Unassigned, Breached
<1> HIDE DEF rows, o, p, r
<1>5. /\ Cardinality(rows) = r.under50 + r.to75 + r.to100 + r.breached + r.noSla
      /\ r.breached = Cardinality(Breached(rows))
  BY <1>1, <1>3, BarsAddUp
<1>6. o.soon = r.buckets[1] + r.buckets[2]
  BY <1>1, <1>3, <1>4, SoonIsTwoDays
<1>7. /\ o.total = p.total /\ o.unassigned = p.unassigned
      /\ o.total = r.under50 + r.to75 + r.to100 + r.breached + r.noSla
      /\ o.breached = r.breached /\ o.breached = p.breached
      /\ o.soon = r.buckets[1] + r.buckets[2]
  BY <1>2, <1>4, <1>5, <1>6
<1> QED BY <1>7 DEF o, p, r

LEMMA WindowIsSound ==
  ASSUME day \in Nat
  PROVE  Views!RangeIsSound
<1>1. MaxRangeDays \in Nat /\ MaxRangeDays >= 1
  BY ViewsAssumption
<1> SUFFICES ASSUME NEW start \in (day - MaxRangeDays - 1)..(day + 2),
                    NEW end \in (day - MaxRangeDays - 1)..(day + 2)
             PROVE  LET w == Views!ParseRange("custom", start, end, day)
                    IN  /\ w.end <= day /\ Views!DaysIn(w) <= MaxRangeDays
                        /\ w = Views!ParseRange("", end, start, day)
                        /\ \/ Views!DaysIn(w) >= 1
                           \/ start > day /\ end > day
                           \/ start <= day - MaxRangeDays /\ end <= day - MaxRangeDays
  BY DEF Views!RangeIsSound
<1> DEFINE w == Views!ParseRange("custom", start, end, day)
           low == IF start < end THEN start ELSE end
           high == IF start > end THEN start ELSE end
           first == day - (MaxRangeDays - 1)
<1>2. start \in Int /\ end \in Int
  BY <1>1
<1>3. NoDate \notin {start, end}
  BY <1>2, ViewsAssumption
<1>4. /\ low = Views!Lower(start, end) /\ low = Views!Lower(end, start)
      /\ high = Views!Higher(start, end) /\ high = Views!Higher(end, start)
  BY <1>2 DEF Views!Lower, Views!Higher
<1>5. /\ w = Views!Clamped("custom", low, high, day)
      /\ Views!ParseRange("", end, start, day) = Views!Clamped("custom", low, high, day)
  BY <1>3, <1>4 DEF Views!ParseRange, Views!Custom
<1>6. w = Views!ParseRange("", end, start, day)
  <2> HIDE DEF low, high, w
  <2> QED BY <1>5
<1>7. /\ w.start = IF low > first THEN low ELSE first
      /\ w.end = IF high < day THEN high ELSE day
  <2> HIDE DEF low, high, w
  <2> QED BY <1>5 DEF Views!Clamped, Views!Lower, Views!Higher
<1> HIDE DEF w
<1>8. /\ w.end <= day /\ w.end - w.start + 1 <= MaxRangeDays
      /\ \/ w.end - w.start + 1 >= 1
         \/ start > day /\ end > day
         \/ start <= day - MaxRangeDays /\ end <= day - MaxRangeDays
  BY <1>1, <1>2, <1>7
<1>9. Views!DaysIn(w) = w.end - w.start + 1
  BY DEF Views!DaysIn
<1> QED BY <1>6, <1>8, <1>9 DEF w

LEMMA CountsAgreeToo ==
  ASSUME ViewsTypeOK
  PROVE  Views!CountsAgree
<1> SUFFICES ASSUME NEW caller \in Caller, NEW group \in Views!KnownGroups \cup {AnyOf}
             PROVE  LET rows   == Views!BoardSelection(caller, [Views!Plain EXCEPT !.group = group])
                        said   == Views!Summarise(rows)
                        agents == Views!ByAgent(Views!AgentsRows(caller, group))
                        o      == Views!Operations(Views!OnTheBoard, Views!NarrowScope(caller, group))
                    IN  /\ rows = Views!ApiBoard(caller, group, 0)
                        /\ said = [f \in DOMAIN said |-> o[f]]
                        /\ said.total = Views!MapThenSumSet(LAMBDA a : agents[a].tickets, DOMAIN agents)
                        /\ said.breached = Views!MapThenSumSet(LAMBDA a : agents[a].breached, DOMAIN agents)
  BY DEF Views!CountsAgree
<1> DEFINE asked == [Views!Plain EXCEPT !.group = group]
           groups == Views!NarrowScope(caller, group)
           rows == Views!BoardSelection(caller, asked)
           said == Views!Summarise(rows)
           agents == Views!ByAgent(Views!AgentsRows(caller, group))
           o == Views!Operations(Views!OnTheBoard, groups)
           A == {Holder[t] : t \in rows}
<1>1. /\ asked.group = group /\ asked.agent = AnyOf /\ asked.ball = AnyOf /\ asked.minScore = 0
      /\ asked.showSnoozed = FALSE /\ asked = [Views!Plain EXCEPT !.group = group, !.minScore = 0]
  <2>1. /\ asked.group = group /\ asked.agent = AnyOf /\ asked.ball = AnyOf
        /\ asked.minScore = 0 /\ asked.showSnoozed = FALSE
    BY DEF Views!Plain
  <2>2. asked = [x \in {"group", "agent", "ball", "minScore", "showSnoozed"} |-> asked[x]]
    BY DEF Views!Plain
  <2> HIDE DEF asked
  <2>3. [asked EXCEPT !.minScore = 0] = asked
    BY <2>1, <2>2
  <2>4. asked = [Views!Plain EXCEPT !.group = group, !.minScore = 0]
    BY <2>3 DEF asked
  <2> QED BY <2>1, <2>4
<1>2. rows = Views!ApiBoard(caller, group, 0) /\ rows = Views!AgentsRows(caller, group)
  BY <1>1 DEF Views!ApiBoard, Views!AgentsRows
<1>3. rows = Views!Board(Views!OnTheBoard, groups)
  <2>1. \A t \in Views!OnTheBoard : Views!LatestSignal(t).score >= 0
    BY LatestType
  <2>2. \A t \in Views!OnTheBoard : board[t].queue \in Queue
    BY TicketsOf DEF Views!OnTheBoard
  <2>3. Views!BoardSelection(caller, asked)
          = IF groups = {} THEN {} ELSE Views!BoardRows(groups, asked)
    BY <1>1 DEF Views!BoardSelection
  <2> HIDE DEF groups, asked
  <2>4. CASE groups = {}
    BY <2>3, <2>4 DEF Views!Board, Views!InScope, Views!Scope
  <2>5. CASE groups # {}
    <3>1. Views!BoardRows(groups, asked)
            = {t \in Views!OnTheBoard : ~board[t].snoozed /\ board[t].queue \in groups}
      BY <1>1, <2>1, <2>5 DEF Views!BoardRows
    <3>2. Views!Board(Views!OnTheBoard, groups)
            = {t \in Views!OnTheBoard : ~board[t].snoozed /\ board[t].queue \in groups}
      BY <2>2 DEF Views!Board, Views!InScope, Views!Scope
    <3> QED BY <2>3, <2>5, <3>1, <3>2
  <2> QED BY <2>4, <2>5
<1>4. rows \in SUBSET Ticket
  BY <1>3 DEF Views!Board, Views!InScope, Views!OnTheBoard
<1> HIDE DEF groups, asked
<1>5. said = [f \in DOMAIN said |-> o[f]]
  <2> HIDE DEF rows
  <2>1. DOMAIN said = {"total", "team", "breached"}
    BY DEF Views!Summarise
  <2>2. said.total = o.total /\ said.team = o.team /\ said.breached = o.breached
    BY <1>3 DEF Views!Summarise, Views!Operations
  <2>3. said = [f \in {"total", "team", "breached"} |-> said[f]]
    BY DEF Views!Summarise
  <2> HIDE DEF said, o
  <2> QED BY <2>1, <2>2, <2>3
<1> HIDE DEF rows
<1>6. DOMAIN agents = A /\ IsFiniteSet(A)
  <2>1. DOMAIN agents = A
    BY <1>2 DEF Views!ByAgent
  <2>2. IsFiniteSet(A)
    BY <1>4, HoldersCount
  <2> QED BY <2>1, <2>2
<1>7. \A a \in A : /\ agents[a].tickets = Cardinality({t \in rows : Holder[t] = a})
                   /\ agents[a].breached = Cardinality({t \in Breached(rows) : Holder[t] = a})
  <2> TAKE a \in A
  <2> DEFINE of == {t \in rows : Holder[t] = a}
  <2>1. agents[a] = [tickets |-> Views!Cardinality(of),
                     breached |-> Views!Number(of, LAMBDA p : p.breached)]
    BY <1>2 DEF Views!ByAgent
  <2>2. {t \in of : Views!LatestSignal(t).breached} = {t \in Breached(rows) : Holder[t] = a}
    BY DEF Breached
  <2>3. Views!Number(of, LAMBDA p : p.breached) = Cardinality({t \in Breached(rows) : Holder[t] = a})
    BY <2>2, ViewsCount DEF Views!Number
  <2> HIDE DEF of, agents
  <2> QED BY <2>1, <2>3, ViewsCount DEF of
<1> DEFINE F(c) == [a \in A |-> agents[a][c]]
           G == [a \in A |-> Cardinality({t \in rows : Holder[t] = a})]
           H == [a \in A |-> Cardinality({t \in Breached(rows) : Holder[t] = a})]
<1>8. F("tickets") = G /\ F("breached") = H
  <2> HIDE DEF agents, A
  <2> QED BY <1>7
<1>9. /\ Views!MapThenSumSet(LAMBDA a : agents[a].tickets, A) = SumOver(F("tickets"), A)
      /\ Views!MapThenSumSet(LAMBDA a : agents[a].breached, A) = SumOver(F("breached"), A)
  <2> HIDE DEF agents, A
  <2> QED BY <1>6, TrendSum
<1>10. SumOver(G, A) = Cardinality(rows) /\ SumOver(H, A) = Cardinality(Breached(rows))
  <2>1. Breached(rows) \in SUBSET rows /\ rows \in SUBSET rows
    BY DEF Breached
  <2> QED BY <1>4, <2>1, HoldersCount
<1>11. said.total = Cardinality(rows) /\ said.breached = Cardinality(Breached(rows))
  BY ViewsCount DEF Views!Summarise, Views!Number, Breached
<1> HIDE DEF said, agents, o, A, F, G, H
<1>12. /\ said.total = Views!MapThenSumSet(LAMBDA a : agents[a].tickets, DOMAIN agents)
       /\ said.breached = Views!MapThenSumSet(LAMBDA a : agents[a].breached, DOMAIN agents)
  BY <1>6, <1>8, <1>9, <1>10, <1>11
<1> QED BY <1>2, <1>5, <1>12 DEF rows, said, agents, o, groups, asked

-----------------------------------------------------------------------------
(* The trends.                                                               *)

\* What is kept of the signals: all of the days rolled up again, and of the retention.
KeptHolds ==
    /\ kept = 0 \/ kept + RetainDays <= day + 1
    /\ part \in {"early", "rollup"} => kept = 0 \/ kept + RetainDays <= day
    /\ part = "rollup" => next <= day + 1 /\ next + WindowDays > day

\* No pass has been ahead of its time.
NothingAhead ==
    \A t \in Ticket, d \in Views!Day : d > day \/ (d = day /\ part = "early") => ~Views!Had(t, d)

\* A day is rolled up when it is there, and nothing is said of it before.
BuiltHolds ==
  /\ part = "early" \/ (part = "rollup" /\ next <= day) => built[day] # day
  /\ \A d \in Views!Day :
        /\ built[d] # Views!Never => d <= built[d] /\ built[d] <= day
        /\ built[d] = Views!Never => \A q \in Queue : daily[d][q] = Views!NoRow
        /\ d <= day /\ d + WindowDays > day /\ ((part = "rollup" /\ d < next) \/ built[day] = day)
              => built[d] = day

\* A ticket that a pass has left out stays away, unless one came back.
GoneHolds ==
    ~history.returned =>
        \A t, u \in Ticket, d \in Views!Day, e \in Views!Day :
            Views!Had(t, e) /\ e < d /\ Views!Had(u, d) /\ ~Views!Had(t, d)
                => ~board[t].shown /\ ~Views!After(t, d)

\* What was rolled up of a day that was over is right.
RightHolds ==
    \A d \in Views!Day, q \in Queue :
        /\ built[d] # Views!Never /\ d < built[d]
        /\ ~history.moved /\ ~history.returned /\ Views!Truth(d, q).tickets > 0
        /\ \A t \in Ticket : board[t].queue = q /\ Views!Had(t, d) => Views!Remembered(t, d)
        => daily[d][q] = Views!Truth(d, q)

\* The board is still the one of today's first pass, and what was rolled up since is of it.
StillHolds ==
    history.still =>
        /\ part # "early"
        /\ \A t \in Ticket : board[t].shown <=> Views!Had(t, day)
        /\ built[day] = day =>
              \A q \in Queue :
                  /\ daily[day][q].tickets = Cardinality(Views!Items(day, q))
                  /\ daily[day][q].breached
                        = Cardinality({t \in Views!Items(day, q) : Views!LastSignal(t, day).breached})
                  /\ daily[day][q].over30
                        = Cardinality({t \in Views!Items(day, q) : Views!LastSignal(t, day).over30})

ViewsInv ==
    /\ ViewsTypeOK /\ KeptHolds /\ NothingAhead /\ BuiltHolds /\ GoneHolds /\ RightHolds
    /\ StillHolds

LEMMA NoRowType == Views!NoRow \in TrendRow
BY DEF Views!NoRow, TrendRow

LEMMA RecordIs ==
  ASSUME NEW d, NEW q, Views!Items(d, q) # {}
  PROVE  Views!Record(d, q)
           = [tickets  |-> Views!Aggregate(d, Views!Items(d, q)).tickets,
              team     |-> Views!Aggregate(d, Views!Items(d, q)).team,
              breached |-> Views!Aggregate(d, Views!Items(d, q)).breached,
              over30   |-> Views!Aggregate(d, Views!Items(d, q)).over30,
              newly    |-> Views!Flow(d, q).newly,
              retired  |-> Views!Flow(d, q).retired]
<1> DEFINE a == Views!Aggregate(d, Views!Items(d, q))
           f == Views!Flow(d, q)
<1>1. DOMAIN a = {"tickets", "team", "breached", "over30"}
  BY DEF Views!Aggregate
<1>2. DOMAIN Views!NoRow = {"tickets", "team", "breached", "over30", "newly", "retired"}
  BY DEF Views!NoRow
<1>3. Views!Record(d, q) = [c \in DOMAIN Views!NoRow |-> IF c \in DOMAIN a THEN a[c] ELSE f[c]]
  BY DEF Views!Record
<1> HIDE DEF a, f
<1>4. Views!Record(d, q) = [tickets |-> a.tickets, team |-> a.team, breached |-> a.breached,
                            over30 |-> a.over30, newly |-> f.newly, retired |-> f.retired]
  BY <1>1, <1>2, <1>3
<1> QED BY <1>4 DEF a, f

LEMMA FiguresType ==
  ASSUME NEW d, NEW q
  PROVE  LET items == Views!Items(d, q)
         IN  /\ Views!Aggregate(d, items).tickets \in Nat /\ Views!Aggregate(d, items).team \in Nat
             /\ Views!Aggregate(d, items).breached \in Nat /\ Views!Aggregate(d, items).over30 \in Nat
             /\ Views!Flow(d, q).newly \in Nat /\ Views!Flow(d, q).retired \in Nat
<1> DEFINE items == Views!Items(d, q)
           of == {t \in Ticket : board[t].queue = q /\ Views!DaysOf(t) # {}}
<1>1. \A S \in SUBSET Ticket : Views!Cardinality(S) \in Nat
  BY ViewsAssumption, ViewsCount, FS_Subset, FS_CardinalityType
<1>2. items \in SUBSET Ticket
  BY DEF Views!Items
<1>3. of \in SUBSET Ticket
  OBVIOUS
<1>4. /\ Views!Flow(d, q).newly = Views!Cardinality({t \in of : Views!FirstDay(t) = d})
      /\ Views!Flow(d, q).retired = Views!Cardinality({t \in of : Views!FinalDay(t) + 1 = d})
  BY DEF Views!Flow
<1> HIDE DEF of
<1>5. /\ {t \in of : Views!FirstDay(t) = d} \in SUBSET Ticket
      /\ {t \in of : Views!FinalDay(t) + 1 = d} \in SUBSET Ticket
  BY <1>3
<1>6. Views!Flow(d, q).newly \in Nat /\ Views!Flow(d, q).retired \in Nat
  BY <1>1, <1>4, <1>5
<1> HIDE DEF items
<1>7. /\ Views!Aggregate(d, items).tickets = Views!Cardinality(items)
      /\ Views!Aggregate(d, items).team = Views!Cardinality({t \in items : Views!LastSignal(t, d).team})
      /\ Views!Aggregate(d, items).breached
           = Views!Cardinality({t \in items : Views!LastSignal(t, d).breached})
      /\ Views!Aggregate(d, items).over30
           = Views!Cardinality({t \in items : Views!LastSignal(t, d).over30})
  BY DEF Views!Aggregate
<1>8. /\ {t \in items : Views!LastSignal(t, d).team} \in SUBSET Ticket
      /\ {t \in items : Views!LastSignal(t, d).breached} \in SUBSET Ticket
      /\ {t \in items : Views!LastSignal(t, d).over30} \in SUBSET Ticket
  BY <1>2
<1> QED BY <1>1, <1>2, <1>6, <1>7, <1>8 DEF items

LEMMA RecordType ==
  ASSUME ViewsTypeOK, NEW d \in Views!Day, NEW q \in Queue
  PROVE  Views!Record(d, q) \in TrendRow
<1>1. CASE Views!Items(d, q) = {}
  BY <1>1 DEF Views!Record, ViewsTypeOK
<1>2. CASE Views!Items(d, q) # {}
  BY <1>2, RecordIs, FiguresType DEF TrendRow
<1> QED BY <1>1, <1>2

\* A pass signals what is shown.
LEMMA PassSignals ==
  ASSUME ViewsTypeOK, part \in Views!Shift, Views!Signalled(part),
         NEW t \in Ticket, NEW d \in Views!Day, NEW s \in Views!Shift
  PROVE  /\ board[t].shown /\ d = day /\ s = part => signals'[t][d][s] = {board[t].profile}
         /\ ~(board[t].shown /\ d = day /\ s = part) => signals'[t][d][s] = signals[t][d][s]
<1>1. day \in Views!Day
  BY DEF ViewsTypeOK, Views!Day
<1>2. signals[t] \in [Views!Day -> [Views!Shift -> Found]]
  BY DEF ViewsTypeOK
<1>3. signals'[t] = IF board[t].shown
                    THEN [signals[t] EXCEPT ![day] = [signals[t][day] EXCEPT ![part] = {board[t].profile}]]
                    ELSE signals[t]
  BY DEF Views!Signalled
<1>4. signals[t][day] \in [Views!Shift -> Found]
  BY <1>1, <1>2
<1> QED BY <1>1, <1>2, <1>3, <1>4

-----------------------------------------------------------------------------
(* The steps of the day keep to the types.                                   *)

LEMMA ViewsStartTypes == ASSUME Views!Init PROVE ViewsTypeOK
<1>1. {} \in Found
  BY DEF Found
<1>2. signals = [t \in Ticket |-> [d \in Views!Day |-> [s \in Views!Shift |-> {}]]]
  BY DEF Views!Init, Views!Silence
<1>3. signals \in [Ticket -> [Views!Day -> [Views!Shift -> Found]]]
  BY <1>1, <1>2
<1>4. daily \in [Views!Day -> [Queue -> TrendRow]]
  BY NoRowType DEF Views!Init
<1>5. built \in [Views!Day -> 0..Views!Never]
  BY Bounds DEF Views!Init
<1>6. board \in [Ticket -> BoardRow]
  BY ViewsAssumption DEF Views!Init, BoardRow
<1>7. history \in [moved : BOOLEAN, returned : BOOLEAN, still : BOOLEAN]
  BY DEF Views!Init
<1>8. day = 0 /\ part = "early" /\ kept = 0 /\ next = 0
  BY DEF Views!Init
<1>9. day \in 0..LastDay /\ part \in {"early", "rollup", "prune", "late"} /\ kept \in Nat /\ next \in Nat
  BY <1>8, Bounds
<1> QED BY <1>3, <1>4, <1>5, <1>6, <1>7, <1>9 DEF ViewsTypeOK

LEMMA OnwardTypes ==
  ASSUME ViewsTypeOK, Views!Onward, part \in Views!Shift, part = "late" => day < LastDay
  PROVE  day' \in 0..LastDay /\ part' \in {"early", "rollup", "prune", "late"} /\ next' \in Nat
<1>1. CASE part = "early"
  BY <1>1, Bounds DEF Views!Onward, ViewsTypeOK, Views!FirstOfWindow
<1>2. CASE part # "early"
  BY <1>2, Bounds DEF Views!Onward, ViewsTypeOK, Views!Shift
<1> QED BY <1>1, <1>2

LEMMA PassTypes == ASSUME ViewsTypeOK, Views!PassOfTheDay PROVE ViewsTypeOK'
<1>1. /\ part \in Views!Shift /\ (part = "late" => day < LastDay)
      /\ Views!Signalled(part) /\ Views!Onward
      /\ history' = [history EXCEPT !.still = part = "early"]
      /\ board' = board /\ kept' = kept /\ daily' = daily /\ built' = built
  BY DEF Views!PassOfTheDay
<1>2. day' \in 0..LastDay /\ part' \in {"early", "rollup", "prune", "late"} /\ next' \in Nat
  BY <1>1, OnwardTypes
<1>3. history' \in [moved : BOOLEAN, returned : BOOLEAN, still : BOOLEAN]
  <2> DEFINE c == part = "early"
  <2>1. c \in BOOLEAN
    OBVIOUS
  <2>2. history' = [history EXCEPT !.still = c]
    BY <1>1
  <2> HIDE DEF c
  <2> QED BY <2>1, <2>2 DEF ViewsTypeOK
<1>4. signals' \in [Ticket -> [Views!Day -> [Views!Shift -> Found]]]
  <2>1. signals \in [Ticket -> [Views!Day -> [Views!Shift -> Found]]] /\ day \in Views!Day
    BY DEF ViewsTypeOK, Views!Day
  <2>2. ASSUME NEW t \in Ticket
        PROVE  signals'[t] \in [Views!Day -> [Views!Shift -> Found]]
    <3>1. {board[t].profile} \in Found
      BY DEF ViewsTypeOK, BoardRow, Found
    <3>2. signals'[t] = IF board[t].shown
                        THEN [signals[t] EXCEPT ![day] = [signals[t][day] EXCEPT ![part] = {board[t].profile}]]
                        ELSE signals[t]
      BY <1>1 DEF Views!Signalled
    <3>3. signals[t] \in [Views!Day -> [Views!Shift -> Found]]
      BY <2>1
    <3>4. [signals[t][day] EXCEPT ![part] = {board[t].profile}] \in [Views!Shift -> Found]
      BY <1>1, <2>1, <3>1, <3>3
    <3> QED BY <2>1, <3>2, <3>3, <3>4
  <2>3. signals' = [t \in Ticket |-> signals'[t]]
    BY <1>1 DEF Views!Signalled
  <2> QED BY <2>2, <2>3
<1> QED BY <1>1, <1>2, <1>3, <1>4 DEF ViewsTypeOK

LEMMA MissedTypes == ASSUME ViewsTypeOK, Views!PassMissed PROVE ViewsTypeOK'
<1>1. /\ part \in Views!Shift /\ (part = "late" => day < LastDay) /\ Views!Onward
      /\ history' = [history EXCEPT !.still = FALSE]
      /\ UNCHANGED <<board, signals, kept, daily, built>>
  BY DEF Views!PassMissed
<1>2. day' \in 0..LastDay /\ part' \in {"early", "rollup", "prune", "late"} /\ next' \in Nat
  BY <1>1, OnwardTypes
<1>3. history' \in [moved : BOOLEAN, returned : BOOLEAN, still : BOOLEAN]
  BY <1>1 DEF ViewsTypeOK
<1> QED BY <1>1, <1>2, <1>3 DEF ViewsTypeOK, Views!Day, Views!Never, Views!Shift

\* What a change of the board changes.
LEMMA ChangesOf ==
  ASSUME ViewsTypeOK, Views!BoardChanges
  PROVE  /\ UNCHANGED <<day, part, signals, kept, daily, next, built>>
         /\ ViewsTypeOK'
         /\ history.moved => history'.moved
         /\ history.returned => history'.returned
         /\ history'.still => history.still
         /\ ~history'.moved => \A t \in Ticket : board'[t].queue = board[t].queue
         /\ history'.still => \A t \in Ticket : board'[t].shown = board[t].shown
         /\ ~history'.returned =>
               \A t \in Ticket : board'[t].shown /\ ~board[t].shown => ~Views!Appears(t)
<1>1. UNCHANGED <<day, part, signals, kept, daily, next, built>>
  BY DEF Views!BoardChanges
<1> DEFINE P == /\ ViewsTypeOK'
                /\ history.moved => history'.moved
                /\ history.returned => history'.returned
                /\ history'.still => history.still
                /\ ~history'.moved => \A t \in Ticket : board'[t].queue = board[t].queue
                /\ history'.still => \A t \in Ticket : board'[t].shown = board[t].shown
                /\ ~history'.returned =>
                      \A t \in Ticket : board'[t].shown /\ ~board[t].shown => ~Views!Appears(t)
<1>2. ASSUME board' \in [Ticket -> BoardRow],
             history' \in [moved : BOOLEAN, returned : BOOLEAN, still : BOOLEAN]
      PROVE  ViewsTypeOK'
  BY <1>1, <1>2 DEF ViewsTypeOK, Views!Day, Views!Never, Views!Shift
<1>3. board \in [Ticket -> BoardRow]
      /\ history \in [moved : BOOLEAN, returned : BOOLEAN, still : BOOLEAN]
  BY DEF ViewsTypeOK
<1>4. ASSUME NEW t \in Ticket, board' = [board EXCEPT ![t].shown = ~@],
             history' = [history EXCEPT !.returned = @ \/ (~board[t].shown /\ Views!Appears(t)),
                                        !.still = FALSE]
      PROVE  P
  <2> DEFINE c == history.returned \/ (~board[t].shown /\ Views!Appears(t))
             n == ~board[t].shown
  <2>1. c \in BOOLEAN /\ n \in BOOLEAN /\ board[t] \in BoardRow
    BY <1>3
  <2>2. history' = [moved |-> history.moved, returned |-> c, still |-> FALSE]
    BY <1>3, <1>4
  <2>3. board' = [board EXCEPT ![t] = [board[t] EXCEPT !.shown = n]]
    BY <1>4
  <2>4. history.returned => c
    OBVIOUS
  <2>5. n => ~board[t].shown
    OBVIOUS
  <2>6. ~c => (~board[t].shown => ~Views!Appears(t))
    OBVIOUS
  <2> HIDE DEF c, n
  <2>7. [board[t] EXCEPT !.shown = n] \in BoardRow
    BY <2>1 DEF BoardRow
  <2>8. [board[t] EXCEPT !.shown = n].queue = board[t].queue
    BY <2>1 DEF BoardRow
  <2>9. board' \in [Ticket -> BoardRow]
    BY <1>3, <2>3, <2>7
  <2>10. /\ history' \in [moved : BOOLEAN, returned : BOOLEAN, still : BOOLEAN]
         /\ history'.moved = history.moved /\ history'.returned = c /\ history'.still = FALSE
    BY <1>3, <2>1, <2>2
  <2>11. \A u \in Ticket : board'[u].queue = board[u].queue /\ (u # t => board'[u] = board[u])
    BY <1>3, <2>3, <2>8
  <2>12. ASSUME ~history'.returned, NEW u \in Ticket, board'[u].shown, ~board[u].shown
         PROVE  ~Views!Appears(u)
    BY <2>6, <2>10, <2>11, <2>12
  <2> QED BY <1>2, <2>4, <2>9, <2>10, <2>11, <2>12
<1>5. ASSUME NEW t \in Ticket, NEW q \in Queue, board' = [board EXCEPT ![t].queue = q],
             history' = [history EXCEPT !.moved = TRUE, !.still = FALSE]
      PROVE  P
  <2>1. board' = [board EXCEPT ![t] = [board[t] EXCEPT !.queue = q]] /\ board[t] \in BoardRow
    BY <1>3, <1>5
  <2>2. [board[t] EXCEPT !.queue = q] \in BoardRow
    BY <2>1 DEF BoardRow
  <2>3. [board[t] EXCEPT !.queue = q].shown = board[t].shown
    BY <2>1 DEF BoardRow
  <2>4. board' \in [Ticket -> BoardRow] /\ \A u \in Ticket : board'[u].shown = board[u].shown
    BY <1>3, <2>1, <2>2, <2>3
  <2>5. history' = [moved |-> TRUE, returned |-> history.returned, still |-> FALSE]
    BY <1>3, <1>5
  <2> QED BY <1>2, <1>3, <2>4, <2>5
<1>6. ASSUME NEW t \in Ticket, NEW p \in Profile, board' = [board EXCEPT ![t].profile = p],
             history' = history
      PROVE  P
  <2>1. board' = [board EXCEPT ![t] = [board[t] EXCEPT !.profile = p]] /\ board[t] \in BoardRow
    BY <1>3, <1>6
  <2>2. [board[t] EXCEPT !.profile = p] \in BoardRow
    BY <2>1 DEF BoardRow
  <2>3. /\ [board[t] EXCEPT !.profile = p].shown = board[t].shown
        /\ [board[t] EXCEPT !.profile = p].queue = board[t].queue
    BY <2>1 DEF BoardRow
  <2>4. /\ board' \in [Ticket -> BoardRow]
        /\ \A u \in Ticket : board'[u].shown = board[u].shown /\ board'[u].queue = board[u].queue
    BY <1>3, <2>1, <2>2, <2>3
  <2> QED BY <1>2, <1>3, <1>6, <2>4
<1>7. ASSUME NEW t \in Ticket, board' = [board EXCEPT ![t].snoozed = ~@], history' = history
      PROVE  P
  <2> DEFINE n == ~board[t].snoozed
  <2>1. board' = [board EXCEPT ![t] = [board[t] EXCEPT !.snoozed = n]] /\ board[t] \in BoardRow
    BY <1>3, <1>7
  <2>0. n \in BOOLEAN
    OBVIOUS
  <2> HIDE DEF n
  <2>2. [board[t] EXCEPT !.snoozed = n] \in BoardRow
    BY <2>0, <2>1 DEF BoardRow
  <2>3. /\ [board[t] EXCEPT !.snoozed = n].shown = board[t].shown
        /\ [board[t] EXCEPT !.snoozed = n].queue = board[t].queue
    BY <2>1 DEF BoardRow
  <2>4. /\ board' \in [Ticket -> BoardRow]
        /\ \A u \in Ticket : board'[u].shown = board[u].shown /\ board'[u].queue = board[u].queue
    BY <1>3, <2>1, <2>2, <2>3
  <2> QED BY <1>2, <1>3, <1>7, <2>4
<1> HIDE DEF P
<1>8. P
  BY <1>4, <1>5, <1>6, <1>7 DEF Views!BoardChanges
<1> QED BY <1>1, <1>8 DEF P

LEMMA BuildTypes == ASSUME ViewsTypeOK, Views!BuildDay PROVE ViewsTypeOK'
<1> DEFINE row == [q \in Queue |-> Views!Record(next, q)]
<1>1. /\ part = "rollup" /\ next <= day
      /\ daily' = [daily EXCEPT ![next] = row]
      /\ built' = [built EXCEPT ![next] = day] /\ next' = next + 1
      /\ UNCHANGED <<day, part, board, signals, kept, history>>
  BY DEF Views!BuildDay
<1>2. next \in Views!Day /\ day \in 0..Views!Never /\ next' \in Nat
  BY <1>1, Bounds DEF ViewsTypeOK
<1>3. row \in [Queue -> TrendRow]
  BY <1>2, RecordType
<1> HIDE DEF row
<1>4. /\ daily' \in [Views!Day -> [Queue -> TrendRow]]
      /\ built' \in [Views!Day -> 0..Views!Never]
  BY <1>1, <1>2, <1>3 DEF ViewsTypeOK
<1> QED BY <1>1, <1>2, <1>4 DEF ViewsTypeOK

\* The stages of the night.
LEMMA NightTypes ==
  ASSUME ViewsTypeOK,
         Views!RollupDone \/ Views!RollupFails \/ Views!Prune \/ Views!PruneFails
  PROVE  /\ ViewsTypeOK'
         /\ UNCHANGED <<day, board, signals, daily, next, built, history>>
         /\ part \in {"rollup", "prune"} /\ part' \in {"prune", "late"}
         /\ kept' = kept \/ kept' = Views!KeptFrom(day)
<1>1. /\ UNCHANGED <<day, board, signals, daily, next, built, history>>
      /\ part \in {"rollup", "prune"} /\ part' \in {"prune", "late"}
      /\ kept' = kept \/ kept' = Views!KeptFrom(day)
  BY DEF Views!RollupDone, Views!RollupFails, Views!Prune, Views!PruneFails
<1>2. kept' \in Nat
  BY <1>1, Bounds DEF ViewsTypeOK, Views!KeptFrom
<1> QED BY <1>1, <1>2 DEF ViewsTypeOK

-----------------------------------------------------------------------------
(* What is still held, and what was there.                                   *)

LEMMA FullDays ==
  ASSUME ViewsTypeOK, NEW t \in Ticket, NEW d \in Views!Day, kept = 0 \/ kept <= d
  PROVE  /\ Views!Held(t, d) <=> Views!Had(t, d)
         /\ Views!Had(t, d) => /\ Views!LastSignal(t, d) \in Profile
                               /\ Views!LastThat(t, d) = {Views!LastSignal(t, d)}
<1>1. d + 1 > kept
  BY Bounds DEF ViewsTypeOK
<1>2. Views!Rows(t, d) = {s \in Views!Shift : signals[t][d][s] # {}}
  BY <1>1 DEF Views!Rows
<1>3. Views!Held(t, d) <=> Views!Had(t, d)
  BY <1>2 DEF Views!Held, Views!Had
<1>4. ASSUME Views!Had(t, d)
      PROVE  /\ Views!LastSignal(t, d) \in Profile
             /\ Views!LastThat(t, d) = {Views!LastSignal(t, d)}
  <2>1. /\ Views!LastSignal(t, d) \in Profile
        /\ signals[t][d][IF "late" \in Views!Rows(t, d) THEN "late" ELSE "early"]
             = {Views!LastSignal(t, d)}
    BY <1>3, <1>4, LastSignalType
  <2>2. "late" \in Views!Rows(t, d) <=> signals[t][d]["late"] # {}
    BY <1>2 DEF Views!Shift
  <2> QED BY <2>1, <2>2 DEF Views!LastThat
<1> QED BY <1>3, <1>4

LEMMA KeptOf ==
  ASSUME ViewsTypeOK, KeptHolds
  PROVE  /\ kept = 0 \/ kept <= day
         /\ part = "rollup" /\ kept # 0 => kept + 1 <= next /\ kept + RetainDays <= day /\ next + WindowDays > day
<1>1. kept \in Nat /\ day \in Nat /\ next \in Nat
  BY Bounds DEF ViewsTypeOK
<1> QED BY <1>1, Bounds DEF KeptHolds

\* Two moments say the same of what was.
LEMMA SameTruth ==
  ASSUME NEW d \in Views!Day, NEW q \in Queue,
         \A t \in Ticket :
             /\ board'[t].queue = board[t].queue
             /\ Views!Had(t, d)' <=> Views!Had(t, d)
             /\ Views!LastThat(t, d)' = Views!LastThat(t, d)
             /\ Views!Before(t, d)' <=> Views!Before(t, d),
         \A t \in Ticket :
             board[t].queue = q =>
                 ((d > 0 /\ Views!Had(t, d - 1) /\ ~Views!After(t, d))'
                      <=> (d > 0 /\ Views!Had(t, d - 1) /\ ~Views!After(t, d)))
  PROVE  Views!Truth(d, q)' = Views!Truth(d, q)
<1> DEFINE there(t) == board[t].queue = q /\ Views!Had(t, d)
           gone(t) == board[t].queue = q /\ d > 0 /\ Views!Had(t, d - 1) /\ ~Views!After(t, d)
           worse(c) == {t \in Ticket : there(t) /\ \E p \in Views!LastThat(t, d) : p[c]}
           count == [tickets  |-> Views!Cardinality({t \in Ticket : there(t)}),
                     team     |-> Views!Cardinality(worse("team")),
                     breached |-> Views!Cardinality(worse("breached")),
                     over30   |-> Views!Cardinality(worse("over30")),
                     newly    |-> Views!Cardinality({t \in Ticket : there(t) /\ ~Views!Before(t, d)}),
                     retired  |-> Views!Cardinality({t \in Ticket : gone(t)})]
<1>1. {t \in Ticket : there(t)}' = {t \in Ticket : there(t)}
  OBVIOUS
<1>2. /\ worse("team")' = worse("team") /\ worse("breached")' = worse("breached")
      /\ worse("over30")' = worse("over30")
  OBVIOUS
<1>3. {t \in Ticket : there(t) /\ ~Views!Before(t, d)}' = {t \in Ticket : there(t) /\ ~Views!Before(t, d)}
  OBVIOUS
<1>4. {t \in Ticket : gone(t)}' = {t \in Ticket : gone(t)}
  OBVIOUS
<1>5. Views!Truth(d, q) = count
  BY DEF Views!Truth
<1>6. Views!Truth(d, q)' = count'
  BY DEF Views!Truth
<1>7. count' = count
  BY <1>1, <1>2, <1>3, <1>4 DEF Views!Cardinality
<1> QED BY <1>5, <1>6, <1>7

-----------------------------------------------------------------------------
(* The invariant of the trends: it holds at first.                           *)

LEMMA ViewsStart == ASSUME Views!Init PROVE ViewsInv
<1>1. ViewsTypeOK
  BY ViewsStartTypes
<1>2. /\ day = 0 /\ part = "early" /\ kept = 0 /\ built = [d \in Views!Day |-> Views!Never]
      /\ history.still = FALSE
  BY DEF Views!Init
<1>3. \A t \in Ticket, d \in Views!Day : ~Views!Had(t, d)
  BY DEF Views!Init, Views!Silence, Views!Had
<1>4. \A d \in Views!Day : built[d] = Views!Never /\ built[d] # day
  BY <1>2, Bounds
<1>5. \A d \in Views!Day, q \in Queue : daily[d][q] = Views!NoRow
  BY DEF Views!Init
<1>6. day \in Views!Day
  BY <1>2, Bounds
<1>7. KeptHolds
  BY <1>2 DEF KeptHolds
<1>8. BuiltHolds
  <2>1. part # "rollup" /\ built[day] # day
    BY <1>2, <1>4, <1>6
  <2> QED BY <2>1, <1>4, <1>5 DEF BuiltHolds
<1>9. NothingAhead /\ GoneHolds
  BY <1>3 DEF NothingAhead, GoneHolds
<1>10. RightHolds
  BY <1>4 DEF RightHolds
<1>11. StillHolds
  BY <1>2 DEF StillHolds
<1> QED BY <1>1, <1>7, <1>8, <1>9, <1>10, <1>11 DEF ViewsInv

-----------------------------------------------------------------------------
(* A pass, or one that is missed.                                            *)

\* The day goes on.
LEMMA OnwardKeeps ==
  ASSUME ViewsTypeOK, ViewsTypeOK', KeptHolds, BuiltHolds,
         Views!Onward, part \in Views!Shift, UNCHANGED <<kept, built, daily>>
  PROVE  KeptHolds' /\ BuiltHolds'
<1>1. day \in Nat /\ day' \in Nat /\ kept \in Nat /\ next' \in Nat /\ day \in Views!Day /\ day' \in Views!Day
  BY Bounds DEF ViewsTypeOK
<1>2. CASE part = "early"
  <2>1. part' = "rollup" /\ day' = day /\ next' = Views!FirstOfWindow(day)
    BY <1>2 DEF Views!Onward
  <2>2. next' <= day + 1 /\ next' + WindowDays > day
        /\ \A d \in Nat : d + WindowDays > day => ~(d < next')
    BY <1>1, <2>1, Bounds DEF Views!FirstOfWindow
  <2>3. KeptHolds'
    BY <1>1, <1>2, <2>1, <2>2 DEF KeptHolds
  <2>4. built[day] # day
    BY <1>2 DEF BuiltHolds
  <2>5. \A d \in Views!Day : d \in Nat
    BY Bounds
  <2>6. BuiltHolds'
    BY <1>1, <2>1, <2>2, <2>4, <2>5 DEF BuiltHolds, Views!Never, Views!Day, Views!NoRow
  <2> QED BY <2>3, <2>6
<1>3. CASE part = "late"
  <2>1. part' = "early" /\ day' = day + 1 /\ next' = next
    BY <1>3 DEF Views!Onward
  <2>2. KeptHolds'
    BY <1>1, <1>3, <2>1, Bounds DEF KeptHolds
  <2>3. built[day + 1] # day + 1
    <3>1. built[day + 1] = Views!Never \/ built[day + 1] <= day
      BY <1>1, <2>1 DEF BuiltHolds
    <3>2. day + 1 < Views!Never
      BY <1>1, <2>1, Bounds
    <3> QED BY <1>1, <3>1, <3>2, Bounds
  <2>4. \A d \in Views!Day : built[d] \in Nat /\ (built[d] # Views!Never => d <= built[d] /\ built[d] <= day + 1)
    BY <1>1, Bounds DEF BuiltHolds, ViewsTypeOK
  <2>5. \A d \in Views!Day : built[d] = Views!Never => \A q \in Queue : daily[d][q] = Views!NoRow
    BY DEF BuiltHolds
  <2>6. BuiltHolds'
    BY <1>1, <2>1, <2>3, <2>4, <2>5 DEF BuiltHolds, Views!Never, Views!Day, Views!NoRow
  <2> QED BY <2>2, <2>6
<1> QED BY <1>2, <1>3 DEF Views!Shift

\* What was is what the passes left behind, and the queues of today.
LEMMA TruthStays ==
  ASSUME NEW d \in Views!Day, NEW q \in Queue, signals' = signals,
         \A t \in Ticket : board'[t].queue = board[t].queue
  PROVE  /\ Views!Truth(d, q)' = Views!Truth(d, q)
         /\ \A t \in Ticket : Views!Had(t, d)' <=> Views!Had(t, d)
         /\ \A t \in Ticket : Views!Remembered(t, d)' <=> Views!Remembered(t, d)
<1>1. \A t \in Ticket :
        /\ Views!Had(t, d)' <=> Views!Had(t, d)
        /\ Views!LastThat(t, d)' = Views!LastThat(t, d)
        /\ Views!Before(t, d)' <=> Views!Before(t, d)
  BY DEF Views!Had, Views!LastThat, Views!Before, Views!Day, Views!Shift
<1>2. \A t \in Ticket :
        (d > 0 /\ Views!Had(t, d - 1) /\ ~Views!After(t, d))'
           <=> (d > 0 /\ Views!Had(t, d - 1) /\ ~Views!After(t, d))
  BY DEF Views!Had, Views!After, Views!Day, Views!Shift
<1>3. Views!Truth(d, q)' = Views!Truth(d, q)
  BY <1>1, <1>2, SameTruth
<1>4. \A t \in Ticket : Views!Remembered(t, d)' <=> Views!Remembered(t, d)
  BY DEF Views!Remembered, Views!Before, Views!Had, Views!Day, Views!Shift
<1> QED BY <1>1, <1>3, <1>4

LEMMA RightStays ==
  ASSUME RightHolds, UNCHANGED <<signals, built, daily>>,
         history.moved => history'.moved, history.returned => history'.returned,
         ~history'.moved => \A t \in Ticket : board'[t].queue = board[t].queue
  PROVE  RightHolds'
<1> SUFFICES ASSUME NEW d \in Views!Day, NEW q \in Queue,
                    (/\ built[d] # Views!Never /\ d < built[d]
                     /\ ~history.moved /\ ~history.returned /\ Views!Truth(d, q).tickets > 0
                     /\ \A t \in Ticket :
                           board[t].queue = q /\ Views!Had(t, d) => Views!Remembered(t, d))'
             PROVE  daily'[d][q] = Views!Truth(d, q)'
  BY DEF RightHolds, Views!Day
<1>1. \A t \in Ticket : board'[t].queue = board[t].queue
  OBVIOUS
<1>2. /\ Views!Truth(d, q)' = Views!Truth(d, q)
      /\ \A t \in Ticket : Views!Had(t, d)' <=> Views!Had(t, d)
      /\ \A t \in Ticket : Views!Remembered(t, d)' <=> Views!Remembered(t, d)
  BY <1>1, TruthStays
<1>3. built[d] # Views!Never /\ d < built[d] /\ ~history.moved /\ ~history.returned
  BY DEF Views!Never
<1>4. Views!Truth(d, q).tickets > 0
  BY <1>2
<1>5. \A t \in Ticket : board[t].queue = q /\ Views!Had(t, d) => Views!Remembered(t, d)
  BY <1>1, <1>2
<1>6. daily[d][q] = Views!Truth(d, q)
  BY <1>3, <1>4, <1>5 DEF RightHolds
<1> QED BY <1>2, <1>6

LEMMA MissedInv == ASSUME ViewsInv, Views!PassMissed PROVE ViewsInv'
<1>1. /\ part \in Views!Shift /\ Views!Onward /\ UNCHANGED <<board, signals, kept, daily, built>>
      /\ history' = [history EXCEPT !.still = FALSE]
  BY DEF Views!PassMissed
<1>2. ViewsTypeOK'
  BY MissedTypes DEF ViewsInv
<1>3. KeptHolds' /\ BuiltHolds'
  BY <1>1, <1>2, OnwardKeeps DEF ViewsInv
<1>4. day' >= day /\ (part' = "early" => day' > day) /\ day \in Nat /\ day' \in Nat
  BY <1>1, <1>2, Bounds DEF ViewsInv, ViewsTypeOK, Views!Onward, Views!Shift
<1>5. /\ history'.moved = history.moved /\ history'.returned = history.returned
      /\ history'.still = FALSE
  BY <1>1 DEF ViewsInv, ViewsTypeOK
<1>6. NothingAhead'
  <2>1. \A d \in Views!Day : d \in Nat
    BY Bounds
  <2> QED BY <1>1, <1>4, <2>1 DEF ViewsInv, NothingAhead, Views!Had, Views!Day, Views!Shift
<1>7. GoneHolds'
  BY <1>1, <1>5 DEF ViewsInv, GoneHolds, Views!Had, Views!After, Views!Day, Views!Shift
<1>8. RightHolds'
  BY <1>1, <1>5, RightStays DEF ViewsInv
<1>9. StillHolds'
  BY <1>5 DEF StillHolds
<1> QED BY <1>2, <1>3, <1>6, <1>7, <1>8, <1>9 DEF ViewsInv

-----------------------------------------------------------------------------
(* The board changes, and the stages of the night.                           *)

\* The rows of today are of today's signals, whatever is pruned.
LEMMA StillStays ==
  ASSUME ViewsTypeOK, ViewsTypeOK', KeptHolds, KeptHolds', StillHolds,
         UNCHANGED <<day, signals, built, daily>>, history'.still => history.still,
         history'.still => \A t \in Ticket : board'[t].shown = board[t].shown
                                             /\ board'[t].queue = board[t].queue,
         part' # "early"
  PROVE  StillHolds'
<1> SUFFICES ASSUME history'.still PROVE StillHolds'
  BY DEF StillHolds
<1>1. day \in Views!Day
  BY DEF ViewsTypeOK, Views!Day
<1>2. /\ \A t \in Ticket : board[t].shown <=> Views!Had(t, day)
      /\ built[day] = day =>
            \A q \in Queue :
               /\ daily[day][q].tickets = Views!Cardinality(Views!Items(day, q))
               /\ daily[day][q].breached
                     = Views!Cardinality({t \in Views!Items(day, q) : Views!LastSignal(t, day).breached})
               /\ daily[day][q].over30
                     = Views!Cardinality({t \in Views!Items(day, q) : Views!LastSignal(t, day).over30})
  BY ViewsCount DEF StillHolds
<1>3. \A t \in Ticket : Views!Had(t, day)' <=> Views!Had(t, day)
  BY DEF Views!Had, Views!Shift
<1>4. (kept = 0 \/ kept <= day) /\ (kept = 0 \/ kept <= day)'
  <2>1. kept = 0 \/ kept <= day
    BY KeptOf
  <2>2. kept' \in Nat /\ day' \in Nat
    BY Bounds DEF ViewsTypeOK
  <2>3. kept' = 0 \/ kept' <= day'
    BY <2>2, Bounds DEF KeptHolds
  <2> QED BY <2>1, <2>3
<1>5. \A t \in Ticket : Views!Rows(t, day)' = Views!Rows(t, day)
  <2>1. kept \in Nat /\ kept' \in Nat /\ day \in Nat /\ day' = day
    BY Bounds DEF ViewsTypeOK
  <2>2. \A t \in Ticket : Views!Rows(t, day) = {s \in Views!Shift : signals[t][day][s] # {}}
    BY <1>4, <2>1 DEF Views!Rows
  <2>3. \A t \in Ticket : Views!Rows(t, day)' = {s \in Views!Shift : signals[t][day][s] # {}}
    BY <1>4, <2>1 DEF Views!Rows, Views!Shift
  <2> QED BY <2>2, <2>3
<1>6. \A t \in Ticket : /\ Views!Held(t, day)' <=> Views!Held(t, day)
                        /\ Views!LastSignal(t, day)' = Views!LastSignal(t, day)
  BY <1>5 DEF Views!Held, Views!LastSignal
<1>7. \A q \in Queue : Views!Items(day, q)' = Views!Items(day, q)
  BY <1>6 DEF Views!Items
<1>8. \A q \in Queue :
        /\ {t \in Views!Items(day, q) : Views!LastSignal(t, day).breached}'
             = {t \in Views!Items(day, q) : Views!LastSignal(t, day).breached}
        /\ {t \in Views!Items(day, q) : Views!LastSignal(t, day).over30}'
             = {t \in Views!Items(day, q) : Views!LastSignal(t, day).over30}
  <2>1. \A q \in Queue : Views!Items(day, q) \subseteq Ticket
    BY DEF Views!Items
  <2> QED BY <1>6, <1>7, <2>1
<1>9. /\ \A t \in Ticket : board'[t].shown <=> Views!Had(t, day)'
      /\ part' # "early"
  BY <1>2, <1>3
<1>10. ASSUME (built[day] = day)', NEW q \in Queue
       PROVE  (/\ daily[day][q].tickets = Cardinality(Views!Items(day, q))
               /\ daily[day][q].breached
                     = Cardinality({t \in Views!Items(day, q) : Views!LastSignal(t, day).breached})
               /\ daily[day][q].over30
                     = Cardinality({t \in Views!Items(day, q) : Views!LastSignal(t, day).over30}))'
  <2> DEFINE i == Views!Items(day, q)
             b == {t \in Views!Items(day, q) : Views!LastSignal(t, day).breached}
             o == {t \in Views!Items(day, q) : Views!LastSignal(t, day).over30}
  <2>1. /\ daily[day][q].tickets = Cardinality(i) /\ daily[day][q].breached = Cardinality(b)
        /\ daily[day][q].over30 = Cardinality(o)
    BY <1>2, <1>10, ViewsCount
  <2>2. daily'[day'][q] = daily[day][q]
    OBVIOUS
  <2>3. i' = i /\ b' = b /\ o' = o
    BY <1>7, <1>8
  <2> HIDE DEF i, b, o
  <2>4. daily'[day'][q].tickets = Cardinality(i') /\ daily'[day'][q].breached = Cardinality(b')
        /\ daily'[day'][q].over30 = Cardinality(o')
    BY <2>1, <2>2, <2>3
  <2> QED BY <2>4 DEF i, b, o
<1> QED BY <1>9, <1>10 DEF StillHolds

LEMMA ChangesInv == ASSUME ViewsInv, Views!BoardChanges PROVE ViewsInv'
<1>1. /\ UNCHANGED <<day, part, signals, kept, daily, next, built>>
      /\ ViewsTypeOK'
      /\ history.moved => history'.moved
      /\ history.returned => history'.returned
      /\ history'.still => history.still
      /\ ~history'.moved => \A t \in Ticket : board'[t].queue = board[t].queue
      /\ history'.still => \A t \in Ticket : board'[t].shown = board[t].shown
      /\ ~history'.returned =>
            \A t \in Ticket : board'[t].shown /\ ~board[t].shown => ~Views!Appears(t)
  BY ChangesOf DEF ViewsInv
<1>2. KeptHolds' /\ NothingAhead' /\ BuiltHolds'
  BY <1>1 DEF ViewsInv, KeptHolds, NothingAhead, BuiltHolds, Views!Had, Views!Day, Views!Shift,
              Views!Never, Views!NoRow
<1>3. GoneHolds'
  <2>1. \A t \in Ticket, d \in Views!Day : Views!Had(t, d) => Views!Appears(t)
    BY DEF Views!Had, Views!Appears
  <2>2. \A t \in Ticket : \A d : /\ Views!Had(t, d)' <=> Views!Had(t, d)
                                 /\ Views!After(t, d)' <=> Views!After(t, d)
    BY <1>1 DEF Views!Had, Views!After, Views!Day, Views!Shift
  <2> QED BY <1>1, <2>1, <2>2 DEF ViewsInv, GoneHolds, Views!Day
<1>4. RightHolds'
  BY <1>1, RightStays DEF ViewsInv
<1>5. history'.still => \A t \in Ticket : board'[t].queue = board[t].queue
  <2>1. ASSUME NEW t \in Ticket, NEW q \in Queue, board' = [board EXCEPT ![t].queue = q],
               history' = [history EXCEPT !.moved = TRUE, !.still = FALSE]
        PROVE  ~history'.still
    BY <2>1 DEF ViewsInv, ViewsTypeOK
  <2>2. ASSUME NEW t \in Ticket,
               history' = [history EXCEPT !.returned = @ \/ (~board[t].shown /\ Views!Appears(t)),
                                          !.still = FALSE]
        PROVE  ~history'.still
    <3> DEFINE c == history.returned \/ (~board[t].shown /\ Views!Appears(t))
    <3>1. history' = [history EXCEPT !.returned = c, !.still = FALSE]
      BY <2>2
    <3> HIDE DEF c
    <3> QED BY <3>1 DEF ViewsInv, ViewsTypeOK
  <2>3. ASSUME NEW t \in Ticket, NEW p \in Profile, board' = [board EXCEPT ![t].profile = p]
        PROVE  \A u \in Ticket : board'[u].queue = board[u].queue
    <3>1. board' = [board EXCEPT ![t] = [board[t] EXCEPT !.profile = p]] /\ board[t] \in BoardRow
      BY <2>3 DEF ViewsInv, ViewsTypeOK
    <3>2. [board[t] EXCEPT !.profile = p].queue = board[t].queue
      BY <3>1 DEF BoardRow
    <3> QED BY <3>1, <3>2 DEF ViewsInv, ViewsTypeOK
  <2>4. ASSUME NEW t \in Ticket, board' = [board EXCEPT ![t].snoozed = ~@]
        PROVE  \A u \in Ticket : board'[u].queue = board[u].queue
    <3> DEFINE n == ~board[t].snoozed
    <3>1. board' = [board EXCEPT ![t] = [board[t] EXCEPT !.snoozed = n]] /\ board[t] \in BoardRow
      BY <2>4 DEF ViewsInv, ViewsTypeOK
    <3> HIDE DEF n
    <3>2. [board[t] EXCEPT !.snoozed = n].queue = board[t].queue
      BY <3>1 DEF BoardRow
    <3> QED BY <3>1, <3>2 DEF ViewsInv, ViewsTypeOK
  <2> QED BY <2>1, <2>2, <2>3, <2>4 DEF Views!BoardChanges
<1>6. StillHolds'
  <2>1. CASE part' = "early"
    <3>1. ~history.still
      BY <1>1, <2>1 DEF ViewsInv, StillHolds
    <3> QED BY <1>1, <3>1 DEF StillHolds
  <2>2. CASE part' # "early"
    BY <1>1, <1>2, <1>5, <2>2, StillStays DEF ViewsInv
  <2> QED BY <2>1, <2>2
<1> QED BY <1>1, <1>2, <1>3, <1>4, <1>6 DEF ViewsInv

LEMMA NightInv ==
  ASSUME ViewsInv, Views!RollupDone \/ Views!RollupFails \/ Views!Prune \/ Views!PruneFails
  PROVE  ViewsInv'
<1>1. /\ ViewsTypeOK'
      /\ UNCHANGED <<day, board, signals, daily, next, built, history>>
      /\ part \in {"rollup", "prune"} /\ part' \in {"prune", "late"}
      /\ kept' = kept \/ kept' = Views!KeptFrom(day)
  BY NightTypes DEF ViewsInv
<1>2. KeptHolds'
  <2>1. day \in Nat /\ kept \in Nat
    BY Bounds DEF ViewsInv, ViewsTypeOK
  <2> QED BY <1>1, <2>1, Bounds DEF ViewsInv, KeptHolds, Views!KeptFrom
<1>3. NothingAhead' /\ BuiltHolds'
  BY <1>1 DEF ViewsInv, NothingAhead, BuiltHolds, Views!Had, Views!Day, Views!Shift, Views!Never,
              Views!NoRow
<1>4. GoneHolds'
  BY <1>1 DEF ViewsInv, GoneHolds, Views!Had, Views!After, Views!Day, Views!Shift
<1>5. RightHolds'
  BY <1>1, RightStays DEF ViewsInv
<1>6. StillHolds'
  BY <1>1, <1>2, StillStays DEF ViewsInv
<1> QED BY <1>1, <1>2, <1>3, <1>4, <1>5, <1>6 DEF ViewsInv

-----------------------------------------------------------------------------
(* A pass.                                                                   *)

\* It adds today's signals of what is shown, and leaves the days before as they were.
LEMMA PassAdds ==
  ASSUME ViewsTypeOK, part \in Views!Shift, Views!Signalled(part), NEW t \in Ticket, NEW d \in Views!Day
  PROVE  /\ Views!Had(t, d)' <=> Views!Had(t, d) \/ (d = day /\ board[t].shown)
         /\ d # day => Views!LastThat(t, d)' = Views!LastThat(t, d)
<1>1. \A s \in Views!Shift :
        /\ board[t].shown /\ d = day /\ s = part => signals'[t][d][s] = {board[t].profile}
        /\ ~(board[t].shown /\ d = day /\ s = part) => signals'[t][d][s] = signals[t][d][s]
  BY PassSignals
<1>2. Views!Had(t, d)' <=> \E s \in Views!Shift : signals'[t][d][s] # {}
  BY DEF Views!Had, Views!Shift
<1>3. Views!Had(t, d) <=> \E s \in Views!Shift : signals[t][d][s] # {}
  BY DEF Views!Had
<1>4. ASSUME d # day
      PROVE  Views!LastThat(t, d)' = Views!LastThat(t, d)
  BY <1>1, <1>4 DEF Views!LastThat, Views!Shift
<1>5. Views!Had(t, d)' <=> Views!Had(t, d) \/ (d = day /\ board[t].shown)
  <2>1. CASE d = day /\ board[t].shown
    BY <1>1, <1>2, <2>1
  <2>2. CASE ~(d = day /\ board[t].shown)
    BY <1>1, <1>2, <1>3, <2>2
  <2> QED BY <2>1, <2>2
<1> QED BY <1>4, <1>5

LEMMA PassGone ==
  ASSUME ViewsTypeOK, NothingAhead, GoneHolds, part \in Views!Shift, Views!Signalled(part),
         UNCHANGED board, history.returned => history'.returned
  PROVE  GoneHolds'
<1> SUFFICES ASSUME ~history'.returned, NEW t \in Ticket, NEW u \in Ticket,
                    NEW d \in Views!Day, NEW e \in Views!Day,
                    (Views!Had(t, e) /\ e < d /\ Views!Had(u, d) /\ ~Views!Had(t, d))'
             PROVE  (~board[t].shown /\ ~Views!After(t, d))'
  BY DEF GoneHolds, Views!Day
<1>1. \A x \in Views!Day : x \in Nat
  BY Bounds
<1>2. day \in Views!Day
  BY DEF ViewsTypeOK, Views!Day
<1>3. d <= day
  BY <1>1, <1>2, PassAdds DEF NothingAhead
<1>4. Views!Had(t, e) /\ ~Views!Had(t, d) /\ ~(d = day /\ board[t].shown)
  BY <1>1, <1>2, <1>3, PassAdds
<1>5. ~board[t].shown
  <2>1. CASE d = day
    BY <1>4, <2>1
  <2>2. CASE d # day
    <3>1. Views!Had(u, d)
      BY <2>2, PassAdds
    <3> QED BY <1>4, <3>1 DEF GoneHolds
  <2> QED BY <2>1, <2>2
<1>6. \A x \in Views!Day : x >= d => ~Views!Had(t, x)
  <2>1. CASE d = day
    BY <1>1, <1>2, <1>4, <2>1 DEF NothingAhead
  <2>2. CASE d # day
    <3>1. Views!Had(u, d)
      BY <2>2, PassAdds
    <3>2. ~Views!After(t, d)
      BY <1>4, <3>1 DEF GoneHolds
    <3> QED BY <3>2 DEF Views!After
  <2> QED BY <2>1, <2>2
<1>7. \A x \in Views!Day : x >= d => ~Views!Had(t, x)'
  BY <1>5, <1>6, PassAdds
<1>8. ~Views!After(t, d)'
  BY <1>7 DEF Views!After, Views!Day
<1> QED BY <1>5, <1>8

LEMMA PassRight ==
  ASSUME ViewsTypeOK, NothingAhead, GoneHolds, BuiltHolds, RightHolds, part \in Views!Shift,
         Views!Signalled(part), UNCHANGED <<board, built, daily>>,
         history'.moved = history.moved, history'.returned = history.returned
  PROVE  RightHolds'
<1> SUFFICES ASSUME NEW d \in Views!Day, NEW q \in Queue,
                    (/\ built[d] # Views!Never /\ d < built[d]
                     /\ ~history.moved /\ ~history.returned /\ Views!Truth(d, q).tickets > 0
                     /\ \A t \in Ticket :
                           board[t].queue = q /\ Views!Had(t, d) => Views!Remembered(t, d))'
             PROVE  daily'[d][q] = Views!Truth(d, q)'
  BY DEF RightHolds, Views!Day
<1>1. \A x \in Views!Day : x \in Nat
  BY Bounds
<1>2. day \in Views!Day /\ built[d] \in Nat /\ built[d] # Views!Never /\ d < built[d]
  BY Bounds DEF ViewsTypeOK, Views!Never
<1>3. d < day
  BY <1>1, <1>2 DEF BuiltHolds
<1>4. \A t \in Ticket, x \in Views!Day : x < day => (Views!Had(t, x)' <=> Views!Had(t, x))
  BY <1>1, <1>2, PassAdds
<1>5. \A t \in Ticket : Views!Before(t, d)' <=> Views!Before(t, d)
  BY <1>1, <1>2, <1>3, <1>4 DEF Views!Before, Views!Day
<1>6. \A t \in Ticket : Views!Remembered(t, d)' <=> Views!Remembered(t, d)
  <2>1. \A t \in Ticket :
          (\E e \in Views!Day : e < d /\ Views!Had(t, e) /\ d + WindowDays <= e + RetainDays + 1)'
            <=> (\E e \in Views!Day : e < d /\ Views!Had(t, e) /\ d + WindowDays <= e + RetainDays + 1)
    BY <1>1, <1>2, <1>3, <1>4 DEF Views!Day
  <2> QED BY <1>5, <2>1 DEF Views!Remembered
<1>7. \A t \in Ticket : /\ Views!Had(t, d)' <=> Views!Had(t, d)
                        /\ Views!LastThat(t, d)' = Views!LastThat(t, d)
  BY <1>1, <1>2, <1>3, PassAdds
<1>8. PICK u \in Ticket : board[u].queue = q /\ Views!Had(u, d)
  <2> DEFINE here == {t \in Ticket : board[t].queue = q /\ Views!Had(t, d)}
  <2>1. Views!Truth(d, q)'.tickets = Views!Cardinality(here)'
    BY DEF Views!Truth
  <2>2. here' = here
    BY <1>7
  <2>3. Views!Cardinality(here)' = Cardinality(here)
    BY <2>2, ViewsCount DEF Views!Cardinality, Cardinality
  <2>4. here # {}
    <3>1. Views!Truth(d, q)'.tickets > 0
      OBVIOUS
    <3>2. Cardinality(here) > 0
      BY <2>1, <2>3, <3>1
    <3> HIDE DEF here
    <3> QED BY <3>2, FS_EmptySet
  <2> QED BY <2>4
<1>9. ASSUME NEW t \in Ticket, d > 0, Views!Had(t, d - 1)
      PROVE  Views!After(t, d)' <=> Views!After(t, d)
  <2>1. CASE Views!Had(t, d)
    BY <1>1, <1>7, <2>1 DEF Views!After, Views!Day
  <2>2. CASE ~Views!Had(t, d)
    <3>1. d - 1 \in Views!Day /\ d - 1 < d
      BY <1>9, Bounds
    <3>2. ~board[t].shown /\ ~Views!After(t, d)
      BY <1>8, <1>9, <2>2, <3>1 DEF GoneHolds
    <3>3. \A x \in Views!Day : Views!Had(t, x)' <=> Views!Had(t, x)
      BY <3>2, PassAdds
    <3> QED BY <3>3 DEF Views!After, Views!Day
  <2> QED BY <2>1, <2>2
<1>10. \A t \in Ticket :
         (d > 0 /\ Views!Had(t, d - 1) /\ ~Views!After(t, d))'
            <=> (d > 0 /\ Views!Had(t, d - 1) /\ ~Views!After(t, d))
  <2>1. d > 0 => d - 1 \in Views!Day /\ d - 1 < day
    BY <1>1, <1>2, <1>3, Bounds
  <2>2. \A t \in Ticket : d > 0 => (Views!Had(t, d - 1)' <=> Views!Had(t, d - 1))
    BY <1>4, <2>1
  <2> QED BY <1>9, <2>2
<1>11. Views!Truth(d, q)' = Views!Truth(d, q)
  BY <1>5, <1>7, <1>10, SameTruth
<1>12. \A t \in Ticket : board[t].queue = q /\ Views!Had(t, d) => Views!Remembered(t, d)
  BY <1>6, <1>7
<1>13. daily[d][q] = Views!Truth(d, q)
  BY <1>2, <1>11, <1>12 DEF RightHolds
<1> QED BY <1>11, <1>13

LEMMA PassInv == ASSUME ViewsInv, Views!PassOfTheDay PROVE ViewsInv'
<1>1. /\ part \in Views!Shift /\ Views!Signalled(part) /\ Views!Onward
      /\ history' = [history EXCEPT !.still = part = "early"]
      /\ UNCHANGED <<board, kept, daily, built>>
  BY DEF Views!PassOfTheDay
<1>2. ViewsTypeOK' /\ ViewsTypeOK /\ day \in Views!Day
  BY PassTypes DEF ViewsInv, ViewsTypeOK, Views!Day
<1>3. KeptHolds' /\ BuiltHolds'
  BY <1>1, <1>2, OnwardKeeps DEF ViewsInv
<1>4. /\ history'.moved = history.moved /\ history'.returned = history.returned
      /\ history'.still <=> part = "early"
  <2> DEFINE c == part = "early"
  <2>1. c \in BOOLEAN /\ history' = [history EXCEPT !.still = c]
    BY <1>1
  <2> HIDE DEF c
  <2>2. history'.moved = history.moved /\ history'.returned = history.returned /\ history'.still = c
    BY <1>2, <2>1 DEF ViewsTypeOK
  <2> QED BY <2>2 DEF c
<1>5. NothingAhead'
  <2>1. \A d \in Views!Day : d \in Nat
    BY Bounds
  <2>2. day' >= day /\ (part' = "early" => day' > day)
    BY <1>1, <1>2, <2>1 DEF Views!Onward, Views!Shift
  <2>3. \A t \in Ticket, d \in Views!Day : d > day => ~Views!Had(t, d)'
    BY <1>1, <1>2, <2>1, PassAdds DEF ViewsInv, NothingAhead
  <2>4. day' \in Nat
    BY <1>2, Bounds DEF ViewsTypeOK
  <2> QED BY <1>2, <2>1, <2>2, <2>3, <2>4 DEF NothingAhead, Views!Day
<1>6. GoneHolds'
  BY <1>1, <1>2, <1>4, PassGone DEF ViewsInv
<1>7. RightHolds'
  BY <1>1, <1>2, <1>4, PassRight DEF ViewsInv
<1>8. StillHolds'
  <2> SUFFICES ASSUME part = "early" PROVE StillHolds'
    BY <1>4 DEF StillHolds
  <2>1. part' = "rollup" /\ day' = day
    BY <1>1 DEF Views!Onward
  <2>2. built'[day'] # day'
    BY <1>1, <2>1 DEF ViewsInv, BuiltHolds
  <2>3. \A t \in Ticket : Views!Had(t, day)' <=> board[t].shown
    <3>1. \A t \in Ticket : ~Views!Had(t, day)
      BY <1>2 DEF ViewsInv, NothingAhead
    <3>2. \A t \in Ticket, d \in Views!Day :
            Views!Had(t, d)' <=> Views!Had(t, d) \/ (d = day /\ board[t].shown)
      BY <1>1, <1>2, PassAdds
    <3>3. \A t \in Ticket, d \in Views!Day : Views!Had(t, d)' <=> \E s \in Views!Shift : signals'[t][d][s] # {}
      BY DEF Views!Had, Views!Shift
    <3>4. \A t \in Ticket : Views!Had(t, day)' <=> \E s \in Views!Shift : signals'[t][day][s] # {}
      BY <2>1 DEF Views!Had, Views!Shift
    <3> QED BY <1>2, <3>1, <3>2, <3>3, <3>4
  <2> QED BY <1>1, <2>1, <2>2, <2>3 DEF StillHolds
<1> QED BY <1>2, <1>3, <1>5, <1>6, <1>7, <1>8 DEF ViewsInv

-----------------------------------------------------------------------------
(* The rollup of a day.                                                      *)

\* Of a day that is over, and of the signals from before it that are kept, build_day makes
\* what was.
LEMMA RecordIsTruth ==
  ASSUME ViewsTypeOK, KeptHolds, part = "rollup", next <= day, NEW q \in Queue,
         Views!Truth(next, q).tickets > 0,
         \A t \in Ticket : board[t].queue = q /\ Views!Had(t, next) => Views!Remembered(t, next)
  PROVE  Views!Record(next, q) = Views!Truth(next, q)
<1> DEFINE d == next
           items == Views!Items(d, q)
           there(t) == board[t].queue = q /\ Views!Had(t, d)
           gone(t) == board[t].queue = q /\ d > 0 /\ Views!Had(t, d - 1) /\ ~Views!After(t, d)
           of == {t \in Ticket : board[t].queue = q /\ Views!DaysOf(t) # {}}
<1>1. d \in Views!Day /\ d \in Nat /\ kept \in Nat /\ day \in Nat /\ \A x \in Views!Day : x \in Nat
  BY Bounds DEF ViewsTypeOK
<1>2. kept = 0 \/ (kept + 1 <= d /\ kept + RetainDays <= day /\ d + WindowDays > day)
  BY KeptOf
<1>3. \A t \in Ticket, e \in Views!Day : e + 1 >= d =>
        /\ Views!Held(t, e) <=> Views!Had(t, e)
        /\ Views!Had(t, e) => /\ Views!LastSignal(t, e) \in Profile
                              /\ Views!LastThat(t, e) = {Views!LastSignal(t, e)}
  BY <1>1, <1>2, FullDays
<1>4. \A t \in Ticket, e \in Views!Day : Views!Held(t, e) => Views!Had(t, e)
  BY DEF Views!Held, Views!Rows, Views!Had
<1> HIDE DEF d
<1>5. items = {t \in Ticket : there(t)}
  BY <1>1, <1>3 DEF Views!Items
<1>6. /\ {t \in items : Views!LastSignal(t, d).team}
            = {t \in Ticket : there(t) /\ \E p \in Views!LastThat(t, d) : p.team}
      /\ {t \in items : Views!LastSignal(t, d).breached}
            = {t \in Ticket : there(t) /\ \E p \in Views!LastThat(t, d) : p.breached}
      /\ {t \in items : Views!LastSignal(t, d).over30}
            = {t \in Ticket : there(t) /\ \E p \in Views!LastThat(t, d) : p.over30}
  <2>1. \A t \in Ticket : there(t) => Views!LastThat(t, d) = {Views!LastSignal(t, d)}
    BY <1>1, <1>3
  <2> HIDE DEF items
  <2> QED BY <1>5, <2>1
<1>7. \A t \in Ticket : Views!DaysOf(t) # {} =>
        /\ Views!FirstDay(t) \in Views!Day /\ Views!Held(t, Views!FirstDay(t))
        /\ \A e \in Views!Day : Views!Held(t, e) => Views!FirstDay(t) <= e
        /\ Views!FinalDay(t) \in Views!Day /\ Views!Held(t, Views!FinalDay(t))
        /\ \A e \in Views!Day : Views!Held(t, e) => Views!FinalDay(t) >= e
  BY HeldDays DEF Views!DaysOf
<1>8. \A t \in Ticket, e \in Views!Day : Views!Held(t, e) => Views!DaysOf(t) # {}
  BY DEF Views!DaysOf
<1>9. ASSUME NEW t \in Ticket, board[t].queue = q
      PROVE  (Views!DaysOf(t) # {} /\ Views!FirstDay(t) = d) <=> (Views!Had(t, d) /\ ~Views!Before(t, d))
  <2>1. ASSUME Views!Had(t, d), ~Views!Before(t, d)
        PROVE  Views!DaysOf(t) # {} /\ Views!FirstDay(t) = d
    <3>1. Views!Held(t, d)
      BY <1>1, <1>3, <2>1
    <3>2. Views!DaysOf(t) # {} /\ Views!FirstDay(t) <= d /\ Views!FirstDay(t) \in Views!Day
          /\ Views!Had(t, Views!FirstDay(t))
      BY <1>1, <1>4, <1>7, <1>8, <3>1
    <3>3. ~(Views!FirstDay(t) < d) /\ Views!FirstDay(t) \in Nat
      BY <1>1, <2>1, <3>2 DEF Views!Before
    <3>4. Views!FirstDay(t) = d
      BY <1>1, <3>2, <3>3
    <3> QED BY <3>2, <3>4
  <2>2. ASSUME Views!DaysOf(t) # {}, Views!FirstDay(t) = d
        PROVE  Views!Had(t, d) /\ ~Views!Before(t, d)
    <3>1. Views!Had(t, d)
      BY <1>1, <1>4, <1>7, <2>2
    <3>2. ASSUME Views!Before(t, d) PROVE FALSE
      <4>1. Views!Remembered(t, d)
        BY <1>9, <3>1 DEF d
      <4>2. PICK e \in Views!Day : e < d /\ Views!Had(t, e) /\ d + WindowDays <= e + RetainDays + 1
        BY <3>2, <4>1 DEF Views!Remembered
      <4>3. e \in Nat /\ (kept = 0 \/ kept <= e)
        BY <1>1, <1>2, <4>2, Bounds
      <4>4. Views!Held(t, e)
        BY <4>2, <4>3, FullDays
      <4>5. d <= e
        BY <1>7, <2>2, <4>4
      <4> QED BY <1>1, <4>2, <4>3, <4>5
    <3> QED BY <3>1, <3>2
  <2> QED BY <2>1, <2>2
<1>10. ASSUME NEW t \in Ticket
       PROVE  (Views!DaysOf(t) # {} /\ Views!FinalDay(t) + 1 = d)
                <=> (d > 0 /\ Views!Had(t, d - 1) /\ ~Views!After(t, d))
  <2>1. ASSUME d > 0, Views!Had(t, d - 1), ~Views!After(t, d)
        PROVE  Views!DaysOf(t) # {} /\ Views!FinalDay(t) + 1 = d
    <3>1. d - 1 \in Views!Day /\ d - 1 \in Nat
      BY <1>1, <2>1, Bounds
    <3>2. Views!Held(t, d - 1)
      BY <1>1, <1>3, <2>1, <3>1
    <3>3. Views!DaysOf(t) # {} /\ Views!FinalDay(t) >= d - 1 /\ Views!FinalDay(t) \in Views!Day
          /\ Views!Had(t, Views!FinalDay(t))
      BY <1>4, <1>7, <1>8, <3>1, <3>2
    <3>4. ~(Views!FinalDay(t) >= d)
      BY <2>1, <3>3 DEF Views!After
    <3>5. Views!FinalDay(t) \in Nat
      BY <1>1, <3>3
    <3>6. Views!FinalDay(t) + 1 = d
      BY <1>1, <3>1, <3>3, <3>4, <3>5
    <3> QED BY <3>3, <3>6
  <2>2. ASSUME Views!DaysOf(t) # {}, Views!FinalDay(t) + 1 = d
        PROVE  d > 0 /\ Views!Had(t, d - 1) /\ ~Views!After(t, d)
    <3>1. Views!FinalDay(t) \in Views!Day /\ Views!FinalDay(t) = d - 1 /\ d > 0
      <4>1. Views!FinalDay(t) \in Views!Day /\ Views!FinalDay(t) \in Nat
        BY <1>1, <1>7, <2>2
      <4>2. Views!FinalDay(t) = d - 1 /\ d > 0
        BY <1>1, <2>2, <4>1
      <4> QED BY <4>1, <4>2
    <3>2. Views!Had(t, d - 1)
      BY <1>4, <1>7, <2>2, <3>1
    <3>3. ASSUME NEW e \in Views!Day, e >= d, Views!Had(t, e) PROVE FALSE
      <4>1. Views!Held(t, e)
        BY <1>1, <1>3, <3>3
      <4>2. d - 1 >= e
        BY <1>7, <2>2, <3>1, <4>1
      <4> QED BY <1>1, <3>3, <4>2
    <3> QED BY <3>1, <3>2, <3>3 DEF Views!After
  <2> QED BY <2>1, <2>2
<1>11. {t \in of : Views!FirstDay(t) = d} = {t \in Ticket : there(t) /\ ~Views!Before(t, d)}
  BY <1>9
<1>12. {t \in of : Views!FinalDay(t) + 1 = d} = {t \in Ticket : gone(t)}
  BY <1>10
<1> HIDE DEF items, there, gone, of
<1>13. /\ Views!Aggregate(d, items).tickets = Views!Cardinality(items)
       /\ Views!Aggregate(d, items).team = Views!Cardinality({t \in items : Views!LastSignal(t, d).team})
       /\ Views!Aggregate(d, items).breached
            = Views!Cardinality({t \in items : Views!LastSignal(t, d).breached})
       /\ Views!Aggregate(d, items).over30
            = Views!Cardinality({t \in items : Views!LastSignal(t, d).over30})
  BY DEF Views!Aggregate
<1>14. /\ Views!Flow(d, q).newly = Views!Cardinality({t \in of : Views!FirstDay(t) = d})
       /\ Views!Flow(d, q).retired = Views!Cardinality({t \in of : Views!FinalDay(t) + 1 = d})
  BY DEF Views!Flow, of
<1>15. Views!Truth(d, q)
         = [tickets  |-> Views!Cardinality({t \in Ticket : there(t)}),
            team     |-> Views!Cardinality({t \in Ticket : there(t) /\ \E p \in Views!LastThat(t, d) : p.team}),
            breached |-> Views!Cardinality({t \in Ticket : there(t) /\ \E p \in Views!LastThat(t, d) : p.breached}),
            over30   |-> Views!Cardinality({t \in Ticket : there(t) /\ \E p \in Views!LastThat(t, d) : p.over30}),
            newly    |-> Views!Cardinality({t \in Ticket : there(t) /\ ~Views!Before(t, d)}),
            retired  |-> Views!Cardinality({t \in Ticket : gone(t)})]
  BY DEF Views!Truth, there, gone
<1>16. items # {}
  <2>1. Views!Truth(d, q).tickets > 0
    BY DEF d
  <2>2. Views!Truth(d, q).tickets = Views!Cardinality({t \in Ticket : there(t)})
    BY DEF Views!Truth, there
  <2>3. Cardinality(items) > 0
    BY <1>5, <2>1, <2>2, ViewsCount
  <2> QED BY <2>3, FS_EmptySet
<1>17. Views!Record(d, q)
         = [tickets  |-> Views!Aggregate(d, items).tickets,
            team     |-> Views!Aggregate(d, items).team,
            breached |-> Views!Aggregate(d, items).breached,
            over30   |-> Views!Aggregate(d, items).over30,
            newly    |-> Views!Flow(d, q).newly,
            retired  |-> Views!Flow(d, q).retired]
  BY <1>16, RecordIs DEF items
<1>18. Views!Record(d, q) = Views!Truth(d, q)
  BY <1>5, <1>6, <1>11, <1>12, <1>13, <1>14, <1>15, <1>17
<1> QED BY <1>18 DEF d

LEMMA BuildInv == ASSUME ViewsInv, Views!BuildDay PROVE ViewsInv'
<1>1. /\ part = "rollup" /\ next <= day
      /\ daily' = [daily EXCEPT ![next] = [q \in Queue |-> Views!Record(next, q)]]
      /\ built' = [built EXCEPT ![next] = day] /\ next' = next + 1
      /\ UNCHANGED <<day, part, board, signals, kept, history>>
  BY DEF Views!BuildDay
<1>2. ViewsTypeOK' /\ ViewsTypeOK
  BY BuildTypes DEF ViewsInv
<1>3. next \in Views!Day /\ day \in Views!Day /\ day \in Nat /\ next \in Nat /\ kept \in Nat
      /\ day # Views!Never /\ \A x \in Views!Day : x \in Nat
  BY <1>1, <1>2, Bounds DEF ViewsTypeOK
<1>4. /\ built'[next] = day
      /\ \A q \in Queue : daily'[next][q] = Views!Record(next, q)
      /\ \A d \in Views!Day \ {next} : daily'[d] = daily[d] /\ built'[d] = built[d]
  BY <1>1, <1>2, <1>3 DEF ViewsTypeOK
<1>5. KeptHolds'
  BY <1>1, <1>3, Bounds DEF ViewsInv, KeptHolds
<1>6. NothingAhead' /\ GoneHolds'
  BY <1>1 DEF ViewsInv, NothingAhead, GoneHolds, Views!Had, Views!After, Views!Day, Views!Shift
<1>7. BuiltHolds'
  <2>1. part = "rollup" /\ next + 1 <= day => built'[day] # day
    BY <1>1, <1>3, <1>4 DEF ViewsInv, BuiltHolds
  <2>2. ASSUME NEW d \in Views!Day
        PROVE  /\ built'[d] # Views!Never => d <= built'[d] /\ built'[d] <= day
               /\ built'[d] = Views!Never => \A q \in Queue : daily'[d][q] = Views!NoRow
    BY <1>1, <1>3, <1>4 DEF ViewsInv, BuiltHolds
  <2>3. ASSUME NEW d \in Views!Day, d <= day, d + WindowDays > day, d < next + 1 \/ built'[day] = day
        PROVE  built'[d] = day
    <3>0. built'[next] = day
      BY <1>4
    <3>1. CASE d = next
      BY <3>0, <3>1
    <3>2. CASE d < next
      BY <1>1, <1>3, <1>4, <2>3, <3>2 DEF ViewsInv, BuiltHolds
    <3>3. CASE d > next
      <4>1. next < day
        BY <1>3, <2>3, <3>3
      <4>2. built'[day] # day
        BY <1>1, <1>3, <2>1, <4>1
      <4> QED BY <1>3, <2>3, <3>3, <4>2
    <3> QED BY <1>3, <3>1, <3>2, <3>3
  <2> QED BY <1>1, <2>1, <2>2, <2>3 DEF BuiltHolds, Views!Day, Views!Never, Views!NoRow
<1>8. RightHolds'
  <2> SUFFICES ASSUME NEW d \in Views!Day, NEW q \in Queue,
                      (/\ built[d] # Views!Never /\ d < built[d]
                       /\ ~history.moved /\ ~history.returned /\ Views!Truth(d, q).tickets > 0
                       /\ \A t \in Ticket :
                             board[t].queue = q /\ Views!Had(t, d) => Views!Remembered(t, d))'
               PROVE  daily'[d][q] = Views!Truth(d, q)'
    BY DEF RightHolds, Views!Day
  <2>1. /\ Views!Truth(d, q)' = Views!Truth(d, q)
        /\ \A t \in Ticket : Views!Had(t, d)' <=> Views!Had(t, d)
        /\ \A t \in Ticket : Views!Remembered(t, d)' <=> Views!Remembered(t, d)
    BY <1>1, TruthStays
  <2>2. ~history.moved /\ ~history.returned /\ Views!Truth(d, q).tickets > 0
        /\ built'[d] # Views!Never /\ d < built'[d]
    BY <1>1, <2>1 DEF Views!Never
  <2>3. \A t \in Ticket : board[t].queue = q /\ Views!Had(t, d) => Views!Remembered(t, d)
    BY <1>1, <2>1
  <2>4. CASE d = next
    <3>1. Views!Record(next, q) = Views!Truth(next, q)
      BY <1>1, <1>2, <2>2, <2>3, <2>4, RecordIsTruth DEF ViewsInv
    <3> QED BY <1>4, <2>1, <2>4, <3>1
  <2>5. CASE d # next
    <3>1. daily[d][q] = Views!Truth(d, q)
      BY <1>4, <2>2, <2>3, <2>5 DEF ViewsInv, RightHolds
    <3> QED BY <1>4, <2>1, <2>5, <3>1
  <2> QED BY <2>4, <2>5
<1>9. StillHolds'
  <2> SUFFICES ASSUME history.still PROVE StillHolds'
    BY <1>1 DEF StillHolds
  <2>1. part' # "early" /\ \A t \in Ticket : board'[t].shown <=> Views!Had(t, day)'
    <3>1. \A t \in Ticket : board[t].shown <=> Views!Had(t, day)
      BY DEF ViewsInv, StillHolds
    <3>2. \A t \in Ticket : Views!Had(t, day)' <=> Views!Had(t, day)
      BY <1>1 DEF Views!Had, Views!Shift
    <3> QED BY <1>1, <3>1, <3>2
  <2>2. ASSUME (built[day] = day)', NEW q \in Queue
        PROVE  (/\ daily[day][q].tickets = Cardinality(Views!Items(day, q))
                /\ daily[day][q].breached
                      = Cardinality({t \in Views!Items(day, q) : Views!LastSignal(t, day).breached})
                /\ daily[day][q].over30
                      = Cardinality({t \in Views!Items(day, q) : Views!LastSignal(t, day).over30}))'
    <3> DEFINE i == Views!Items(day, q)
               b == {t \in i : Views!LastSignal(t, day).breached}
               o == {t \in i : Views!LastSignal(t, day).over30}
    <3>1. next = day
      <4>1. built[day] # day
        BY <1>1 DEF ViewsInv, BuiltHolds
      <4> QED BY <1>1, <1>3, <1>4, <2>2, <4>1
    <3>2. daily'[day'][q] = Views!Record(day, q)
      BY <1>1, <1>4, <3>1
    <3>3. i' = i /\ b' = b /\ o' = o
      <4>1. \A t \in Ticket : Views!Rows(t, day)' = Views!Rows(t, day)
        BY <1>1 DEF Views!Rows, Views!Shift
      <4>2. \A t \in Ticket : /\ Views!Held(t, day)' <=> Views!Held(t, day)
                              /\ Views!LastSignal(t, day)' = Views!LastSignal(t, day)
        BY <1>1, <4>1 DEF Views!Held, Views!LastSignal
      <4>3. i' = i
        BY <1>1, <4>2 DEF Views!Items
      <4>4. i \subseteq Ticket
        BY DEF Views!Items
      <4> QED BY <4>2, <4>3, <4>4
    <3>4. /\ Views!Record(day, q).tickets = Cardinality(i)
          /\ Views!Record(day, q).breached = Cardinality(b)
          /\ Views!Record(day, q).over30 = Cardinality(o)
      <4>1. CASE i = {}
        <5>1. Views!Record(day, q) = daily[day][q]
          BY <4>1 DEF Views!Record
        <5>2. built[day] = Views!Never
          <6>1. built[day] # day /\ (built[day] # Views!Never => day <= built[day] /\ built[day] <= day)
            BY <1>1, <1>3 DEF ViewsInv, BuiltHolds
          <6>2. built[day] \in Nat
            BY <1>2, <1>3, Bounds DEF ViewsTypeOK
          <6> QED BY <1>3, <6>1, <6>2
        <5>3. daily[day][q] = Views!NoRow
          BY <1>3, <5>2 DEF ViewsInv, BuiltHolds
        <5>4. b = {} /\ o = {}
          BY <4>1
        <5>5. Cardinality({}) = 0
          BY FS_EmptySet
        <5> QED BY <4>1, <5>1, <5>3, <5>4, <5>5 DEF Views!NoRow
      <4>2. CASE i # {}
        <5>1. /\ Views!Record(day, q).tickets = Views!Aggregate(day, i).tickets
              /\ Views!Record(day, q).breached = Views!Aggregate(day, i).breached
              /\ Views!Record(day, q).over30 = Views!Aggregate(day, i).over30
          BY <4>2, RecordIs
        <5> HIDE DEF i
        <5>2. /\ Views!Aggregate(day, i).tickets = Views!Cardinality(i)
              /\ Views!Aggregate(day, i).breached = Views!Cardinality(b)
              /\ Views!Aggregate(day, i).over30 = Views!Cardinality(o)
          BY DEF Views!Aggregate
        <5> QED BY <5>1, <5>2, ViewsCount
      <4> QED BY <4>1, <4>2
    <3> HIDE DEF i
    <3>5. /\ daily'[day'][q].tickets = Cardinality(i')
          /\ daily'[day'][q].breached = Cardinality(b')
          /\ daily'[day'][q].over30 = Cardinality(o')
      BY <3>2, <3>3, <3>4
    <3> QED BY <3>5 DEF i
  <2> QED BY <2>1, <2>2 DEF StillHolds
<1> QED BY <1>2, <1>5, <1>6, <1>7, <1>8, <1>9 DEF ViewsInv

LEMMA ViewsPreserved == ASSUME ViewsInv, [Views!Next]_viewsVars PROVE ViewsInv'
<1>1. CASE Views!Next
  BY <1>1, PassInv, MissedInv, ChangesInv, BuildInv, NightInv DEF Views!Next
<1>2. CASE UNCHANGED viewsVars
  <2>1. UNCHANGED <<day, part, board, signals, kept, daily, next, built, history, events>>
    BY <1>2 DEF viewsVars
  <2>2. ViewsTypeOK'
    BY <2>1 DEF ViewsInv, ViewsTypeOK, Views!Day, Views!Shift, Views!Never
  <2>3. KeptHolds' /\ NothingAhead' /\ BuiltHolds' /\ GoneHolds'
    BY <2>1 DEF ViewsInv, KeptHolds, NothingAhead, BuiltHolds, GoneHolds, Views!Had, Views!After,
                Views!Day, Views!Shift, Views!Never, Views!NoRow
  <2>4. RightHolds'
    BY <2>1, RightStays DEF ViewsInv
  <2>5. StillHolds'
    <3>1. CASE part' = "early"
      BY <2>1, <3>1 DEF ViewsInv, StillHolds
    <3>2. CASE part' # "early"
      BY <2>1, <2>2, <2>3, <3>2, StillStays DEF ViewsInv
    <3> QED BY <3>1, <3>2
  <2> QED BY <2>2, <2>3, <2>4, <2>5 DEF ViewsInv
<1> QED BY <1>1, <1>2

-----------------------------------------------------------------------------
(* What the trends promise follows.                                          *)

LEMMA TrendsSettle == ASSUME ViewsInv PROVE Views!TrendIsRight
<1> SUFFICES ASSUME NEW d \in Views!Day, NEW q \in Queue, Views!Settled(d),
                    ~history.moved, ~history.returned, Views!Truth(d, q).tickets > 0,
                    \A t \in Ticket : board[t].queue = q /\ Views!Had(t, d) => Views!Remembered(t, d)
             PROVE  daily[d][q] = Views!Truth(d, q)
  BY DEF Views!TrendIsRight
<1>1. built[d] # Views!Never /\ d < built[d]
  <2>1. CASE built[day] = day /\ d < day /\ d + WindowDays > day
    <3>1. d \in Nat /\ day \in Nat /\ day # Views!Never
      BY Bounds DEF ViewsInv, ViewsTypeOK
    <3>2. built[d] = day
      BY <2>1, <3>1 DEF ViewsInv, BuiltHolds
    <3> QED BY <2>1, <3>1, <3>2
  <2> QED BY <2>1 DEF Views!Settled
<1> QED BY <1>1 DEF ViewsInv, RightHolds

LEMMA NothingLooksNew == ASSUME ViewsInv PROVE Views!NewIsNew
<1> SUFFICES ASSUME NEW t \in Views!Movement(Views!OnTheBoard).new, NEW s \in Views!Day \X Views!Shift,
                    Views!DayAgo(s), s[1] + RetainDays > day, signals[t][s[1]][s[2]] # {}
             PROVE  FALSE
  BY DEF Views!NewIsNew
<1>1. Views!DayOld(t) = {}
  BY DEF Views!Movement
<1>2. s[1] \in Views!Day /\ s[2] \in Views!Shift /\ s[1] \in Nat
  BY Bounds
<1>3. kept \in Nat /\ day \in Nat
  BY Bounds DEF ViewsInv, ViewsTypeOK
<1>4. s[1] + 1 > kept
  BY <1>2, <1>3, Bounds DEF ViewsInv, KeptHolds
<1>5. s[2] \in Views!Rows(t, s[1])
  BY <1>2, <1>4 DEF Views!Rows
<1>6. s \in Views!DayOld(t)
  BY <1>5 DEF Views!DayOld
<1> QED BY <1>1, <1>6

\* What is on the board is what the pass of today found, each with today's signal.
LEMMA BoardOfToday ==
  ASSUME ViewsInv, history.still, NEW t \in Ticket
  PROVE  /\ t \in Views!OnTheBoard <=> Views!Held(t, day)
         /\ Views!Held(t, day) => Views!LatestSignal(t) = Views!LastSignal(t, day)
<1>1. ViewsTypeOK /\ day \in Views!Day /\ \A x \in Views!Day : x \in Nat
  BY Bounds DEF ViewsInv, ViewsTypeOK
<1>2. Views!Held(t, day) <=> Views!Had(t, day)
  BY <1>1, KeptOf, FullDays DEF ViewsInv
<1>3. board[t].shown <=> Views!Had(t, day)
  BY DEF ViewsInv, StillHolds
<1>4. Views!Held(t, day) => Views!DaysOf(t) # {}
  BY <1>1 DEF Views!DaysOf
<1>5. ASSUME Views!Held(t, day)
      PROVE  Views!LatestSignal(t) = Views!LastSignal(t, day)
  <2>1. /\ Views!FinalDay(t) \in Views!Day /\ Views!Held(t, Views!FinalDay(t))
        /\ Views!FinalDay(t) >= day
    BY <1>1, <1>4, <1>5, HeldDays DEF Views!DaysOf
  <2>2. Views!Had(t, Views!FinalDay(t))
    BY <2>1 DEF Views!Held, Views!Rows, Views!Had
  <2>3. ~(Views!FinalDay(t) > day)
    BY <2>1, <2>2 DEF ViewsInv, NothingAhead
  <2>4. Views!FinalDay(t) \in Nat /\ day \in Nat
    BY <1>1, <2>1
  <2>5. Views!FinalDay(t) = day
    BY <2>1, <2>3, <2>4
  <2> QED BY <2>5 DEF Views!LatestSignal
<1> QED BY <1>2, <1>3, <1>4, <1>5 DEF Views!OnTheBoard

LEMMA HeadlinesAgree == ASSUME ViewsInv PROVE Views!HeadlineAgrees
<1> SUFFICES ASSUME built[day] = day, history.still, NEW Q \in SUBSET Queue,
                    Views!InScope(Views!OnTheBoard, Q) # {}
             PROVE  LET rows == Views!InScope(Views!OnTheBoard, Q)
                        s    == Views!Summary(daily, Q)
                    IN  /\ s.now = Views!Cardinality(rows) /\ Views!Backlog(daily, Q).now = s.now
                        /\ s.breached = Views!Number(rows, LAMBDA p : p.breached)
                        /\ s.over30 = Views!Number(rows, LAMBDA p : p.over30)
  BY DEF Views!HeadlineAgrees
<1> DEFINE rows == Views!InScope(Views!OnTheBoard, Q)
           here == {t \in Ticket : Views!Held(t, day)}
           of == [t \in Ticket |-> board[t].queue]
           D == Views!DaysWithRows(daily, Q)
<1>1. ViewsTypeOK /\ day \in Views!Day /\ \A x \in Views!Day : x \in Nat
  BY Bounds DEF ViewsInv, ViewsTypeOK
<1>2. IsFiniteSet(Q) /\ \A S \in SUBSET Ticket : IsFiniteSet(S)
  BY ViewsAssumption, FS_Subset
<1>3. /\ rows = {t \in here : of[t] \in Q} /\ rows \in SUBSET Ticket /\ here \in SUBSET Ticket
      /\ \A t \in rows : Views!LatestSignal(t) = Views!LastSignal(t, day) /\ Views!Held(t, day)
  <2>1. rows = {t \in Views!OnTheBoard : board[t].queue \in Q}
    BY DEF Views!InScope, Views!Scope
  <2>2. \A t \in Ticket : /\ t \in Views!OnTheBoard <=> Views!Held(t, day)
                          /\ Views!Held(t, day) => Views!LatestSignal(t) = Views!LastSignal(t, day)
    BY BoardOfToday
  <2>3. Views!OnTheBoard \subseteq Ticket
    BY DEF Views!OnTheBoard
  <2> HIDE DEF rows
  <2> QED BY <2>1, <2>2, <2>3
<1>4. \A q \in Queue :
        /\ daily[day][q].tickets = Cardinality(Views!Items(day, q))
        /\ daily[day][q].breached
              = Cardinality({t \in Views!Items(day, q) : Views!LastSignal(t, day).breached})
        /\ daily[day][q].over30
              = Cardinality({t \in Views!Items(day, q) : Views!LastSignal(t, day).over30})
  BY DEF ViewsInv, StillHolds
<1>5. \A q \in Queue : /\ Views!Items(day, q) = {t \in here : of[t] = q}
                       /\ daily[day][q] \in TrendRow
  BY <1>1 DEF Views!Items, ViewsTypeOK
<1> HIDE DEF rows, here, of
<1>6. day \in D /\ \A d \in D : day >= d /\ d \in Nat
  <2>1. Views!Scope(Q, Queue) = Q
    BY DEF Views!Scope
  <2>2. PICK t \in here : of[t] \in Q
    BY <1>3 DEF rows
  <2>3. daily[day][of[t]].tickets # 0
    <3>1. t \in Views!Items(day, of[t]) /\ Views!Items(day, of[t]) \in SUBSET Ticket /\ of[t] \in Queue
      BY <1>3, <1>5, <2>2
    <3>2. Cardinality(Views!Items(day, of[t])) # 0
      BY <1>2, <3>1, FS_EmptySet
    <3> QED BY <1>4, <3>1, <3>2
  <2>4. daily[day][of[t]] # Views!NoRow
    BY <2>3 DEF Views!NoRow
  <2>5. Views!InRange(day) /\ \A d \in Views!Day : Views!InRange(d) => d <= day
    <3> DEFINE w == Views!Named(DefaultRange, day)
    <3>1. w.end = day /\ w.start = day - (Preset[DefaultRange] - 1) /\ Preset[DefaultRange] \in Nat \ {0}
      BY ViewsAssumption DEF Views!Named
    <3>2. \A d : Views!InRange(d) <=> d \in w.start..w.end
      BY DEF Views!InRange
    <3> HIDE DEF w
    <3> QED BY <1>1, <3>1, <3>2
  <2>6. of[t] \in Q
    BY <2>2
  <2> QED BY <1>1, <2>1, <2>4, <2>5, <2>6 DEF Views!DaysWithRows
<1>7. Views!Max(D) = day
  <2> HIDE DEF D
  <2>1. \A x \in D : (\A y \in D : x >= y) => x = day
    BY <1>1, <1>6
  <2>2. \A y \in D : day >= y
    BY <1>6
  <2> QED BY <1>6, <2>1, <2>2 DEF Views!Max
<1>8. ASSUME NEW column
      PROVE  /\ DOMAIN Views!Daily(daily, Q, column) = D
             /\ Views!Daily(daily, Q, column)[Views!Max(DOMAIN Views!Daily(daily, Q, column))]
                  = SumOver([q \in Q |-> daily[day][q][column]], Q)
  BY <1>6, <1>7, DailyIs
<1> DEFINE in(R, x) == {t \in R : of[t] = x}
           B == {t \in here : Views!LastSignal(t, day).breached}
           O == {t \in here : Views!LastSignal(t, day).over30}
<1>9. /\ \A q \in Q : daily[day][q]["tickets"] = Cardinality(in(here, q))
      /\ \A q \in Q : daily[day][q]["breached"] = Cardinality(in(B, q))
      /\ \A q \in Q : daily[day][q]["over30"] = Cardinality(in(O, q))
  <2> SUFFICES ASSUME NEW q \in Q
               PROVE  /\ daily[day][q]["tickets"] = Cardinality(in(here, q))
                      /\ daily[day][q]["breached"] = Cardinality(in(B, q))
                      /\ daily[day][q]["over30"] = Cardinality(in(O, q))
    OBVIOUS
  <2>1. /\ Views!Items(day, q) = in(here, q)
        /\ {t \in Views!Items(day, q) : Views!LastSignal(t, day).breached} = in(B, q)
        /\ {t \in Views!Items(day, q) : Views!LastSignal(t, day).over30} = in(O, q)
    BY <1>5
  <2> QED BY <1>4, <2>1
<1>10. ASSUME NEW column, NEW R \in SUBSET here,
              \A q \in Q : daily[day][q][column] = Cardinality(in(R, q))
       PROVE  SumOver([q \in Q |-> daily[day][q][column]], Q) = Cardinality({t \in R : of[t] \in Q})
  <2> DEFINE F == [q \in Q |-> daily[day][q][column]]
  <2>1. IsFiniteSet(R)
    BY <1>2, <1>3
  <2>2. \A q \in Q : F[q] = Cardinality(in(R, q))
    BY <1>10
  <2>3. \A q \in Q : Cardinality(in(R, q)) \in Nat
    BY <1>2, <1>3, FS_CardinalityType
  <2>4. F \in [Q -> Int]
    <3> DEFINE n(q) == Cardinality(in(R, q))
    <3>1. \A q \in Q : F[q] = n(q) /\ n(q) \in Int
      BY <2>2, <2>3
    <3>2. F = [q \in Q |-> F[q]]
      OBVIOUS
    <3> HIDE DEF n, F
    <3> QED BY <3>1, <3>2
  <2>5. \A q \in Q : F[q] = Cardinality({t \in R : of[t] = q})
    BY <2>2
  <2> HIDE DEF F, in
  <2>6. SumOver(F, Q) = Cardinality({t \in R : of[t] \in Q})
    BY <1>2, <2>1, <2>4, <2>5, SumOfCounts
  <2> QED BY <2>6 DEF F
<1>11. /\ {t \in here : of[t] \in Q} = rows
       /\ {t \in B : of[t] \in Q} = {t \in rows : Views!LatestSignal(t).breached}
       /\ {t \in O : of[t] \in Q} = {t \in rows : Views!LatestSignal(t).over30}
  BY <1>3
<1> HIDE DEF in, B, O
<1>12. /\ SumOver([q \in Q |-> daily[day][q]["tickets"]], Q) = Cardinality(rows)
       /\ SumOver([q \in Q |-> daily[day][q]["breached"]], Q)
            = Cardinality({t \in rows : Views!LatestSignal(t).breached})
       /\ SumOver([q \in Q |-> daily[day][q]["over30"]], Q)
            = Cardinality({t \in rows : Views!LatestSignal(t).over30})
  <2>1. here \in SUBSET here /\ B \in SUBSET here /\ O \in SUBSET here
    BY DEF B, O
  <2>2. SumOver([q \in Q |-> daily[day][q]["tickets"]], Q) = Cardinality({t \in here : of[t] \in Q})
    BY <1>9, <1>10, <2>1
  <2>3. SumOver([q \in Q |-> daily[day][q]["breached"]], Q) = Cardinality({t \in B : of[t] \in Q})
    BY <1>9, <1>10, <2>1
  <2>4. SumOver([q \in Q |-> daily[day][q]["over30"]], Q) = Cardinality({t \in O : of[t] \in Q})
    BY <1>9, <1>10, <2>1
  <2> QED BY <1>11, <2>2, <2>3, <2>4
<1>13. /\ Views!Summary(daily, Q).now = SumOver([q \in Q |-> daily[day][q].tickets], Q)
       /\ Views!Summary(daily, Q).breached = SumOver([q \in Q |-> daily[day][q].breached], Q)
       /\ Views!Summary(daily, Q).over30 = SumOver([q \in Q |-> daily[day][q].over30], Q)
       /\ Views!Backlog(daily, Q).now = SumOver([q \in Q |-> daily[day][q].tickets], Q)
  <2>1. D # {}
    BY <1>6
  <2>2. /\ Views!Summary(daily, Q).now = Views!Daily(daily, Q, "tickets")[Views!Max(DOMAIN Views!Daily(daily, Q, "tickets"))]
        /\ Views!Summary(daily, Q).breached
             = Views!Daily(daily, Q, "breached")[Views!Max(DOMAIN Views!Daily(daily, Q, "breached"))]
        /\ Views!Summary(daily, Q).over30
             = Views!Daily(daily, Q, "over30")[Views!Max(DOMAIN Views!Daily(daily, Q, "over30"))]
    BY <2>1 DEF Views!Summary
  <2>3. Views!Backlog(daily, Q).now = Views!Daily(daily, Q, "tickets")[Views!Max(DOMAIN Views!Daily(daily, Q, "tickets"))]
    BY <1>8, <2>1 DEF Views!Backlog
  <2> QED BY <1>8, <2>2, <2>3
<1>14. /\ Views!Number(rows, LAMBDA p : p.breached) = Cardinality({t \in rows : Views!LatestSignal(t).breached})
       /\ Views!Number(rows, LAMBDA p : p.over30) = Cardinality({t \in rows : Views!LatestSignal(t).over30})
  BY ViewsCount DEF Views!Number
<1>15. Views!Cardinality(rows) = Cardinality(rows)
  BY ViewsCount
<1> QED BY <1>12, <1>13, <1>14, <1>15 DEF rows

-----------------------------------------------------------------------------
(* The form of the settings: lists.                                         *)

\* The first i sequences of seqs, one after the other.
Joins(seqs, f) ==
    f = [i \in 1..Len(seqs) |-> IF i = 1 THEN seqs[i] ELSE f[i-1] \o seqs[i]]

LEMMA JoinsExist ==
  ASSUME NEW W, NEW seqs \in Seq(Seq(W))
  PROVE  \E f : Joins(seqs, f)
<1> DEFINE n == Len(seqs)
           Step(f, i) == IF i = 1 THEN seqs[i] ELSE f[i-1] \o seqs[i]
           K == {k \in Nat : \E f : f = [i \in 1..n |-> f[i]]
                               /\ \A i \in 1..n : i <= k => f[i] = Step(f, i)}
<1>1. n \in Nat
  OBVIOUS
<1>2. 0 \in K
  <2> DEFINE f == [i \in 1..n |-> 0]
  <2>1. f = [i \in 1..n |-> f[i]] /\ \A i \in 1..n : ~(i <= 0)
    BY <1>1
  <2> HIDE DEF f, Step
  <2> QED BY <2>1
<1>3. ASSUME NEW k \in K PROVE k + 1 \in K
  <2>1. PICK f : f = [i \in 1..n |-> f[i]] /\ \A i \in 1..n : i <= k => f[i] = Step(f, i)
    OBVIOUS
  <2> DEFINE h == [i \in 1..n |-> Step(f, i)]
  <2>2. ASSUME NEW i \in 1..n, i <= k + 1 PROVE h[i] = Step(h, i)
    <3>1. CASE i = 1
      BY <3>1
    <3>2. CASE i # 1
      <4>1. i - 1 \in 1..n /\ i - 1 <= k
        BY <1>1, <2>2, <3>2
      <4>2. h[i-1] = Step(f, i-1) /\ f[i-1] = Step(f, i-1)
        BY <2>1, <4>1
      <4>3. h[i-1] = f[i-1]
        BY <4>2
      <4>4. h[i] = f[i-1] \o seqs[i]
        BY <3>2
      <4> QED BY <3>2, <4>3, <4>4
    <3> QED BY <3>1, <3>2
  <2>3. h = [i \in 1..n |-> h[i]] /\ k + 1 \in Nat
    OBVIOUS
  <2> HIDE DEF h, Step
  <2>4. \A i \in 1..n : i <= k + 1 => h[i] = Step(h, i)
    BY <2>2
  <2> QED BY <2>3, <2>4
<1> HIDE DEF K
<1>4. n \in K
  BY <1>1, <1>2, <1>3, InductionUpTo
<1> USE DEF K
<1>5. PICK f : f = [i \in 1..n |-> f[i]] /\ \A i \in 1..n : i <= n => f[i] = Step(f, i)
  BY <1>4
<1> HIDE DEF Step
<1>6. \A i \in 1..n : f[i] = Step(f, i)
  BY <1>1, <1>5
<1>7. f = [i \in 1..n |-> Step(f, i)]
  BY <1>5, <1>6
<1> QED BY <1>7 DEF Joins, Step

\* What is joined is a sequence, and of sequences of one it is their elements.
LEMMA JoinsType ==
  ASSUME NEW W, NEW seqs \in Seq(Seq(W)), NEW f, Joins(seqs, f)
  PROVE  \A i \in 1..Len(seqs) :
            /\ f[i] \in Seq(W)
            /\ (\A j \in 1..Len(seqs) : Len(seqs[j]) = 1) =>
                  Len(f[i]) = i /\ \A j \in 1..i : f[i][j] = seqs[j][1]
<1> DEFINE n == Len(seqs)
           Single == \A j \in 1..n : Len(seqs[j]) = 1
           Good(i) == /\ f[i] \in Seq(W)
                      /\ Single => Len(f[i]) = i /\ \A j \in 1..i : f[i][j] = seqs[j][1]
           K == {k \in Nat : \A i \in 1..n : i <= k => Good(i)}
<1>1. n \in Nat /\ \A i \in 1..n : seqs[i] \in Seq(W)
  OBVIOUS
<1>2. \A i \in 1..n : f[i] = IF i = 1 THEN seqs[i] ELSE f[i-1] \o seqs[i]
  BY DEF Joins
<1>3. 0 \in K
  BY <1>1
<1>4. ASSUME NEW k \in K PROVE k + 1 \in K
  <2>1. ASSUME NEW i \in 1..n, i <= k + 1 PROVE Good(i)
    <3>1. CASE i <= k
      BY <1>4, <3>1
    <3>2. CASE i = k + 1
      <4>1. CASE i = 1
        <5>1. f[i] = seqs[i]
          BY <1>2, <4>1
        <5> QED BY <1>1, <4>1, <5>1
      <4>2. CASE i # 1
        <5>1. i - 1 \in 1..n /\ i - 1 <= k
          BY <1>1, <2>1, <4>2
        <5>2. Good(i - 1)
          BY <1>4, <5>1
        <5> DEFINE a == f[i-1]
                   b == seqs[i]
        <5>3. f[i] = a \o b
          BY <1>2, <4>2
        <5>4. a \in Seq(W) /\ b \in Seq(W)
          BY <1>1, <5>2
        <5>5. Single => Len(a) = i - 1 /\ Len(b) = 1 /\ \A j \in 1..i-1 : a[j] = seqs[j][1]
          BY <5>2
        <5>6. b[1] = seqs[i][1]
          OBVIOUS
        <5> HIDE DEF a, b, K, Single
        <5>7. f[i] \in Seq(W) /\ Len(a) \in Nat /\ Len(b) \in Nat /\ Len(f[i]) = Len(a) + Len(b)
              /\ \A j \in 1..Len(a) + Len(b) : f[i][j] = IF j <= Len(a) THEN a[j] ELSE b[j - Len(a)]
          BY <5>3, <5>4, ConcatProperties, LenProperties
        <5>8. ASSUME Single PROVE Len(f[i]) = i /\ \A j \in 1..i : f[i][j] = seqs[j][1]
          <6>a. Len(a) = i - 1 /\ Len(b) = 1
            BY <5>5, <5>8
          <6>b. i \in Int
            BY <1>1
          <6>1. Len(a) = i - 1 /\ Len(b) = 1 /\ Len(f[i]) = i
            BY <5>7, <6>a, <6>b
          <6>2. ASSUME NEW j \in 1..i PROVE f[i][j] = seqs[j][1]
            <7>1. f[i][j] = IF j <= i - 1 THEN a[j] ELSE b[j - (i - 1)]
              BY <5>7, <6>1
            <7>2. CASE j <= i - 1
              BY <5>5, <5>8, <7>1, <7>2
            <7>3. CASE ~(j <= i - 1)
              <8>1. j = i /\ j - (i - 1) = 1
                BY <7>3
              <8> QED BY <5>6, <7>1, <7>3, <8>1
            <7> QED BY <7>2, <7>3
          <6> QED BY <6>1, <6>2
        <5> QED BY <5>7, <5>8
      <4> QED BY <4>1, <4>2
    <3> HIDE DEF Good, K
    <3>3. k \in Nat
      BY <1>4 DEF K
    <3> QED BY <2>1, <3>1, <3>2, <3>3
  <2> HIDE DEF Good
  <2> QED BY <2>1
<1> HIDE DEF K
<1>5. n \in K
  BY <1>1, <1>3, <1>4, InductionUpTo
<1> HIDE DEF Good
<1>6. \A i \in 1..n : i <= n => Good(i)
  BY <1>5 DEF K
<1>7. \A i \in 1..n : Good(i)
  BY <1>1, <1>6
<1> QED BY <1>7 DEF Good

LEMMA FlattenType ==
  ASSUME NEW W, NEW seqs \in Seq(Seq(W))
  PROVE  /\ Form!FlattenSeq(seqs) \in Seq(W)
         /\ (\A i \in DOMAIN seqs : Len(seqs[i]) = 1) =>
               /\ Len(Form!FlattenSeq(seqs)) = Len(seqs)
               /\ \A i \in DOMAIN seqs : Form!FlattenSeq(seqs)[i] = seqs[i][1]
<1> DEFINE n == Len(seqs)
           f == CHOOSE g : Joins(seqs, g)
<1>1. n \in Nat /\ DOMAIN seqs = 1..n
  OBVIOUS
<1>2. CASE n = 0
  <2>1. Form!FlattenSeq(seqs) = seqs /\ seqs = <<>>
    BY <1>2 DEF Form!FlattenSeq
  <2> QED BY <1>1, <1>2, <2>1
<1>3. CASE n # 0
  <2>1. Form!FlattenSeq(seqs) = f[n]
    BY <1>3 DEF Form!FlattenSeq, Joins
  <2>2. Joins(seqs, f)
    BY JoinsExist
  <2> HIDE DEF f
  <2>3. n \in 1..n
    BY <1>1, <1>3
  <2>4. \A i \in 1..n :
            /\ f[i] \in Seq(W)
            /\ (\A j \in 1..n : Len(seqs[j]) = 1) =>
                  Len(f[i]) = i /\ \A j \in 1..i : f[i][j] = seqs[j][1]
    BY <2>2, JoinsType
  <2> HIDE DEF n
  <2> QED BY <1>1, <2>1, <2>3, <2>4 DEF n
<1> QED BY <1>2, <1>3

\* What may be typed of a key or shown of it, and what a form stores of it.
Typed(k, v) ==
    /\ Specs[k].kind = "list" => v \in Seq(Seq(STRING))
    /\ Specs[k].kind = "bool" => v \in BOOLEAN

SingleItems(v) == \A i \in DOMAIN v : Len(v[i]) = 1

Parsed(k, v) == Typed(k, v) /\ (Specs[k].kind = "list" => SingleItems(v))

LEMMA ParseGives ==
  ASSUME NEW k, NEW v, Typed(k, v)
  PROVE  /\ Parsed(k, Form!Parse(k, v))
         /\ Specs[k].kind = "list" /\ SingleItems(v) => Form!Parse(k, v) = v
<1>1. CASE Specs[k].kind # "list"
  BY <1>1 DEF Form!Parse, Parsed, Typed
<1>2. CASE Specs[k].kind = "list"
  <2> DEFINE words == Form!FlattenSeq(v)
             items == [i \in DOMAIN words |-> <<words[i]>>]
  <2>1. v \in Seq(Seq(STRING))
    BY <1>2 DEF Typed
  <2>2. words \in Seq(STRING)
    BY <2>1, FlattenType
  <2>3. SingleItems(v) =>
           Len(words) = Len(v) /\ \A i \in DOMAIN v : words[i] = v[i][1]
    BY <2>1, FlattenType DEF SingleItems
  <2>4. Form!Parse(k, v) = items
    BY <1>2 DEF Form!Parse
  <2> HIDE DEF words
  <2>5. DOMAIN words = 1..Len(words) /\ Len(words) \in Nat /\ \A i \in DOMAIN words : words[i] \in STRING
    BY <2>2
  <2>6. items \in [1..Len(words) -> Seq(STRING)] /\ \A i \in 1..Len(words) : Len(items[i]) = 1
    BY <2>5
  <2>7. items \in Seq(Seq(STRING)) /\ SingleItems(items)
    BY <2>5, <2>6 DEF SingleItems
  <2>8. ASSUME SingleItems(v) PROVE items = v
    <3>1. Len(words) = Len(v) /\ \A i \in DOMAIN v : words[i] = v[i][1]
      BY <2>3, <2>8
    <3>2. DOMAIN v = 1..Len(v) /\ v = [i \in 1..Len(v) |-> v[i]]
      BY <2>1
    <3>3. ASSUME NEW i \in 1..Len(v) PROVE items[i] = v[i]
      <4>1. v[i] \in Seq(STRING) /\ Len(v[i]) = 1
        BY <2>1, <2>8, <3>2 DEF SingleItems
      <4>2. items[i] = <<v[i][1]>>
        BY <2>5, <3>1, <3>2
      <4> QED BY <4>1, <4>2
    <3>4. items = [i \in 1..Len(v) |-> items[i]]
      BY <2>5, <3>1
    <3> HIDE DEF items
    <3> QED BY <3>2, <3>3, <3>4
  <2> HIDE DEF items
  <2> QED BY <1>2, <2>4, <2>7, <2>8 DEF Parsed, Typed
<1> QED BY <1>1, <1>2

\* What is shown of what is shown is the same.
LEMMA DisplayTwice ==
  ASSUME NEW k, NEW v
  PROVE  Form!Display(k, Form!Display(k, v)) = Form!Display(k, v)
BY DEF Form!Display, Form!Blank

LEMMA DisplayType ==
  ASSUME NEW k, NEW v, v = Missing \/ Typed(k, v)
  PROVE  Typed(k, Form!Display(k, v))
<1>1. CASE v # Missing
  BY <1>1 DEF Form!Display
<1>2. CASE v = Missing
  <2>1. Form!Display(k, v) = Form!Blank(k)
    BY <1>2 DEF Form!Display
  <2>2. Specs[k].kind = "list" => Form!Blank(k) = <<>>
    BY DEF Form!Blank
  <2>3. Specs[k].kind = "bool" => Form!Blank(k) = FALSE
    BY DEF Form!Blank
  <2>4. <<>> \in Seq(Seq(STRING))
    OBVIOUS
  <2> QED BY <2>1, <2>2, <2>3, <2>4 DEF Typed
<1> QED BY <1>1, <1>2

-----------------------------------------------------------------------------
(* The form of the settings: the invariant.                                 *)

FormInv ==
    /\ DOMAIN file = Form!Setting /\ \A k \in Form!Setting : file[k] = Missing \/ Typed(k, file[k])
    /\ DOMAIN stored = Form!Setting
    /\ \A k \in Form!Setting : stored[k] = NoOverride \/ Parsed(k, stored[k])
    /\ DOMAIN opened = Admin
    /\ \A a \in Admin : opened[a] # Closed =>
          /\ DOMAIN opened[a].fields \subseteq Form!Setting
          /\ \A k \in DOMAIN opened[a].fields : Typed(k, opened[a].fields[k])
    /\ Form!RestartIsSaid

LEMMA FormStart == ASSUME Form!Init PROVE FormInv
<1>1. /\ file = [k \in Form!Setting |-> CHOOSE v \in Written[k] : v # Missing]
      /\ stored = [k \in Form!Setting |-> NoOverride]
      /\ running = [k \in Form!AtStart |-> file[k]]
      /\ opened = [a \in Admin |-> Closed]
  BY DEF Form!Init
<1>2. ASSUME NEW k \in Form!Setting PROVE Typed(k, file[k])
  <2>1. \E v \in Written[k] : v # Missing
    BY FormAssumption DEF Form!Setting
  <2>2. file[k] \in Written[k] /\ file[k] # Missing
    BY <1>1, <2>1
  <2> QED BY <2>2, FormAssumption DEF Typed, Form!Setting
<1>3. \A k \in Form!AtStart : Form!Same(k, running[k], Form!Value(k))
  BY <1>1 DEF Form!AtStart, Form!Same, Form!Value
<1> QED BY <1>1, <1>2, <1>3 DEF FormInv, Form!RestartIsSaid

\* A form is the fields as they were shown, but for one that may be typed.
LEMMA FormsType ==
  ASSUME FormInv, NEW a \in Admin, opened[a] # Closed, NEW form \in Form!Forms(a)
  PROVE  DOMAIN form \subseteq Form!Setting /\ \A k \in DOMAIN form : Typed(k, form[k])
<1> DEFINE f == opened[a].fields
<1>1. DOMAIN f \subseteq Form!Setting /\ \A k \in DOMAIN f : Typed(k, f[k])
  BY DEF FormInv
<1>2. form = f \/ \E k \in DOMAIN f : \E text \in Input[k] : form = [f EXCEPT ![k] = text]
  BY DEF Form!Forms
<1>3. ASSUME NEW k \in DOMAIN f, NEW text \in Input[k] PROVE Typed(k, text)
  BY <1>1, <1>3, FormAssumption DEF Typed, Form!Setting
<1> HIDE DEF f
<1> QED BY <1>1, <1>2, <1>3

\* A form that sends a field back as it would be shown leaves it alone.
LEMMA ShownIsKept ==
  ASSUME FormInv, NEW a \in Admin, opened[a] # Closed, NEW form \in Form!Forms(a),
         NEW k \in DOMAIN form, form[k] = Form!Display(k, Form!Value(k)), Form!OneItemEach(k)
  PROVE  k \notin Form!Pending(form)
<1> DEFINE d == form[k]
<1>1. k \in Form!Setting /\ Typed(k, d)
  BY FormsType
<1>2. Form!Parse(k, d) = d
  <2>1. CASE Specs[k].kind = "list"
    <3>1. SingleItems(d)
      BY <2>1 DEF SingleItems, Form!OneItemEach
    <3> QED BY <1>1, <2>1, <3>1, ParseGives
  <2>2. CASE Specs[k].kind # "list"
    BY <2>2 DEF Form!Parse
  <2> QED BY <2>1, <2>2
<1>3. CASE stored[k] = NoOverride
  <2>1. d = Form!Display(k, file[k])
    BY <1>3 DEF Form!Value
  <2>2. Form!Same(k, file[k], d)
    BY <2>1, DisplayTwice DEF Form!Same
  <2> QED BY <1>2, <1>3, <2>2 DEF Form!Pending
<1>4. CASE stored[k] # NoOverride
  <2>1. d = Form!Display(k, stored[k]) /\ Parsed(k, stored[k])
    BY <1>1, <1>4 DEF Form!Value, FormInv
  <2>2. d = stored[k]
    BY <2>1, FormAssumption DEF Form!Display, Form!Blank, Parsed, Typed
  <2> QED BY <1>2, <1>4, <2>2 DEF Form!Pending
<1> QED BY <1>3, <1>4

\* What a form that is applied leaves: what is not done is as it was.
LEMMA SavedKeeps ==
  ASSUME FormInv, NEW form, DOMAIN form \subseteq Form!Setting,
         \A k \in DOMAIN form : Typed(k, form[k]), Form!ApplyForm(form),
         UNCHANGED <<file, running>>
  PROVE  /\ DOMAIN stored' = Form!Setting
         /\ \A k \in Form!Setting : stored'[k] = NoOverride \/ Parsed(k, stored'[k])
         /\ \A k \in Form!Setting : k \notin Form!Pending(form) => stored'[k] = stored[k]
         /\ Form!RestartIsSaid'
<1>1. CASE UNCHANGED <<stored, told, unsaid>>
  BY <1>1 DEF FormInv, Form!RestartIsSaid, Form!Value, Form!Banner
<1>2. CASE Form!Saved(form)
  <2>1. PICK n \in 0..Form!Len(Order) :
          LET done == Form!Pending(form) \cap {Order[i] : i \in 1..n}
              whole == done = Form!Pending(form)
          IN  /\ stored' = [k \in Form!Setting |->
                              IF k \in done THEN Form!Stored(k, Form!Parse(k, form[k])) ELSE stored[k]]
              /\ told' = IF whole THEN told \cup Form!Said(done) ELSE told
              /\ unsaid' = IF whole THEN unsaid ELSE unsaid \cup done
    BY <1>2 DEF Form!Saved
  <2> DEFINE done == Form!Pending(form) \cap {Order[i] : i \in 1..n}
             whole == done = Form!Pending(form)
  <2>2. /\ stored' = [k \in Form!Setting |->
                        IF k \in done THEN Form!Stored(k, Form!Parse(k, form[k])) ELSE stored[k]]
        /\ told' = IF whole THEN told \cup Form!Said(done) ELSE told
        /\ unsaid' = IF whole THEN unsaid ELSE unsaid \cup done
    BY <2>1
  <2>3. done \subseteq Form!Pending(form) /\ done \subseteq DOMAIN form
    BY DEF Form!Pending
  <2> HIDE DEF done
  <2>4. DOMAIN stored' = Form!Setting
    BY <2>2
  <2>5. ASSUME NEW k \in Form!Setting PROVE stored'[k] = NoOverride \/ Parsed(k, stored'[k])
    <3>1. CASE k \in done
      <4>1. Parsed(k, Form!Parse(k, form[k]))
        BY <2>3, <3>1, ParseGives
      <4> QED BY <2>2, <3>1, <4>1 DEF Form!Stored
    <3>2. CASE k \notin done
      BY <2>2, <3>2 DEF FormInv
    <3> QED BY <3>1, <3>2
  <2>6. \A k \in Form!Setting : k \notin done => stored'[k] = stored[k]
    BY <2>2
  <2>7. ASSUME NEW k \in Form!AtStart,
               ~Form!Same(k, running'[k], Form!Value(k)'), k \notin Form!Banner'
        PROVE  k \in told' \cup unsaid'
    <3>1. k \in Form!Setting
      BY DEF Form!AtStart
    <3>2. CASE k \in done
      BY <2>2, <3>2 DEF Form!Said
    <3>3. CASE k \notin done
      <4>1. stored'[k] = stored[k]
        BY <2>6, <3>1, <3>3
      <4>2. Form!Value(k)' = Form!Value(k) /\ running'[k] = running[k] /\ k \notin Form!Banner
        BY <2>7, <4>1 DEF Form!Value, Form!Banner
      <4>3. k \in told \cup unsaid
        BY <2>7, <4>2 DEF FormInv, Form!RestartIsSaid
      <4> QED BY <2>2, <4>3
    <3> QED BY <3>2, <3>3
  <2>8. Form!RestartIsSaid'
    BY <2>7 DEF Form!RestartIsSaid, Form!Same, Form!Display
  <2> QED BY <2>3, <2>4, <2>5, <2>6, <2>8
<1> QED BY <1>1, <1>2 DEF Form!ApplyForm

LEMMA FormPreserved == ASSUME FormInv, [Form!Next]_formVars PROVE FormInv'
<1>1. CASE UNCHANGED formVars
  BY <1>1 DEF FormInv, formVars, Form!RestartIsSaid, Form!Value, Form!Banner
<1>2. ASSUME NEW a \in Admin, opened[a] # Closed, NEW form \in Form!Forms(a), Form!Submit(a, form)
      PROVE  FormInv'
  <2>1. DOMAIN form \subseteq Form!Setting /\ \A k \in DOMAIN form : Typed(k, form[k])
    BY <1>2, FormsType
  <2>2. /\ Form!ApplyForm(form) /\ UNCHANGED <<file, running>>
        /\ opened' = [opened EXCEPT ![a] = Closed]
    BY <1>2 DEF Form!Submit
  <2>3. /\ DOMAIN stored' = Form!Setting
        /\ \A k \in Form!Setting : stored'[k] = NoOverride \/ Parsed(k, stored'[k])
        /\ Form!RestartIsSaid'
    BY <2>1, <2>2, SavedKeeps
  <2>4. /\ DOMAIN opened' = Admin
        /\ \A b \in Admin : opened'[b] # Closed => opened'[b] = opened[b]
    BY <2>2 DEF FormInv
  <2> QED BY <2>2, <2>3, <2>4 DEF FormInv
<1>3. ASSUME NEW a \in Admin, NEW k \in Form!Setting, Form!OpenPage(a, Specs[k].section)
      PROVE  FormInv'
  <2> DEFINE fields == [l \in Form!Of(Specs[k].section) |-> Form!Display(l, Form!Value(l))]
  <2>1. /\ opened' = [opened EXCEPT ![a] = [section |-> Specs[k].section, fields |-> fields]]
        /\ UNCHANGED <<file, stored, running, told, unsaid>>
    BY <1>3 DEF Form!OpenPage
  <2>2. ASSUME NEW l \in Form!Of(Specs[k].section)
        PROVE  l \in Form!Setting /\ Typed(l, Form!Display(l, Form!Value(l)))
    <3>1. l \in Form!Setting
      BY DEF Form!Of
    <3>2. Form!Value(l) = Missing \/ Typed(l, Form!Value(l))
      BY <3>1 DEF FormInv, Parsed, Form!Value
    <3> QED BY <3>1, <3>2, DisplayType
  <2>3. DOMAIN fields \subseteq Form!Setting /\ \A l \in DOMAIN fields : Typed(l, fields[l])
    BY <2>2
  <2> HIDE DEF fields
  <2>4. /\ DOMAIN opened' = Admin /\ opened'[a].fields = fields
        /\ \A b \in Admin \ {a} : opened'[b] = opened[b]
    BY <2>1 DEF FormInv
  <2>5. \A b \in Admin : opened'[b] # Closed =>
          /\ DOMAIN opened'[b].fields \subseteq Form!Setting
          /\ \A l \in DOMAIN opened'[b].fields : Typed(l, opened'[b].fields[l])
    BY <2>3, <2>4 DEF FormInv
  <2>6. Form!RestartIsSaid'
    BY <2>1 DEF FormInv, Form!RestartIsSaid, Form!Value, Form!Banner
  <2> QED BY <2>1, <2>4, <2>5, <2>6 DEF FormInv
<1>4. ASSUME NEW k \in Form!Setting, Form!ResetKey(k) PROVE FormInv'
  <2>1. /\ stored' = [stored EXCEPT ![k] = NoOverride] /\ unsaid' = unsaid \cup {k}
        /\ UNCHANGED <<file, running, opened, told>>
    BY <1>4 DEF Form!ResetKey
  <2>2. DOMAIN stored' = Form!Setting /\ \A l \in Form!Setting \ {k} : stored'[l] = stored[l]
    BY <2>1 DEF FormInv
  <2>3. ASSUME NEW l \in Form!AtStart,
               ~Form!Same(l, running'[l], Form!Value(l)'), l \notin Form!Banner'
        PROVE  l \in told' \cup unsaid'
    <3>1. CASE l = k
      BY <2>1, <3>1
    <3>2. CASE l # k
      <4>1. stored'[l] = stored[l]
        BY <2>2, <3>2 DEF Form!AtStart
      <4>2. Form!Value(l)' = Form!Value(l) /\ running'[l] = running[l] /\ l \notin Form!Banner
        BY <2>1, <2>3, <4>1 DEF Form!Value, Form!Banner
      <4> QED BY <2>1, <2>3, <4>2 DEF FormInv, Form!RestartIsSaid
    <3> QED BY <3>1, <3>2
  <2>4. Form!RestartIsSaid'
    BY <2>3 DEF Form!RestartIsSaid, Form!Same, Form!Display
  <2>5. \A l \in Form!Setting : stored'[l] = NoOverride \/ Parsed(l, stored'[l])
    BY <2>1, <2>2 DEF FormInv
  <2> QED BY <2>1, <2>2, <2>4, <2>5 DEF FormInv
<1>5. ASSUME Form!StartAgain PROVE FormInv'
  <2>1. /\ file' = file \/ \E k \in Form!Setting : \E v \in Written[k] : file' = [file EXCEPT ![k] = v]
        /\ running' = [k \in Form!AtStart |-> IF stored[k] = NoOverride THEN file'[k] ELSE stored[k]]
        /\ UNCHANGED <<stored, opened>>
    BY <1>5 DEF Form!StartAgain
  <2>2. \A k \in Form!Setting : \A v \in Written[k] : v = Missing \/ Typed(k, v)
    BY FormAssumption DEF Typed, Form!Setting
  <2>3. DOMAIN file' = Form!Setting /\ \A k \in Form!Setting : file'[k] = Missing \/ Typed(k, file'[k])
    BY <2>1, <2>2 DEF FormInv
  <2>4. \A k \in Form!AtStart : running'[k] = Form!Value(k)'
    BY <2>1 DEF Form!Value
  <2>5. Form!RestartIsSaid'
    BY <2>4 DEF Form!RestartIsSaid, Form!Same
  <2> QED BY <2>1, <2>3, <2>5 DEF FormInv
<1> QED BY <1>1, <1>2, <1>3, <1>4, <1>5 DEF Form!Next

-----------------------------------------------------------------------------
(* The settings: what a process reads of them.                              *)

PageAt == {"active", "next", "check", "previous", "write", "audit", "invalidate"}

Call == [pc : {"idle", "answered", "has", "get"} \cup PageAt, key : Key,
         loaded : {Settings!NoView} \cup Settings!Overrides, read : BOOLEAN,
         form : {Settings!NoView} \cup [Key -> Choice], todo : SUBSET Key,
         value : Settings!Override]

DataTypeOK ==
    /\ table \in Settings!Overrides /\ view \in {Settings!NoView} \cup Settings!Overrides
    /\ ago \in [Key -> [Settings!Override -> Nat]]
    /\ cache \in [values : Settings!Overrides, age : Nat, read : BOOLEAN]
    /\ thread \in [Settings!Thread -> Call]

\* The copy is not older than it says, as far as what is in it has changed.
CacheHolds ==
    cache.age < CacheTtl /\ cache.read =>
        \A k \in Key : Settings!Behind(k, cache.values[k]) <= cache.age

\* What has just been loaded is what the session reads; what an audit row will name is recent.
CallHolds ==
    \A t \in Settings!Thread :
        /\ thread[t].pc \in PageAt => thread[t].form \in [Key -> Choice]
        /\ thread[t].loaded # Settings!NoView /\ thread[t].read =>
              \A k \in Key : Settings!Behind(k, thread[t].loaded[k]) = 0
        /\ t = Loop /\ thread[t].pc \in {"write", "audit"} =>
              /\ thread[t].loaded = Settings!NoView
              /\ thread[t].read => Settings!Behind(thread[t].key, thread[t].value) < CacheTtl

SettingsInv == DataTypeOK /\ CacheHolds /\ CallHolds

\* What is obtained is a value for each key, and never nothing at all.
LEMMA OverridesAreSome == Settings!NoView \notin Settings!Overrides
<1>1. Key # {}
  BY SettingsAssumption
<1>2. DOMAIN Settings!NoView = {}
  BY DEF Settings!NoView
<1>3. \A o \in Settings!Overrides : DOMAIN o = Key
  BY DEF Settings!Overrides
<1> QED BY <1>1, <1>2, <1>3

LEMMA VisibleType ==
  ASSUME DataTypeOK PROVE Settings!Visible \in Settings!Overrides
BY DEF DataTypeOK, Settings!Visible

LEMMA BehindType ==
  ASSUME DataTypeOK, NEW k \in Key, NEW v \in Settings!Override
  PROVE  Settings!Behind(k, v) \in Nat
BY DEF DataTypeOK, Settings!Behind

\* Nothing falls behind by a step that takes no time.
LEMMA RememberKeeps ==
  ASSUME DataTypeOK, Settings!Remember
  PROVE  /\ ago' \in [Key -> [Settings!Override -> Nat]]
         /\ \A k \in Key, v \in Settings!Override : Settings!Behind(k, v)' <= Settings!Behind(k, v)
<1>1. ASSUME NEW k \in Key
      PROVE  /\ ago'[k] = [ago[k] EXCEPT ![Settings!Visible[k]] = 0]
             /\ ago'[k] \in [Settings!Override -> Nat]
  BY VisibleType DEF Settings!Remember, DataTypeOK, Settings!Overrides
<1>2. ago' = [k \in Key |-> ago'[k]]
  BY DEF Settings!Remember
<1>3. ASSUME NEW k \in Key, NEW v \in Settings!Override
      PROVE  Settings!Behind(k, v)' <= Settings!Behind(k, v)
  <2>1. ago[k] \in [Settings!Override -> Nat]
    BY DEF DataTypeOK
  <2>2. CASE v = Settings!Visible[k]
    <3>1. ago'[k][v] = 0
      BY <1>1, <2>1, <2>2
    <3>2. Settings!Behind(k, v)' = 0
      BY <3>1 DEF Settings!Behind
    <3>3. Settings!Behind(k, v) = 0
      BY <2>2 DEF Settings!Behind
    <3> QED BY <3>2, <3>3
  <2>3. CASE v # Settings!Visible[k]
    <3>1. ago'[k][v] = ago[k][v]
      BY <1>1, <2>1, <2>3
    <3>2. Settings!Behind(k, v)' \in {0, ago[k][v]}
      BY <3>1 DEF Settings!Behind
    <3>3. Settings!Behind(k, v) = ago[k][v] /\ ago[k][v] \in Nat
      BY <2>1, <2>3 DEF Settings!Behind
    <3> QED BY <3>2, <3>3
  <2> QED BY <2>2, <2>3
<1> QED BY <1>1, <1>2, <1>3

LEMMA QuietKeeps ==
  ASSUME UNCHANGED <<table, view, ago>>
  PROVE  \A k, v : Settings!Behind(k, v)' = Settings!Behind(k, v)
BY DEF Settings!Behind, Settings!Visible

\* A step that takes no time and leaves the copy alone.
LEMMA CacheStays ==
  ASSUME SettingsInv, UNCHANGED cache,
         \A k \in Key, v \in Settings!Override : Settings!Behind(k, v)' <= Settings!Behind(k, v),
         \A k \in Key, v \in Settings!Override : Settings!Behind(k, v)' \in Nat
  PROVE  CacheHolds'
<1>1. cache.values \in Settings!Overrides /\ cache.age \in Nat
  BY DEF SettingsInv, DataTypeOK
<1>2. \A k \in Key : cache.values[k] \in Settings!Override
  BY <1>1 DEF Settings!Overrides
<1>3. \A k \in Key : Settings!Behind(k, cache.values[k]) \in Nat
  BY <1>2, BehindType DEF SettingsInv
<1>4. ASSUME cache.age < CacheTtl /\ cache.read, NEW k \in Key
      PROVE  Settings!Behind(k, cache.values[k])' <= cache.age
  <2>1. Settings!Behind(k, cache.values[k]) <= cache.age
    BY <1>4 DEF SettingsInv, CacheHolds
  <2>2. Settings!Behind(k, cache.values[k])' <= Settings!Behind(k, cache.values[k])
        /\ Settings!Behind(k, cache.values[k])' \in Nat
    BY <1>2
  <2> QED BY <1>1, <1>3, <2>1, <2>2
<1> QED BY <1>4 DEF CacheHolds

\* No step but the clock's lets anything fall behind.
NothingFalls ==
    \A k \in Key, v \in Settings!Override :
        Settings!Behind(k, v)' <= Settings!Behind(k, v) /\ Settings!Behind(k, v)' \in Nat

LEMMA RememberLetsNothingFall ==
  ASSUME DataTypeOK, Settings!Remember, view' \in {Settings!NoView} \cup Settings!Overrides,
         table' \in Settings!Overrides
  PROVE  NothingFalls /\ ago' \in [Key -> [Settings!Override -> Nat]]
<1>1. ago' \in [Key -> [Settings!Override -> Nat]]
  BY RememberKeeps
<1>2. ASSUME NEW k \in Key, NEW v \in Settings!Override PROVE Settings!Behind(k, v)' \in Nat
  BY <1>1 DEF Settings!Behind
<1> QED BY <1>1, <1>2, RememberKeeps DEF NothingFalls

LEMMA QuietLetsNothingFall ==
  ASSUME DataTypeOK, UNCHANGED <<table, view, ago>> PROVE NothingFalls
<1>1. \A k \in Key, v \in Settings!Override :
          Settings!Behind(k, v)' = Settings!Behind(k, v) /\ Settings!Behind(k, v) \in Nat
  BY QuietKeeps, BehindType
<1> QED BY <1>1 DEF NothingFalls

LEMMA CallsStay ==
  ASSUME SettingsInv, NothingFalls, NEW t \in Settings!Thread, thread'[t] = thread[t]
  PROVE  /\ thread'[t].pc \in PageAt => thread'[t].form \in [Key -> Choice]
         /\ thread'[t].loaded # Settings!NoView /\ thread'[t].read =>
               \A k \in Key : Settings!Behind(k, thread[t].loaded[k])' = 0
         /\ t = Loop /\ thread'[t].pc \in {"write", "audit"} =>
               /\ thread'[t].loaded = Settings!NoView
               /\ thread'[t].read => Settings!Behind(thread[t].key, thread[t].value)' < CacheTtl
<1> PICK c \in Call : c = thread[t]
  BY DEF SettingsInv, DataTypeOK
<1>1. /\ c.pc \in PageAt => c.form \in [Key -> Choice]
      /\ c.loaded # Settings!NoView /\ c.read => \A k \in Key : Settings!Behind(k, c.loaded[k]) = 0
      /\ t = Loop /\ c.pc \in {"write", "audit"} =>
            /\ c.loaded = Settings!NoView
            /\ c.read => Settings!Behind(c.key, c.value) < CacheTtl
  BY DEF SettingsInv, CallHolds
<1>2. c.key \in Key /\ c.value \in Settings!Override
      /\ (c.loaded # Settings!NoView => \A k \in Key : c.loaded[k] \in Settings!Override)
  BY DEF Call, Settings!Overrides
<1>3. c.loaded # Settings!NoView /\ c.read => \A k \in Key : Settings!Behind(k, c.loaded[k])' = 0
  BY <1>1, <1>2 DEF NothingFalls
<1>4. Settings!Behind(c.key, c.value) \in Nat
  BY <1>2, BehindType DEF SettingsInv
<1>5. c.read /\ Settings!Behind(c.key, c.value) < CacheTtl => Settings!Behind(c.key, c.value)' < CacheTtl
  BY <1>2, <1>4, SettingsAssumption DEF NothingFalls
<1> QED BY <1>1, <1>3, <1>5

\* What a call is to be, when one thread takes a step.
LEMMA CallMoves ==
  ASSUME SettingsInv, NothingFalls, NEW t \in Settings!Thread, NEW c \in Call,
         thread' = [thread EXCEPT ![t] = c],
         c.pc \in PageAt => c.form \in [Key -> Choice],
         c.loaded # Settings!NoView /\ c.read => \A k \in Key : Settings!Behind(k, c.loaded[k])' = 0,
         c.pc \in {"write", "audit"} => c.loaded = Settings!NoView,
         c.pc \in {"write", "audit"} /\ c.read => Settings!Behind(c.key, c.value)' < CacheTtl
  PROVE  thread' \in [Settings!Thread -> Call] /\ CallHolds'
<1>1. /\ thread' \in [Settings!Thread -> Call] /\ thread'[t] = c
      /\ \A u \in Settings!Thread \ {t} : thread'[u] = thread[u]
  BY DEF SettingsInv, DataTypeOK
<1>2. ASSUME NEW u \in Settings!Thread
      PROVE  /\ thread'[u].pc \in PageAt => thread'[u].form \in [Key -> Choice]
             /\ thread'[u].loaded # Settings!NoView /\ thread'[u].read =>
                   \A k \in Key : Settings!Behind(k, thread[u].loaded[k])'  = 0
             /\ u = Loop /\ thread'[u].pc \in {"write", "audit"} =>
                   /\ thread'[u].loaded = Settings!NoView
                   /\ thread'[u].read => Settings!Behind(thread[u].key, thread[u].value)' < CacheTtl
  <2>1. CASE u = t
    BY <1>1, <2>1
  <2>2. CASE u # t
    BY <1>1, <2>2, CallsStay
  <2> QED BY <2>1, <2>2
<1> QED BY <1>1, <1>2 DEF CallHolds

LEMMA CallsRest ==
  ASSUME SettingsInv, NothingFalls, UNCHANGED thread
  PROVE  thread' \in [Settings!Thread -> Call] /\ CallHolds'
<1>1. thread' \in [Settings!Thread -> Call]
  BY DEF SettingsInv, DataTypeOK
<1> QED BY <1>1, CallsStay DEF CallHolds

LEMMA CacheRests ==
  ASSUME SettingsInv, NothingFalls, UNCHANGED cache
  PROVE  CacheHolds'
BY CacheStays DEF NothingFalls

\* current(): the copy if it is fresh, else what was loaded, which then is the copy.
LEMMA Obtains ==
  ASSUME SettingsInv, NothingFalls, NEW t \in Settings!Thread, Settings!Obtain(t)
  PROVE  /\ cache' \in [values : Settings!Overrides, age : Nat, read : BOOLEAN] /\ CacheHolds'
         /\ Settings!Obtained(t) \in Settings!Overrides
         /\ \E read \in BOOLEAN :
               /\ cache'.read = read
               /\ read => \A k \in Key :
                     Settings!Behind(k, Settings!Obtained(t)[k]) < CacheTtl
<1>1. CASE thread[t].loaded = Settings!NoView /\ Settings!Fresh
             /\ cache' = [cache EXCEPT !.age = Settings!Age(@)]
  <2>1. cache' = cache
    BY <1>1 DEF Settings!Age, SettingsInv, DataTypeOK
  <2>2. Settings!Obtained(t) = cache.values /\ cache.values \in Settings!Overrides
    BY <1>1 DEF Settings!Obtained, SettingsInv, DataTypeOK
  <2>3. cache.age \in Nat /\ cache.age < CacheTtl
    BY <1>1 DEF SettingsInv, DataTypeOK, Settings!Fresh
  <2>4. ASSUME cache.read, NEW k \in Key PROVE Settings!Behind(k, cache.values[k]) < CacheTtl
    <3>1. Settings!Behind(k, cache.values[k]) <= cache.age
      BY <2>3, <2>4 DEF SettingsInv, CacheHolds
    <3>2. Settings!Behind(k, cache.values[k]) \in Nat
      BY <2>2, BehindType DEF SettingsInv, Settings!Overrides
    <3> QED BY <2>3, <3>1, <3>2, SettingsAssumption
  <2>5. CacheHolds'
    BY <2>1, CacheRests
  <2>6. cache.read \in BOOLEAN
    BY DEF SettingsInv, DataTypeOK
  <2> QED BY <2>1, <2>2, <2>4, <2>5, <2>6 DEF SettingsInv, DataTypeOK
<1>2. CASE thread[t].loaded # Settings!NoView
             /\ cache' = [values |-> thread[t].loaded, age |-> 0, read |-> thread[t].read]
  <2>1. thread[t] \in Call
    BY DEF SettingsInv, DataTypeOK
  <2>2. Settings!Obtained(t) = thread[t].loaded /\ thread[t].loaded \in Settings!Overrides
    BY <1>2, <2>1 DEF Settings!Obtained, Call
  <2> PICK read \in BOOLEAN : read = thread[t].read
    BY <2>1 DEF Call
  <2>3. cache' = [values |-> thread[t].loaded, age |-> 0, read |-> read]
    BY <1>2
  <2>4. read => \A k \in Key : Settings!Behind(k, thread[t].loaded[k]) = 0
    BY <1>2 DEF SettingsInv, CallHolds
  <2> PICK loaded \in Settings!Overrides : loaded = thread[t].loaded
    BY <2>2
  <2>5. \A k \in Key : loaded[k] \in Settings!Override
    BY DEF Settings!Overrides
  <2>6. read => \A k \in Key : Settings!Behind(k, loaded[k])' = 0
    BY <2>4, <2>5 DEF NothingFalls
  <2>7. cache'.values = loaded /\ cache'.age = 0 /\ cache'.read = read
    BY <2>3
  <2>8. CacheHolds'
    BY <2>6, <2>7 DEF CacheHolds
  <2>9. cache' \in [values : Settings!Overrides, age : Nat, read : BOOLEAN]
    BY <2>3
  <2>10. read => \A k \in Key : Settings!Behind(k, Settings!Obtained(t)[k]) < CacheTtl
    BY <2>2, <2>4, SettingsAssumption
  <2> QED BY <2>2, <2>7, <2>8, <2>9, <2>10
<1> QED BY <1>1, <1>2 DEF Settings!Obtain

LEMMA AtRestType ==
  /\ Settings!AtRest \in Call /\ Settings!AtRest.pc = "idle"
  /\ Settings!AtRest.loaded = Settings!NoView
BY SettingsAssumption DEF Settings!AtRest, Call, Settings!Override

LEMMA SettingsStart == ASSUME Settings!Init PROVE SettingsInv
<1>1. Settings!Nothing \in Settings!Overrides
  BY DEF Settings!Nothing, Settings!Overrides, Settings!Override
<1>2. /\ table = Settings!Nothing /\ view = Settings!NoView
      /\ cache = [values |-> Settings!Nothing, age |-> CacheTtl, read |-> TRUE]
      /\ thread = [t \in Settings!Thread |-> Settings!AtRest]
      /\ ago = [k \in Key |-> [v \in Settings!Override |-> IF v = Unset THEN 0 ELSE CacheTtl]]
  BY DEF Settings!Init
<1>3. ago \in [Key -> [Settings!Override -> Nat]]
  BY <1>2, SettingsAssumption
<1>4. thread \in [Settings!Thread -> Call]
  BY <1>2, AtRestType
<1>5. cache \in [values : Settings!Overrides, age : Nat, read : BOOLEAN] /\ ~(cache.age < CacheTtl)
  BY <1>1, <1>2, SettingsAssumption
<1>6. \A t \in Settings!Thread : thread[t].pc = "idle" /\ thread[t].loaded = Settings!NoView
  BY <1>2, AtRestType
<1> QED BY <1>1, <1>2, <1>3, <1>4, <1>5, <1>6 DEF SettingsInv, DataTypeOK, CacheHolds, CallHolds, PageAt

LEMMA LoadStep ==
  ASSUME SettingsInv, NEW t \in Settings!Thread, Settings!Load(t) PROVE SettingsInv'
<1>1. DataTypeOK /\ Settings!Visible \in Settings!Overrides
  BY VisibleType DEF SettingsInv
<1>2. table' = table /\ cache' = cache /\ view' \in {Settings!NoView} \cup Settings!Overrides
  BY <1>1 DEF Settings!Load
<1>3. NothingFalls /\ ago' \in [Key -> [Settings!Override -> Nat]]
  BY <1>1, <1>2, RememberLetsNothingFall DEF Settings!Load, DataTypeOK
<1>4. CacheHolds'
  BY <1>2, <1>3, CacheRests
<1>5. thread[t] \in Call /\ thread \in [Settings!Thread -> Call]
      /\ thread[t].pc \in {"has", "get", "active", "check", "previous"}
      /\ (thread[t].pc \in PageAt => thread[t].form \in [Key -> Choice])
  BY DEF SettingsInv, DataTypeOK, CallHolds, Settings!Load, Settings!Asking
<1>6. Settings!Nothing \in Settings!Overrides
  BY DEF Settings!Nothing, Settings!Overrides, Settings!Override
<1>7. thread' \in [Settings!Thread -> Call] /\ CallHolds'
  <2>1. CASE thread' = [thread EXCEPT ![t].loaded = Settings!Visible, ![t].read = TRUE]
             /\ view' = Settings!Visible
    <3> PICK o \in Settings!Overrides : o = Settings!Visible
      BY <1>1
    <3> PICK c \in Call : c = [thread[t] EXCEPT !.loaded = o, !.read = TRUE]
      BY <1>5 DEF Call
    <3>1. thread' = [thread EXCEPT ![t] = c]
      BY <1>5, <2>1
    <3>2. c.loaded = o /\ c.read = TRUE /\ c.pc = thread[t].pc /\ c.form = thread[t].form
      BY <1>5 DEF Call
    <3>3. Settings!Visible' = o
      BY <2>1, OverridesAreSome DEF Settings!Visible
    <3>4. \A k \in Key : Settings!Behind(k, o[k])' = 0
      BY <3>3 DEF Settings!Behind
    <3> QED BY <1>3, <1>5, <3>1, <3>2, <3>4, CallMoves
  <2>2. CASE thread' = [thread EXCEPT ![t].loaded = Settings!Nothing, ![t].read = FALSE]
    <3> PICK o \in Settings!Overrides : o = Settings!Nothing
      BY <1>6
    <3> PICK c \in Call : c = [thread[t] EXCEPT !.loaded = o, !.read = FALSE]
      BY <1>5 DEF Call
    <3>1. thread' = [thread EXCEPT ![t] = c]
      BY <1>5, <2>2
    <3>2. c.loaded = o /\ c.read = FALSE /\ c.pc = thread[t].pc /\ c.form = thread[t].form
      BY <1>5 DEF Call
    <3> QED BY <1>3, <1>5, <3>1, <3>2, CallMoves
  <2> QED BY <2>1, <2>2 DEF Settings!Load
<1> QED BY <1>2, <1>3, <1>4, <1>7 DEF SettingsInv, DataTypeOK

\* A call that obtains the copy and goes on as c, which is not about to write.
LEMMA CallObtains ==
  ASSUME SettingsInv, NEW t \in Settings!Thread, Settings!Obtain(t), Settings!Quiet,
         NEW c \in Call, c.loaded = Settings!NoView, thread' = [thread EXCEPT ![t] = c],
         c.pc \in PageAt => c.form \in [Key -> Choice],
         c.pc \in {"write", "audit"} /\ c.read => Settings!Behind(c.key, c.value) < CacheTtl
  PROVE  SettingsInv'
<1>1. UNCHANGED <<table, view, ago>>
  BY DEF Settings!Quiet
<1>2. NothingFalls
  BY <1>1, QuietLetsNothingFall DEF SettingsInv
<1>3. cache' \in [values : Settings!Overrides, age : Nat, read : BOOLEAN] /\ CacheHolds'
  BY <1>2, Obtains
<1>4. Settings!Behind(c.key, c.value)' = Settings!Behind(c.key, c.value)
  BY <1>1, QuietKeeps
<1>5. thread' \in [Settings!Thread -> Call] /\ CallHolds'
  BY <1>2, <1>4, CallMoves
<1> QED BY <1>1, <1>3, <1>5 DEF SettingsInv, DataTypeOK

\* The step of a call as a record: what it goes on with is one.
LEMMA Goes ==
  ASSUME NEW c \in Call, NEW x \in {"idle", "answered", "has", "get"} \cup PageAt
  PROVE  LET d == [[c EXCEPT !.pc = x] EXCEPT !.loaded = Settings!NoView]
         IN  /\ d \in Call /\ d.pc = x /\ d.loaded = Settings!NoView
             /\ d.form = c.form /\ d.read = c.read /\ d.key = c.key /\ d.value = c.value
BY DEF Call

LEMMA HasStep ==
  ASSUME SettingsInv, NEW t \in Settings!Thread, Settings!Has(t) PROVE SettingsInv'
<1> DEFINE k == thread[t].key
<1>1. thread[t] \in Call /\ Settings!Obtain(t) /\ Settings!Quiet
  BY DEF SettingsInv, DataTypeOK, Settings!Has
<1>2. CASE Settings!Obtained(t)[k] # Unset
  <2> PICK d \in Call : d = [[thread[t] EXCEPT !.pc = "get"] EXCEPT !.loaded = Settings!NoView]
    BY <1>1, Goes
  <2>1. thread' = [thread EXCEPT ![t] = d]
    BY <1>2 DEF Settings!Has, Settings!Proceed
  <2>2. d.pc = "get" /\ d.loaded = Settings!NoView
    BY <1>1, Goes
  <2> QED BY <1>1, <2>1, <2>2, CallObtains DEF PageAt
<1>3. CASE ~(Settings!Obtained(t)[k] # Unset)
  <2>1. File[k] \in Settings!Override
    BY <1>1, SettingsAssumption DEF Call, Settings!Override
  <2> PICK d \in Call : d = [[thread[t] EXCEPT !.pc = "answered", !.value = File[k]]
                                EXCEPT !.loaded = Settings!NoView]
    BY <1>1, <2>1 DEF Call
  <2>2. thread' = [thread EXCEPT ![t] = d]
    BY <1>3 DEF Settings!Has, Settings!Proceed
  <2>3. d.pc = "answered" /\ d.loaded = Settings!NoView
    BY <1>1 DEF Call
  <2> QED BY <1>1, <2>2, <2>3, CallObtains DEF PageAt
<1> QED BY <1>2, <1>3

LEMMA ObtainedType ==
  ASSUME SettingsInv, NEW t \in Settings!Thread, Settings!Obtain(t), Settings!Quiet, NEW k \in Key
  PROVE  Settings!Obtained(t)[k] \in Settings!Override
<1>1. NothingFalls
  BY QuietLetsNothingFall DEF SettingsInv, Settings!Quiet
<1>2. Settings!Obtained(t) \in Settings!Overrides
  BY <1>1, Obtains
<1> QED BY <1>2 DEF Settings!Overrides

LEMMA GetStep ==
  ASSUME SettingsInv, NEW t \in Settings!Thread, Settings!Get(t) PROVE SettingsInv'
<1> DEFINE v == Settings!Obtained(t)[thread[t].key]
<1>1. thread[t] \in Call /\ Settings!Obtain(t) /\ Settings!Quiet
  BY DEF SettingsInv, DataTypeOK, Settings!Get
<1>2. v \in Settings!Override
  BY <1>1, ObtainedType DEF Call
<1>3. thread' = [thread EXCEPT ![t] = [[thread[t] EXCEPT !.pc = "answered", !.value = v]
                                          EXCEPT !.loaded = Settings!NoView]]
  BY DEF Settings!Get, Settings!Proceed
<1> HIDE DEF v
<1> PICK d \in Call : d = [[thread[t] EXCEPT !.pc = "answered", !.value = v]
                              EXCEPT !.loaded = Settings!NoView]
  BY <1>1, <1>2 DEF Call
<1>4. d.pc = "answered" /\ d.loaded = Settings!NoView
  BY <1>1 DEF Call
<1> QED BY <1>1, <1>3, <1>4, CallObtains DEF PageAt

\* A step of a call that reads nothing and takes no time.
LEMMA CallGoesOn ==
  ASSUME SettingsInv, NEW t \in Settings!Thread, UNCHANGED <<table, view, ago, cache>>,
         NEW c \in Call, thread' = [thread EXCEPT ![t] = c],
         c.loaded = Settings!NoView \/ (c.loaded = thread[t].loaded /\ c.read = thread[t].read),
         c.pc \in PageAt => c.form \in [Key -> Choice], c.pc \notin {"write", "audit"}
  PROVE  SettingsInv'
<1>1. NothingFalls
  BY QuietLetsNothingFall DEF SettingsInv
<1>2. ASSUME c.loaded # Settings!NoView, c.read, NEW k \in Key
      PROVE  Settings!Behind(k, c.loaded[k])' = 0
  <2>1. Settings!Behind(k, c.loaded[k]) = 0
    BY <1>2 DEF SettingsInv, CallHolds
  <2> QED BY <2>1, QuietKeeps
<1>3. thread' \in [Settings!Thread -> Call] /\ CallHolds'
  BY <1>1, <1>2, CallMoves
<1> QED BY <1>1, <1>3, CacheRests DEF SettingsInv, DataTypeOK

LEMMA AskStep ==
  ASSUME SettingsInv, NEW t \in Settings!Thread, Settings!Ask(t) PROVE SettingsInv'
<1>1. PICK k \in Key : thread' = [thread EXCEPT ![t] = [Settings!AtRest EXCEPT !.pc = "has", !.key = k]]
  BY DEF Settings!Ask
<1> PICK c \in Call : c = [Settings!AtRest EXCEPT !.pc = "has", !.key = k]
  BY AtRestType DEF Call
<1>2. c.pc = "has" /\ c.loaded = Settings!NoView
  BY AtRestType DEF Call
<1>3. UNCHANGED <<table, view, ago, cache>>
  BY DEF Settings!Ask, Settings!Quiet
<1> QED BY <1>1, <1>2, <1>3, CallGoesOn DEF PageAt

LEMMA LoopIsAThread == Loop \in Settings!Thread
BY DEF Settings!Thread

LEMMA SubmitStep == ASSUME SettingsInv, Settings!Submit PROVE SettingsInv'
<1>1. PICK form \in [Key -> Choice] :
        thread' = [thread EXCEPT ![Loop] = [Settings!AtRest EXCEPT !.pc = "active", !.form = form]]
  BY DEF Settings!Submit
<1> PICK c \in Call : c = [Settings!AtRest EXCEPT !.pc = "active", !.form = form]
  BY AtRestType DEF Call, PageAt
<1>2. c.pc = "active" /\ c.loaded = Settings!NoView /\ c.form = form
  BY AtRestType DEF Call
<1>3. UNCHANGED <<table, view, ago, cache>>
  BY DEF Settings!Submit
<1> QED BY <1>1, <1>2, <1>3, CallGoesOn, LoopIsAThread

LEMMA ResetStep == ASSUME SettingsInv, Settings!Reset PROVE SettingsInv'
<1>1. PICK k \in Key :
        thread' = [thread EXCEPT ![Loop] =
                     [Settings!AtRest EXCEPT !.pc = "check", !.key = k, !.form = File]]
  BY DEF Settings!Reset
<1> PICK c \in Call : c = [Settings!AtRest EXCEPT !.pc = "check", !.key = k, !.form = File]
  BY AtRestType, SettingsAssumption DEF Call, PageAt
<1>2. c.pc = "check" /\ c.loaded = Settings!NoView /\ c.form = File
  BY AtRestType DEF Call
<1>3. UNCHANGED <<table, view, ago, cache>>
  BY DEF Settings!Reset
<1> QED BY <1>1, <1>2, <1>3, CallGoesOn, LoopIsAThread, SettingsAssumption

LEMMA LoopCall ==
  ASSUME SettingsInv
  PROVE  /\ thread \in [Settings!Thread -> Call] /\ thread[Loop] \in Call
         /\ thread[Loop].pc \in PageAt => thread[Loop].form \in [Key -> Choice]
BY LoopIsAThread DEF SettingsInv, DataTypeOK, CallHolds

LEMMA CompareStep == ASSUME SettingsInv, Settings!Compare PROVE SettingsInv'
<1> DEFINE active == Settings!Obtained(Loop)
           form   == thread[Loop].form
           todo   == {k \in Key : /\ active[k] # form[k]
                                  /\ active[k] = Unset => File[k] # form[k]}
<1>1. /\ thread[Loop].pc = "active" /\ Settings!Obtain(Loop) /\ Settings!Quiet
      /\ thread' = [thread EXCEPT ![Loop] = [[thread[Loop] EXCEPT !.pc = "next", !.todo = todo]
                                                EXCEPT !.loaded = Settings!NoView]]
  BY DEF Settings!Compare, Settings!Proceed
<1>2. todo \in SUBSET Key
  OBVIOUS
<1> HIDE DEF todo
<1> PICK c \in Call : c = [[thread[Loop] EXCEPT !.pc = "next", !.todo = todo]
                              EXCEPT !.loaded = Settings!NoView]
  BY <1>2, LoopCall DEF Call, PageAt
<1>3. c.pc = "next" /\ c.loaded = Settings!NoView /\ c.form = thread[Loop].form
  BY LoopCall DEF Call
<1> QED BY <1>1, <1>3, CallObtains, LoopCall, LoopIsAThread DEF PageAt

LEMMA NextKeyStep == ASSUME SettingsInv, Settings!NextKey PROVE SettingsInv'
<1>1. thread[Loop].pc = "next" /\ UNCHANGED <<table, view, ago, cache>>
  BY DEF Settings!NextKey, Settings!Quiet
<1>2. CASE thread' = [thread EXCEPT ![Loop] = Settings!AtRest]
  <2> PICK c \in Call : c = Settings!AtRest
    BY AtRestType
  <2>1. c.pc = "idle" /\ c.loaded = Settings!NoView
    BY AtRestType
  <2> QED BY <1>1, <1>2, <2>1, CallGoesOn, LoopIsAThread DEF PageAt
<1>3. ASSUME NEW k \in thread[Loop].todo,
             thread' = [thread EXCEPT ![Loop].pc = IF Settings!Clears(k) THEN "check" ELSE "previous",
                                      ![Loop].key = k, ![Loop].todo = @ \ {k}]
      PROVE  SettingsInv'
  <2> PICK x \in {"check", "previous"} : x = IF Settings!Clears(k) THEN "check" ELSE "previous"
    OBVIOUS
  <2> DEFINE rest == thread[Loop].todo \ {k}
  <2>1. k \in Key /\ rest \in SUBSET Key
    BY LoopCall DEF Call
  <2>2. thread' = [thread EXCEPT ![Loop] = [thread[Loop] EXCEPT !.pc = x, !.key = k, !.todo = rest]]
    BY <1>3, LoopCall, LoopIsAThread DEF Call
  <2> HIDE DEF rest
  <2> PICK c \in Call : c = [thread[Loop] EXCEPT !.pc = x, !.key = k, !.todo = rest]
    BY <2>1, LoopCall DEF Call, PageAt
  <2>3. /\ c.pc = x /\ c.loaded = thread[Loop].loaded /\ c.read = thread[Loop].read
        /\ c.form = thread[Loop].form
    BY LoopCall DEF Call
  <2> QED BY <1>1, <2>2, <2>3, CallGoesOn, LoopCall, LoopIsAThread DEF PageAt
<1> QED BY <1>2, <1>3 DEF Settings!NextKey

LEMMA CheckStep == ASSUME SettingsInv, Settings!Check PROVE SettingsInv'
<1> PICK x \in {"next", "previous"} :
      x = IF Settings!Obtained(Loop)[thread[Loop].key] = Unset THEN "next" ELSE "previous"
  OBVIOUS
<1>1. /\ thread[Loop].pc = "check" /\ Settings!Obtain(Loop) /\ Settings!Quiet
      /\ thread' = [thread EXCEPT ![Loop] = [[thread[Loop] EXCEPT !.pc = x]
                                                EXCEPT !.loaded = Settings!NoView]]
  BY DEF Settings!Check, Settings!Proceed
<1> PICK c \in Call : c = [[thread[Loop] EXCEPT !.pc = x] EXCEPT !.loaded = Settings!NoView]
  BY LoopCall, Goes DEF PageAt
<1>2. c.pc = x /\ c.loaded = Settings!NoView /\ c.form = thread[Loop].form
  BY LoopCall DEF Call
<1> QED BY <1>1, <1>2, CallObtains, LoopCall, LoopIsAThread DEF PageAt

\* The value before, as it has just been obtained.
LEMMA PreviousStep == ASSUME SettingsInv, Settings!Previous PROVE SettingsInv'
<1> DEFINE key == thread[Loop].key
           v   == Settings!Obtained(Loop)[key]
<1>1. /\ thread[Loop].pc = "previous" /\ Settings!Obtain(Loop) /\ Settings!Quiet
      /\ thread' = [thread EXCEPT ![Loop] = [[thread[Loop] EXCEPT !.pc = "write", !.read = cache'.read,
                                                                 !.value = v]
                                                EXCEPT !.loaded = Settings!NoView]]
  BY DEF Settings!Previous, Settings!Proceed
<1>2. NothingFalls
  BY <1>1, QuietLetsNothingFall DEF SettingsInv, Settings!Quiet
<1>3. key \in Key
  BY LoopCall DEF Call
<1>4. v \in Settings!Override
  BY <1>1, <1>3, ObtainedType, LoopIsAThread
<1> PICK read \in BOOLEAN :
      /\ cache'.read = read
      /\ read => \A k \in Key : Settings!Behind(k, Settings!Obtained(Loop)[k]) < CacheTtl
  BY <1>1, <1>2, Obtains, LoopIsAThread
<1>5. read => Settings!Behind(key, v) < CacheTtl
  BY <1>3
<1> HIDE DEF v
<1> PICK c \in Call : c = [[thread[Loop] EXCEPT !.pc = "write", !.read = read, !.value = v]
                              EXCEPT !.loaded = Settings!NoView]
  BY <1>4, LoopCall DEF Call, PageAt
<1>6. /\ c.pc = "write" /\ c.loaded = Settings!NoView /\ c.form = thread[Loop].form
      /\ c.read = read /\ c.key = key /\ c.value = v
  BY LoopCall DEF Call
<1>7. thread' = [thread EXCEPT ![Loop] = c]
  BY <1>1
<1> QED BY <1>1, <1>5, <1>6, <1>7, CallObtains, LoopCall, LoopIsAThread DEF PageAt

\* A step of the page that ends the transaction.
LEMMA PageGoesOn ==
  ASSUME SettingsInv, thread[Loop].loaded = Settings!NoView, Settings!Remember,
         view' = Settings!NoView, table' \in Settings!Overrides, UNCHANGED cache,
         NEW c \in Call, thread' = [thread EXCEPT ![Loop] = c], c.loaded = Settings!NoView,
         c.pc \in PageAt => c.form \in [Key -> Choice],
         c.pc \in {"write", "audit"} /\ c.read => Settings!Behind(c.key, c.value) < CacheTtl
  PROVE  SettingsInv'
<1>1. NothingFalls /\ ago' \in [Key -> [Settings!Override -> Nat]]
  BY RememberLetsNothingFall DEF SettingsInv
<1>2. Settings!Behind(c.key, c.value)' <= Settings!Behind(c.key, c.value)
      /\ Settings!Behind(c.key, c.value)' \in Nat
  BY <1>1 DEF NothingFalls, Call
<1>3. Settings!Behind(c.key, c.value) \in Nat
  BY BehindType DEF SettingsInv, Call
<1>4. c.pc \in {"write", "audit"} /\ c.read => Settings!Behind(c.key, c.value)' < CacheTtl
  BY <1>2, <1>3, SettingsAssumption
<1>5. thread' \in [Settings!Thread -> Call] /\ CallHolds'
  BY <1>1, <1>4, CallMoves, LoopIsAThread
<1> QED BY <1>1, <1>5, CacheRests DEF SettingsInv, DataTypeOK

LEMMA WriteStep == ASSUME SettingsInv, Settings!Write PROVE SettingsInv'
<1>1. /\ thread[Loop].pc = "write" /\ thread[Loop].loaded = Settings!NoView
      /\ thread[Loop].read => Settings!Behind(thread[Loop].key, thread[Loop].value) < CacheTtl
      /\ thread[Loop].form \in [Key -> Choice]
  BY LoopIsAThread DEF Settings!Write, SettingsInv, CallHolds, PageAt
<1>2. view' = Settings!NoView /\ Settings!Remember /\ UNCHANGED cache
  BY DEF Settings!Write
<1>3. CASE /\ table' = [table EXCEPT ![thread[Loop].key] =
                          IF Settings!Clears(thread[Loop].key) THEN Unset
                          ELSE thread[Loop].form[thread[Loop].key]]
           /\ thread' = [thread EXCEPT ![Loop].pc = "audit"]
  <2>1. thread[Loop].key \in Key
    BY LoopCall DEF Call
  <2>2. table' \in Settings!Overrides
    BY <1>1, <1>3, <2>1 DEF SettingsInv, DataTypeOK, Settings!Overrides, Settings!Override
  <2> PICK c \in Call : c = [thread[Loop] EXCEPT !.pc = "audit"]
    BY LoopCall DEF Call, PageAt
  <2>3. /\ c.pc = "audit" /\ c.loaded = Settings!NoView /\ c.form = thread[Loop].form
        /\ c.read = thread[Loop].read /\ c.key = thread[Loop].key /\ c.value = thread[Loop].value
    BY <1>1, LoopCall DEF Call
  <2>4. thread' = [thread EXCEPT ![Loop] = c]
    BY <1>3
  <2> QED BY <1>1, <1>2, <2>2, <2>3, <2>4, PageGoesOn
<1>4. CASE thread' = [thread EXCEPT ![Loop] = Settings!AtRest] /\ UNCHANGED table
  <2> PICK c \in Call : c = Settings!AtRest
    BY AtRestType
  <2>1. c.pc = "idle" /\ c.loaded = Settings!NoView
    BY AtRestType
  <2>2. table' \in Settings!Overrides
    BY <1>4 DEF SettingsInv, DataTypeOK
  <2> QED BY <1>1, <1>2, <1>4, <2>1, <2>2, PageGoesOn DEF PageAt
<1> QED BY <1>3, <1>4 DEF Settings!Write

LEMMA AuditStep == ASSUME SettingsInv, Settings!Audit PROVE SettingsInv'
<1>1. /\ thread[Loop].pc = "audit" /\ thread[Loop].loaded = Settings!NoView
      /\ thread[Loop].form \in [Key -> Choice]
  BY LoopIsAThread DEF Settings!Audit, SettingsInv, CallHolds, PageAt
<1>2. /\ view' = Settings!NoView /\ Settings!Remember /\ UNCHANGED cache
      /\ table' \in Settings!Overrides /\ thread' = [thread EXCEPT ![Loop].pc = "invalidate"]
  BY DEF Settings!Audit, SettingsInv, DataTypeOK
<1> PICK c \in Call : c = [thread[Loop] EXCEPT !.pc = "invalidate"]
  BY LoopCall DEF Call, PageAt
<1>3. c.pc = "invalidate" /\ c.loaded = Settings!NoView /\ c.form = thread[Loop].form
  BY <1>1, LoopCall DEF Call
<1>4. thread' = [thread EXCEPT ![Loop] = c]
  BY <1>2
<1> QED BY <1>1, <1>2, <1>3, <1>4, PageGoesOn

LEMMA InvalidateStep == ASSUME SettingsInv, Settings!Invalidate PROVE SettingsInv'
<1>1. /\ thread[Loop].pc = "invalidate" /\ thread' = [thread EXCEPT ![Loop].pc = "next"]
      /\ cache' = [cache EXCEPT !.age = CacheTtl] /\ UNCHANGED <<table, view, ago>>
  BY DEF Settings!Invalidate, Settings!Quiet
<1>2. NothingFalls
  BY <1>1, QuietLetsNothingFall DEF SettingsInv
<1>3. cache' \in [values : Settings!Overrides, age : Nat, read : BOOLEAN] /\ cache'.age = CacheTtl
  BY <1>1, SettingsAssumption DEF SettingsInv, DataTypeOK
<1>4. CacheHolds'
  BY <1>3, SettingsAssumption DEF CacheHolds
<1> PICK c \in Call : c = [thread[Loop] EXCEPT !.pc = "next"]
  BY LoopCall DEF Call, PageAt
<1>5. /\ c.pc = "next" /\ c.loaded = thread[Loop].loaded /\ c.read = thread[Loop].read
      /\ c.form = thread[Loop].form
  BY LoopCall DEF Call
<1>6. thread' = [thread EXCEPT ![Loop] = c]
  BY <1>1
<1>7. ASSUME c.loaded # Settings!NoView, c.read, NEW k \in Key
      PROVE  Settings!Behind(k, c.loaded[k])' = 0
  <2>1. Settings!Behind(k, c.loaded[k]) = 0
    BY <1>5, <1>7, LoopIsAThread DEF SettingsInv, CallHolds
  <2> QED BY <1>1, <2>1, QuietKeeps
<1>8. c.form \in [Key -> Choice]
  BY <1>1, <1>5, LoopCall DEF PageAt
<1>9. thread' \in [Settings!Thread -> Call] /\ CallHolds'
  BY <1>2, <1>5, <1>6, <1>7, <1>8, CallMoves, LoopIsAThread
<1> QED BY <1>1, <1>3, <1>4, <1>9 DEF SettingsInv, DataTypeOK

\* What others write, and the end of a transaction.
LEMMA OutsideStep ==
  ASSUME SettingsInv, Settings!Elsewhere \/ Settings!Commit PROVE SettingsInv'
<1>1. /\ Settings!Remember /\ UNCHANGED <<cache, thread>>
      /\ view' \in {Settings!NoView} \cup Settings!Overrides
  BY DEF Settings!Elsewhere, Settings!Commit, SettingsInv, DataTypeOK
<1>2. table' \in Settings!Overrides
  BY DEF Settings!Elsewhere, Settings!Commit, SettingsInv, DataTypeOK, Settings!Overrides
<1>3. NothingFalls /\ ago' \in [Key -> [Settings!Override -> Nat]]
  BY <1>1, <1>2, RememberLetsNothingFall DEF SettingsInv
<1>4. CacheHolds' /\ CallHolds'
  BY <1>1, <1>3, CacheRests, CallsRest
<1> QED BY <1>1, <1>2, <1>3, <1>4 DEF SettingsInv, DataTypeOK

LEMMA RestartStep == ASSUME SettingsInv, Settings!RestartProcess PROVE SettingsInv'
<1>1. /\ Settings!Remember /\ view' = Settings!NoView /\ UNCHANGED table
      /\ cache' = [values |-> Settings!Nothing, age |-> CacheTtl, read |-> TRUE]
      /\ thread' = [t \in Settings!Thread |-> Settings!AtRest]
  BY DEF Settings!RestartProcess
<1>2. ago' \in [Key -> [Settings!Override -> Nat]]
  BY <1>1, RememberKeeps DEF SettingsInv
<1>3. Settings!Nothing \in Settings!Overrides
  BY DEF Settings!Nothing, Settings!Overrides, Settings!Override
<1>4. cache' \in [values : Settings!Overrides, age : Nat, read : BOOLEAN] /\ ~(cache'.age < CacheTtl)
  BY <1>1, <1>3, SettingsAssumption
<1>5. /\ thread' \in [Settings!Thread -> Call]
      /\ \A t \in Settings!Thread : thread'[t].pc = "idle" /\ thread'[t].loaded = Settings!NoView
  BY <1>1, AtRestType
<1>6. CacheHolds' /\ CallHolds'
  BY <1>4, <1>5 DEF CacheHolds, CallHolds, PageAt
<1> QED BY <1>1, <1>2, <1>4, <1>5, <1>6 DEF SettingsInv, DataTypeOK

\* Time passes only between loads and between writes, and for the copy as for what is in it.
LEMMA SettingsTick == ASSUME SettingsInv, Settings!Tick PROVE SettingsInv'
<1>1. /\ \A t \in Settings!Thread : thread[t].loaded = Settings!NoView
      /\ thread[Loop].pc \notin {"write", "audit"}
      /\ UNCHANGED <<table, view, thread>>
      /\ cache' = [cache EXCEPT !.age = IF Settings!Fresh THEN @ + 1 ELSE @]
      /\ ago' = [k \in Key |-> [v \in Settings!Override |->
                   IF v = Settings!Visible[k] THEN 0
                   ELSE IF ago[k][v] < CacheTtl THEN ago[k][v] + 1 ELSE CacheTtl]]
  BY DEF Settings!Tick
<1>2. CacheTtl \in Nat /\ \A k \in Key, v \in Settings!Override : ago[k][v] \in Nat
  BY SettingsAssumption DEF SettingsInv, DataTypeOK
<1>3. ago' \in [Key -> [Settings!Override -> Nat]]
  BY <1>1, <1>2
<1>4. ASSUME NEW k \in Key, NEW v \in Settings!Override
      PROVE  /\ Settings!Behind(k, v)' <= Settings!Behind(k, v) + 1
             /\ Settings!Behind(k, v)' \in Nat
  <2>1. Settings!Visible' = Settings!Visible
    BY <1>1 DEF Settings!Visible
  <2>2. CASE v = Settings!Visible[k]
    BY <2>1, <2>2 DEF Settings!Behind
  <2>3. CASE v # Settings!Visible[k]
    <3>1. ago'[k][v] = IF ago[k][v] < CacheTtl THEN ago[k][v] + 1 ELSE CacheTtl
      BY <1>1, <2>3
    <3>2. Settings!Behind(k, v)' = ago'[k][v] /\ Settings!Behind(k, v) = ago[k][v]
      BY <2>1, <2>3 DEF Settings!Behind
    <3> QED BY <1>2, <3>1, <3>2
  <2> QED BY <2>2, <2>3
<1>5. cache \in [values : Settings!Overrides, age : Nat, read : BOOLEAN]
  BY DEF SettingsInv, DataTypeOK
<1>6. /\ cache'.values = cache.values /\ cache'.read = cache.read
      /\ cache'.age = IF cache.age < CacheTtl THEN cache.age + 1 ELSE cache.age
      /\ cache' \in [values : Settings!Overrides, age : Nat, read : BOOLEAN]
  BY <1>1, <1>5 DEF Settings!Fresh
<1>7. CacheHolds'
  <2> SUFFICES ASSUME cache'.age < CacheTtl, cache'.read, NEW k \in Key
               PROVE  Settings!Behind(k, cache.values[k])' <= cache'.age
    BY <1>6 DEF CacheHolds
  <2>1. cache.age < CacheTtl /\ cache'.age = cache.age + 1 /\ cache.age \in Nat
    BY <1>2, <1>5, <1>6
  <2>2. Settings!Behind(k, cache.values[k]) <= cache.age
    BY <1>6, <2>1 DEF SettingsInv, CacheHolds
  <2> PICK v \in Settings!Override : v = cache.values[k]
    BY <1>5 DEF Settings!Overrides
  <2>3. Settings!Behind(k, v)' <= Settings!Behind(k, v) + 1 /\ Settings!Behind(k, v)' \in Nat
        /\ Settings!Behind(k, v) \in Nat
    BY <1>4, BehindType DEF SettingsInv
  <2>4. v = cache'.values[k]
    BY <1>6
  <2> QED BY <2>1, <2>2, <2>3, <2>4, <1>6
<1>8. CallHolds'
  BY <1>1 DEF SettingsInv, CallHolds
<1> QED BY <1>1, <1>3, <1>6, <1>7, <1>8 DEF SettingsInv, DataTypeOK

LEMMA SettingsPreserved ==
  ASSUME SettingsInv, [Settings!Next]_settingsVars PROVE SettingsInv'
<1>1. CASE UNCHANGED settingsVars
  <2>1. NothingFalls
    BY <1>1, QuietLetsNothingFall DEF SettingsInv, settingsVars
  <2> QED BY <1>1, <2>1, CacheRests, CallsRest DEF SettingsInv, DataTypeOK, settingsVars
<1>2. ASSUME NEW t \in Reader, Settings!Ask(t) \/ Settings!Call(t) PROVE SettingsInv'
  <2>1. t \in Settings!Thread
    BY DEF Settings!Thread
  <2> QED BY <1>2, <2>1, AskStep, LoadStep, HasStep, GetStep DEF Settings!Call
<1>3. CASE Settings!Save
  BY <1>3, LoopIsAThread, LoadStep, CompareStep, NextKeyStep, CheckStep, PreviousStep, WriteStep,
     AuditStep, InvalidateStep DEF Settings!Save
<1> QED BY <1>1, <1>2, <1>3, SubmitStep, ResetStep, OutsideStep, RestartStep, SettingsTick
        DEF Settings!Next

-----------------------------------------------------------------------------
(* ServiceNow's pages: what a walk has seen is what precedes its offset.    *)

SnowTypeOK ==
    /\ matching \in Seq(Row) /\ counted \in BOOLEAN
    /\ walk \in [pc : {"idle", "walking", "done"}, offset : Nat, total : Nat, seen : Seq(Row)]

\* The rows before an offset.
Before(offset) == SubSeq(matching, 1, Snow!Upto(offset))

SeenHolds ==
    walk.pc \in {"walking", "done"} /\ ~changed => walk.seen = Selected(Before(walk.offset), readable)

\* Where the count is sent, it is what ends a walk.
EndHolds ==
    walk.pc = "done" /\ ~changed /\ counted /\ Len(matching) <= MaxOffset
        => walk.offset >= Len(matching)

SnowInv == SnowTypeOK /\ SeenHolds /\ EndHolds

LEMMA AllowedIsSelected ==
  ASSUME NEW rows
  PROVE  Snow!Allowed(rows) = Selected(rows, readable)
BY DEF Snow!Allowed, Snow!Those, Snow!FoldLeft, Snow!MapThenFoldSet, Snow!Max, Selected, Selecting, Largest

LEMMA SnowBounds == PageSize \in Nat /\ MaxOffset \in Nat /\ Snow!NoTotal \in Nat
BY SnowAssumption DEF Snow!NoTotal

LEMMA UptoType ==
  ASSUME matching \in Seq(Row), NEW offset \in Nat
  PROVE  /\ Snow!Upto(offset) \in 0..Len(matching)
         /\ offset >= Len(matching) => Snow!Upto(offset) = Len(matching)
<1>1. Len(matching) \in Nat
  BY LenProperties
<1> QED BY <1>1 DEF Snow!Upto

LEMMA PieceType ==
  ASSUME NEW s \in Seq(Row), NEW i \in Nat \ {0}, NEW j \in 0..Len(s)
  PROVE  SubSeq(s, i, j) \in Seq(Row)
<1>1. Len(s) \in Nat
  BY LenProperties
<1>2. i \in Int /\ j \in Int
  BY <1>1
<1>3. \A k \in i..j : s[k] \in Row
  BY <1>1, ElementOfSeq
<1> QED BY <1>2, <1>3, SubSeqProperties

\* A page continues what was seen.
LEMMA PageContinues ==
  ASSUME matching \in Seq(Row), NEW offset \in Nat
  PROVE  /\ Snow!Window(offset) \in Seq(Row) /\ Before(offset) \in Seq(Row)
         /\ Before(offset + PageSize) = Before(offset) \o Snow!Window(offset)
<1> DEFINE n == Len(matching)
           a == Snow!Upto(offset)
           b == Snow!Upto(offset + PageSize)
<1>1. n \in Nat /\ PageSize \in Nat
  BY LenProperties, SnowBounds
<1>2. a \in 0..n /\ b \in 0..n /\ a <= b
  BY <1>1 DEF Snow!Upto
<1>3. offset < n => a = offset
  BY <1>1 DEF Snow!Upto
<1>4. ~(offset < n) => a = n /\ b = n /\ b < offset + 1
  BY <1>1 DEF Snow!Upto
<1>5. Before(offset) = SubSeq(matching, 1, a) /\ Before(offset + PageSize) = SubSeq(matching, 1, b)
      /\ Snow!Window(offset) = SubSeq(matching, offset + 1, b)
  BY DEF Before, Snow!Window
<1>6. SubSeq(matching, 1, a) \in Seq(Row)
  <2> HIDE DEF a, b
  <2> QED BY <1>1, <1>2, PieceType
<1>7. SubSeq(matching, offset + 1, b) \in Seq(Row)
  <2>1. offset + 1 \in Nat \ {0}
    OBVIOUS
  <2> HIDE DEF a, b
  <2> QED BY <1>2, <2>1, PieceType
<1>8. SubSeq(matching, 1, a) \o SubSeq(matching, a + 1, b) = SubSeq(matching, 1, b)
  <2>1. 1 \in 1..n + 1 /\ a \in 1 - 1..n /\ b \in a..n
    BY <1>1, <1>2
  <2> HIDE DEF a, b
  <2> QED BY <2>1, ConcatAdjacentSubSeq DEF n
<1>9. SubSeq(matching, a + 1, b) = SubSeq(matching, offset + 1, b)
  <2>1. CASE offset < n
    BY <1>3, <2>1
  <2>2. CASE ~(offset < n)
    <3>1. a + 1 \in Int /\ b \in Int /\ b < a + 1 /\ offset + 1 \in Int /\ b < offset + 1
      BY <1>1, <1>2, <1>4, <2>2
    <3> HIDE DEF a, b
    <3>2. SubSeq(matching, a + 1, b) = <<>>
      BY <3>1, SubSeqEmpty
    <3>3. SubSeq(matching, offset + 1, b) = <<>>
      BY <3>1, SubSeqEmpty
    <3> QED BY <3>2, <3>3
  <2> QED BY <2>1, <2>2
<1> HIDE DEF a, b
<1> QED BY <1>5, <1>6, <1>7, <1>8, <1>9

LEMMA SnowCount == \A S : Snow!Cardinality(S) = Cardinality(S)
BY DEF Snow!Cardinality, Cardinality, Snow!IsFiniteSet, IsFiniteSet

LEMMA SnowStart == ASSUME Snow!Init PROVE SnowInv
<1>1. matching \in Seq(Row)
  <2>1. Cardinality(Row) \in Nat
    BY SnowAssumption, FS_CardinalityType
  <2>2. matching \in [1..Cardinality(Row) -> Row]
    BY SnowCount DEF Snow!Init
  <2> QED BY <2>1, <2>2
<1>2. walk = [pc |-> "idle", offset |-> 0, total |-> Snow!NoTotal, seen |-> <<>>] /\ counted \in BOOLEAN
  BY DEF Snow!Init, Snow!AtRest
<1> QED BY <1>1, <1>2, SnowBounds DEF SnowInv, SnowTypeOK, SeenHolds, EndHolds

LEMMA TableWritten ==
  ASSUME SnowInv, Snow!Inserted \/ Snow!Removed
  PROVE  SnowInv'
<1>1. changed' = TRUE /\ UNCHANGED <<readable, counted, walk>>
  BY DEF Snow!Inserted, Snow!Removed
<1>2. matching' \in Seq(Row)
  <2>1. matching \in Seq(Row) /\ Len(matching) \in Nat
    BY LenProperties DEF SnowInv, SnowTypeOK
  <2>2. CASE Snow!Inserted
    <3>1. PICK r \in Row, i \in 1..Len(matching) + 1 : matching' = Snow!InsertAt(matching, i, r)
      BY <2>2 DEF Snow!Inserted
    <3> DEFINE front == SubSeq(matching, 1, i - 1)
               back == SubSeq(matching, i, Len(matching))
               one == <<r>>
    <3>2. matching' = front \o one \o back
      BY <3>1 DEF Snow!InsertAt
    <3>3. i - 1 \in 0..Len(matching) /\ i \in Nat \ {0} /\ Len(matching) \in 0..Len(matching)
      BY <2>1
    <3>4. front \in Seq(Row)
      BY <2>1, <3>3, PieceType
    <3>5. back \in Seq(Row)
      BY <2>1, <3>3, PieceType
    <3>6. one \in Seq(Row)
      OBVIOUS
    <3> HIDE DEF front, back, one
    <3>7. front \o one \in Seq(Row)
      BY <3>4, <3>6, ConcatProperties
    <3> QED BY <3>2, <3>5, <3>7, ConcatProperties
  <2>3. CASE Snow!Removed
    <3>1. PICK i \in 1..Len(matching) : matching' = Snow!RemoveAt(matching, i)
      BY <2>3 DEF Snow!Removed
    <3> DEFINE front == SubSeq(matching, 1, i - 1)
               back == SubSeq(matching, i + 1, Len(matching))
    <3>2. matching' = front \o back
      BY <3>1 DEF Snow!RemoveAt
    <3>3. i - 1 \in 0..Len(matching) /\ i + 1 \in Nat \ {0} /\ Len(matching) \in 0..Len(matching)
      BY <2>1
    <3>4. front \in Seq(Row)
      BY <2>1, <3>3, PieceType
    <3>5. back \in Seq(Row)
      BY <2>1, <3>3, PieceType
    <3> HIDE DEF front, back
    <3> QED BY <3>2, <3>4, <3>5, ConcatProperties
  <2> QED BY <2>2, <2>3
<1> QED BY <1>1, <1>2 DEF SnowInv, SnowTypeOK, SeenHolds, EndHolds

LEMMA StartKeeps ==
  ASSUME SnowInv, Snow!Start
  PROVE  SnowInv'
<1>1. walk' = [pc |-> "walking", offset |-> 0, total |-> Snow!NoTotal, seen |-> <<>>]
      /\ UNCHANGED <<matching, readable, counted>>
  BY DEF Snow!Start, Snow!AtRest
<1>2. Selected(Before(0), readable)' = <<>>
  <2>1. matching \in Seq(Row) /\ Len(matching) \in Nat
    BY LenProperties DEF SnowInv, SnowTypeOK
  <2>2. Snow!Upto(0) = 0
    BY <2>1 DEF Snow!Upto
  <2>3. Before(0) = <<>>
    BY <2>2, SubSeqEmpty DEF Before
  <2>4. Before(0)' = Before(0)
    BY <1>1 DEF Before, Snow!Upto
  <2>5. Selected(<<>>, readable) = <<>>
    <3> DEFINE f == [k \in 0..0 |-> <<>>]
    <3>1. Selects(<<>>, readable, f)
      BY DEF Selects
    <3>2. <<>> \in Seq(Row) /\ Len(<<>>) = 0 /\ f[0] = <<>>
      OBVIOUS
    <3> HIDE DEF f
    <3> QED BY <3>1, <3>2, SelectsOnce
  <2> QED BY <1>1, <2>3, <2>4, <2>5
<1> QED BY <1>1, <1>2, SnowBounds DEF SnowInv, SnowTypeOK, SeenHolds, EndHolds

LEMMA PageKeeps ==
  ASSUME SnowInv, Snow!FetchPage
  PROVE  SnowInv'
<1>1. PICK o \in Nat : o = walk.offset
  BY DEF SnowInv, SnowTypeOK
<1>2. matching \in Seq(Row) /\ Len(matching) \in Nat /\ walk.seen \in Seq(Row) /\ walk.pc = "walking"
      /\ Snow!Total \in Nat /\ counted \in BOOLEAN
  BY LenProperties DEF SnowInv, SnowTypeOK, Snow!FetchPage, Snow!Total
<1> DEFINE page == Snow!Page(o)
           last == Snow!IsLast(page, o + PageSize, Snow!Total) \/ o + PageSize >= MaxOffset
<1>3. /\ walk' = [pc |-> IF last THEN "done" ELSE "walking", offset |-> o + PageSize,
                  total |-> Snow!Total, seen |-> walk.seen \o page]
      /\ UNCHANGED <<matching, readable, counted, changed>>
  BY <1>1 DEF Snow!FetchPage
<1>4. page = Selected(Snow!Window(o), readable)
  BY AllowedIsSelected DEF Snow!Page
<1>5. Snow!Window(o) \in Seq(Row) /\ Before(o) \in Seq(Row)
      /\ Before(o + PageSize) = Before(o) \o Snow!Window(o)
  BY <1>2, PageContinues
<1>6. page \in Seq(Row)
  BY <1>4, <1>5, SelectedType
<1>7. last /\ counted /\ Len(matching) <= MaxOffset => o + PageSize >= Len(matching)
  <2> HIDE DEF page
  <2> QED BY <1>2, SnowBounds DEF Snow!IsLast, Snow!Total, Snow!NoTotal
<1>8. ~changed => walk.seen \o page = Selected(Before(o + PageSize), readable)
  <2>1. ~changed => walk.seen = Selected(Before(o), readable)
    BY <1>1, <1>2 DEF SnowInv, SeenHolds
  <2>2. Selected(Before(o) \o Snow!Window(o), readable)
          = Selected(Before(o), readable) \o Selected(Snow!Window(o), readable)
    BY <1>5, SelectedConcat
  <2> QED BY <1>4, <1>5, <2>1, <2>2
<1>9. Selected(Before(o + PageSize), readable)' = Selected(Before(o + PageSize), readable)
  BY <1>3 DEF Before, Snow!Upto
<1> HIDE DEF page, last
<1>10. o + PageSize \in Nat /\ walk.seen \o page \in Seq(Row)
  BY <1>2, <1>6, SnowBounds, ConcatProperties
<1>11. walk'.pc \in {"walking", "done"} /\ (walk'.pc = "done" => last)
       /\ walk'.offset = o + PageSize /\ walk'.seen = walk.seen \o page
  BY <1>3
<1>12. SnowTypeOK'
  BY <1>2, <1>3, <1>10 DEF SnowTypeOK
<1>13. SeenHolds'
  BY <1>3, <1>8, <1>9, <1>11 DEF SeenHolds
<1>14. EndHolds'
  BY <1>3, <1>7, <1>11 DEF EndHolds
<1> QED BY <1>12, <1>13, <1>14 DEF SnowInv

LEMMA SnowPreserved == ASSUME SnowInv, [Snow!Next]_snowVars PROVE SnowInv'
<1>1. CASE Snow!PageFails
  BY <1>1, SnowBounds DEF SnowInv, SnowTypeOK, SeenHolds, EndHolds, Snow!PageFails, Snow!AtRest
<1>2. CASE UNCHANGED snowVars
  <2>1. UNCHANGED <<matching, readable, counted, walk, changed>>
    BY <1>2 DEF snowVars
  <2>2. Before(walk.offset)' = Before(walk.offset)
    BY <2>1 DEF Before, Snow!Upto
  <2> QED BY <2>1, <2>2 DEF SnowInv, SnowTypeOK, SeenHolds, EndHolds
<1> QED BY <1>1, <1>2, TableWritten, StartKeeps, PageKeeps DEF Snow!Next

LEMMA WalkWhole == ASSUME SnowInv PROVE Snow!WalkIsWhole
<1> SUFFICES ASSUME walk.pc = "done", ~changed, Len(matching) <= MaxOffset, counted
             PROVE  walk.seen = Snow!Allowed(matching)
  BY DEF Snow!WalkIsWhole
<1>1. matching \in Seq(Row) /\ walk.offset \in Nat
  BY DEF SnowInv, SnowTypeOK
<1>2. Snow!Upto(walk.offset) = Len(matching)
  BY <1>1, UptoType DEF SnowInv, EndHolds
<1>3. Before(walk.offset) = matching
  BY <1>1, <1>2, SubSeqFull DEF Before
<1> QED BY <1>3, AllowedIsSelected DEF SnowInv, SeenHolds

-----------------------------------------------------------------------------
(* Cards: what they are made of.                                            *)

Values == Content \cup {Empty, AtFirst, "words"}

Entry == [when : Nat, actor : Actor, field : Field, old : Values, new : Values]

Card ==
  [kind : {"comment", "work_note", "field_changes"}, when : Nat, actor : Actor,
   changes : [Field -> [value : Values, previous : Values]], fields : SUBSET Field]

OnPage   == {e \in Entry : e.field \in Readable}
Said     == {e \in Entry : e.field \in Cards!Journal}
Journals == {c \in Card : c.kind # "field_changes"}

LEMMA KindOf ==
  ASSUME NEW f
  PROVE  /\ Cards!CardKind(f) \in {"comment", "work_note", "field_changes"}
         /\ Cards!CardKind(f) = "field_changes" <=> f \notin Cards!Journal
BY DEF Cards!CardKind, Cards!Journal

LEMMA NewCardType ==
  ASSUME NEW e \in Entry
  PROVE  LET c == Cards!NewCard(e)
         IN  /\ c \in Card /\ c.fields = {} /\ c.kind = Cards!CardKind(e.field)
             /\ c.when = e.when /\ c.actor = e.actor
<1>1. Cards!NoChange \in [value : Values, previous : Values]
  BY DEF Cards!NoChange, Values
<1>2. Cards!CardKind(e.field) \in {"comment", "work_note", "field_changes"}
  BY KindOf
<1>3. e.when \in Nat /\ e.actor \in Actor
  BY DEF Entry
<1> QED BY <1>1, <1>2, <1>3 DEF Cards!NewCard, Card

LEMMA IntoGives ==
  ASSUME NEW c \in Card, NEW e \in Entry
  PROVE  LET i == Cards!Into(c, e)
         IN  /\ i \in Card /\ i.kind = c.kind /\ i.when = c.when /\ i.actor = c.actor
             /\ c.kind # "field_changes" => i = c
             /\ c.kind = "field_changes" =>
                  /\ i.fields = c.fields \cup {e.field}
                  /\ i.changes[e.field].value = e.new
                  /\ i.changes[e.field].previous =
                       IF e.field \in c.fields /\ c.changes[e.field].previous # Empty
                       THEN c.changes[e.field].previous ELSE e.old
                  /\ \A f \in Field \ {e.field} : i.changes[f] = c.changes[f]
<1> DEFINE i == Cards!Into(c, e)
           ch == Cards!Change(c.changes[e.field], e.field \in c.fields, e)
<1>1. CASE c.kind # "field_changes"
  BY <1>1 DEF Cards!Into
<1>2. CASE c.kind = "field_changes"
  <2>1. e.field \in Field /\ e.old \in Values /\ e.new \in Values
    BY DEF Entry
  <2>2. /\ c.changes \in [Field -> [value : Values, previous : Values]] /\ c.fields \subseteq Field
        /\ c.when \in Nat /\ c.actor \in Actor
    BY DEF Card
  <2>3. c.changes[e.field] \in [value : Values, previous : Values]
    BY <2>1, <2>2
  <2>4. /\ ch \in [value : Values, previous : Values] /\ ch.value = e.new
        /\ ch.previous = IF e.field \in c.fields /\ c.changes[e.field].previous # Empty
                         THEN c.changes[e.field].previous ELSE e.old
    BY <2>1, <2>3 DEF Cards!Change
  <2>5. i = [c EXCEPT !.changes = [c.changes EXCEPT ![e.field] = ch],
                      !.fields = c.fields \cup {e.field}]
    BY <1>2 DEF Cards!Into
  <2> HIDE DEF ch
  <2> DEFINE chs == [c.changes EXCEPT ![e.field] = ch]
             fs == c.fields \cup {e.field}
  <2>6. /\ chs \in [Field -> [value : Values, previous : Values]] /\ chs[e.field] = ch
        /\ \A f \in Field \ {e.field} : chs[f] = c.changes[f]
    BY <2>1, <2>2, <2>4
  <2>7. fs \in SUBSET Field
    BY <2>1, <2>2
  <2>8. i = [c EXCEPT !.changes = chs, !.fields = fs]
    BY <2>5
  <2> HIDE DEF chs, fs, i
  <2>9. i.kind = c.kind /\ i.when = c.when /\ i.actor = c.actor /\ i.changes = chs /\ i.fields = fs /\ i \in Card
    BY <2>6, <2>7, <2>8 DEF Card
  <2> QED BY <1>2, <2>4, <2>6, <2>9 DEF fs, i
<1> QED BY <1>1, <1>2

\* What an entry does to the cards there are.
Merged(g, e) ==
  /\ Cards!CardKind(e.field) = "field_changes" /\ e.field \notin Hidden /\ g # <<>>
  /\ LET c == g[Len(g)]
     IN  /\ c.kind = "field_changes" /\ c.when = e.when /\ c.actor = e.actor
         /\ Cards!Add(g, e) = [g EXCEPT ![Len(g)] = Cards!Into(c, e)]

Begun(g, e) ==
  /\ Cards!CardKind(e.field) = "field_changes" => e.field \notin Hidden
  /\ Cards!Add(g, e) = Append(g, Cards!Into(Cards!NewCard(e), e))

Passed(g, e) ==
  Cards!CardKind(e.field) = "field_changes" /\ e.field \in Hidden /\ Cards!Add(g, e) = g

LEMMA AddDoes ==
  ASSUME NEW g \in Seq(Card), NEW e \in Entry
  PROVE  Merged(g, e) \/ Begun(g, e) \/ Passed(g, e)
BY DEF Merged, Begun, Passed, Cards!Add, Cards!Mergeable, Cards!Last

LEMMA MergedGives ==
  ASSUME NEW g \in Seq(Card), NEW e \in Entry, Merged(g, e)
  PROVE  LET n == Len(g)
         IN  /\ n \in Nat \ {0} /\ g[n] \in Card /\ Cards!Into(g[n], e) \in Card
             /\ Cards!Add(g, e) \in Seq(Card) /\ Len(Cards!Add(g, e)) = n
             /\ Cards!Add(g, e)[n] = Cards!Into(g[n], e)
             /\ \A i \in 1..(n - 1) : Cards!Add(g, e)[i] = g[i]
<1> DEFINE n == Len(g)
<1>1. n \in Nat /\ g # <<>>
  BY LenProperties DEF Merged
<1>2. n \in Nat \ {0}
  BY <1>1, EmptySeq
<1>3. n \in 1..n
  BY <1>2
<1>4. g[n] \in Card
  BY <1>3, ElementOfSeq
<1>5. PICK c \in Card : c = Cards!Into(g[n], e)
  BY <1>4, IntoGives
<1>6. Cards!Add(g, e) = [g EXCEPT ![n] = c]
  BY <1>5 DEF Merged
<1> HIDE DEF n
<1>7. /\ [g EXCEPT ![n] = c] \in Seq(Card) /\ Len([g EXCEPT ![n] = c]) = Len(g)
      /\ \A j \in 1..Len(g) : [g EXCEPT ![n] = c][j] = IF j = n THEN c ELSE g[j]
  BY <1>3, ExceptSeq DEF n
<1>8. \A i \in 1..(n - 1) : i \in 1..n /\ i # n
  BY <1>2
<1> QED BY <1>2, <1>3, <1>4, <1>5, <1>6, <1>7, <1>8 DEF n

LEMMA BegunGives ==
  ASSUME NEW g \in Seq(Card), NEW e \in Entry, Begun(g, e)
  PROVE  LET n == Len(g)
             c == Cards!Into(Cards!NewCard(e), e)
         IN  /\ n \in Nat /\ c \in Card
             /\ Cards!Add(g, e) \in Seq(Card) /\ Len(Cards!Add(g, e)) = n + 1
             /\ Cards!Add(g, e)[n + 1] = c
             /\ \A i \in 1..n : Cards!Add(g, e)[i] = g[i]
<1>1. PICK b \in Card : b = Cards!NewCard(e)
  BY NewCardType
<1>2. PICK c \in Card : c = Cards!Into(b, e)
  BY IntoGives
<1>3. Cards!Add(g, e) = Append(g, c)
  BY <1>1, <1>2 DEF Begun
<1>4. Len(g) \in Nat
  BY LenProperties
<1> QED BY <1>1, <1>2, <1>3, <1>4, AppendProperties

LEMMA AddType ==
  ASSUME NEW g \in Seq(Card), NEW e \in Entry
  PROVE  Cards!Add(g, e) \in Seq(Card)
BY AddDoes, MergedGives, BegunGives DEF Passed

-----------------------------------------------------------------------------
(* Cards: one entry after the other.                                        *)

Grouping(t, h) ==
  h = [u \in SUBSET DOMAIN t |->
         IF u = {} THEN <<>> ELSE Cards!Add(h[u \ {Largest(u)}], t[Largest(u)])]

\* The cards before they are netted.
Groups(t) == (CHOOSE h : Grouping(t, h))[DOMAIN t]

Gathers(t, f) == f[0] = <<>> /\ \A k \in 0..(Len(t) - 1) : f[k + 1] = Cards!Add(f[k], t[k + 1])

LEMMA GroupsInSteps ==
  ASSUME NEW t \in Seq(Entry)
  PROVE  \E f \in [0..Len(t) -> Seq(Card)] : Gathers(t, f) /\ f[Len(t)] = Groups(t)
<1> DEFINE n == Len(t)
           R == Seq(Card)
           step == [q \in R \X (1..n) |-> Cards!Add(q[1], t[q[2]])]
           h == CHOOSE h : Grouping(t, h)
<1>1. n \in Nat /\ DOMAIN t = 1..n /\ \A i \in 1..n : t[i] \in Entry
  BY LenProperties, ElementOfSeq
<1>2. step \in [R \X (1..n) -> R]
  <2>1. ASSUME NEW x \in R, NEW i \in 1..n PROVE Cards!Add(x, t[i]) \in R
    BY <1>1, <2>1, AddType
  <2> QED BY <2>1
<1>3. \A x \in R, i \in 1..n : step[<<x, i>>] = Cards!Add(x, t[i])
  OBVIOUS
<1>4. \A u \in SUBSET (1..n) : u # {} => Largest(u) \in 1..n /\ u \ {Largest(u)} \in SUBSET (1..n)
  BY <1>1, LargestIn
<1>5. <<>> \in R
  OBVIOUS
<1> HIDE DEF step, n, R
<1>6. PICK g \in [SUBSET (1..n) -> R] : Runs(<<>>, step, n, g)
  BY <1>1, <1>2, <1>5, RunsExist
<1>7. Grouping(t, g)
  <2>1. ASSUME NEW u \in SUBSET (1..n), u # {}
        PROVE  g[u] = Cards!Add(g[u \ {Largest(u)}], t[Largest(u)])
    BY <1>3, <1>4, <1>6, <2>1 DEF Runs
  <2>2. g = [u \in SUBSET (1..n) |-> g[u]] /\ g[{}] = <<>>
    BY <1>6 DEF Runs
  <2> QED BY <1>1, <2>1, <2>2 DEF Grouping
<1>8. Grouping(t, h)
  BY <1>7
<1>9. Groups(t) = h[1..n]
  BY <1>1 DEF Groups
<1> HIDE DEF h
<1>10. Takes(<<>>, step, n, R, h)
  BY <1>1, <1>3, <1>4, <1>8 DEF Takes, Grouping
<1>11. n \in Nat
  BY <1>1
<1>12. InSteps(<<>>, step, n, R, h[1..n])
  BY <1>11, <1>2, <1>5, <1>10, RunSteps
<1>13. PICK f \in [0..n -> R] : /\ f[0] = <<>> /\ f[n] = h[1..n]
                                /\ \A k \in 0..(n - 1) : f[k + 1] = step[<<f[k], k + 1>>]
  BY <1>12 DEF InSteps
<1>14. ASSUME NEW k \in 0..(n - 1)
       PROVE  f[k + 1] = Cards!Add(f[k], t[k + 1])
  <2>1. f[k] \in R /\ k + 1 \in 1..n
    BY <1>1, <1>13
  <2> QED BY <1>3, <1>13, <2>1
<1> QED BY <1>9, <1>13, <1>14 DEF n, R, Gathers

LEMMA GroupsType ==
  ASSUME NEW t \in Seq(Entry)
  PROVE  Groups(t) \in Seq(Card)
<1>1. PICK f \in [0..Len(t) -> Seq(Card)] : Gathers(t, f) /\ f[Len(t)] = Groups(t)
  BY GroupsInSteps
<1>2. Len(t) \in 0..Len(t)
  BY LenProperties
<1> QED BY <1>1, <1>2

LEMMA GroupsOfNone == Groups(<<>>) = <<>>
<1>1. <<>> \in Seq(Entry) /\ Len(<<>>) = 0
  OBVIOUS
<1>2. PICK f \in [0..Len(<<>>) -> Seq(Card)] : Gathers(<<>>, f) /\ f[Len(<<>>)] = Groups(<<>>)
  BY <1>1, GroupsInSteps
<1> QED BY <1>1, <1>2 DEF Gathers

LEMMA GroupsAppend ==
  ASSUME NEW t \in Seq(Entry), NEW e \in Entry
  PROVE  Groups(Append(t, e)) = Cards!Add(Groups(t), e)
<1> DEFINE n == Len(t)
           a == Append(t, e)
<1>1. n \in Nat /\ a \in Seq(Entry) /\ Len(a) = n + 1 /\ (\A i \in 1..n : a[i] = t[i]) /\ a[n + 1] = e
  BY LenProperties, AppendProperties
<1>2. PICK f \in [0..n -> Seq(Card)] : Gathers(t, f) /\ f[n] = Groups(t)
  BY GroupsInSteps
<1> HIDE DEF a
<1>3. PICK g \in [0..(n + 1) -> Seq(Card)] : Gathers(a, g) /\ g[n + 1] = Groups(a)
  BY <1>1, GroupsInSteps
<1> DEFINE K == {k \in 0..n : f[k] = g[k]}
<1>4. 0 \in K
  BY <1>1, <1>2, <1>3 DEF Gathers
<1>5. ASSUME NEW k \in K, k < n PROVE k + 1 \in K
  <2>1. k \in 0..n /\ f[k] = g[k]
    OBVIOUS
  <2>2. k \in 0..(n - 1) /\ k + 1 \in 0..n /\ k \in 0..(Len(a) - 1) /\ k + 1 \in 1..n
    BY <1>1, <1>5, <2>1
  <2>3. f[k + 1] = Cards!Add(f[k], t[k + 1]) /\ g[k + 1] = Cards!Add(g[k], a[k + 1])
    BY <1>2, <1>3, <2>2 DEF Gathers
  <2>4. f[k + 1] = g[k + 1]
    BY <1>1, <2>1, <2>2, <2>3
  <2> QED BY <2>2, <2>4
<1>6. n \in 0..(Len(a) - 1) /\ n \in Nat
  BY <1>1
<1> HIDE DEF K, n
<1>7. n \in K
  BY <1>6, <1>4, <1>5, InductionUpTo
<1>8. g[n + 1] = Cards!Add(g[n], a[n + 1])
  BY <1>3, <1>6 DEF Gathers
<1> QED BY <1>1, <1>2, <1>3, <1>7, <1>8 DEF K, a

\* The journal entries of the timeline and the cards that are one, one for one.
JournalsMatch(t, g) ==
  LET shown == Selected(g, Journals)
      said  == Selected(t, Said)
  IN  /\ Len(shown) = Len(said)
      /\ \A i \in 1..Len(said) :
            /\ shown[i].kind = Cards!CardKind(said[i].field)
            /\ shown[i].when = said[i].when /\ shown[i].actor = said[i].actor

\* What a card says of a field somebody wrote.
CardsTrue(t, g) ==
  \A n \in 1..Len(g) :
    /\ g[n].kind # "field_changes" => g[n].fields = {}
    /\ \A f \in g[n].fields :
         /\ f \notin Cards!Journal /\ f \in Readable /\ f \notin Hidden
         /\ \E k \in 1..Len(t) : /\ t[k].field = f /\ t[k].new = g[n].changes[f].value
                                 /\ t[k].when = g[n].when /\ t[k].actor = g[n].actor
         /\ \E k \in 1..Len(t) : t[k].field = f /\ t[k].old = g[n].changes[f].previous

LEMMA MatchStep ==
  ASSUME NEW t \in Seq(Entry), NEW g \in Seq(Card), NEW e \in Entry, JournalsMatch(t, g)
  PROVE  JournalsMatch(Append(t, e), Cards!Add(g, e))
<1> DEFINE shown == Selected(g, Journals)
           said  == Selected(t, Said)
           shown2 == Selected(Cards!Add(g, e), Journals)
           said2  == Selected(Append(t, e), Said)
<1>1. shown \in Seq(Card) /\ said \in Seq(Entry) /\ Len(shown) \in Nat /\ Len(said) \in Nat
  BY SelectedType, LenProperties
<1>2. said2 = IF e \in Said THEN Append(said, e) ELSE said
  BY SelectedAppend
<1>3. e \in Said <=> Cards!CardKind(e.field) # "field_changes"
  BY KindOf DEF Said
<1>4. CASE Merged(g, e)
  <2> DEFINE n == Len(g)
             a == Cards!Add(g, e)
             front == SubSeq(g, 1, n - 1)
             c == g[n]
             d == Cards!Into(c, e)
  <2>1. /\ n \in Nat \ {0} /\ c \in Card /\ d \in Card /\ a \in Seq(Card) /\ Len(a) = n /\ a[n] = d
        /\ \A i \in 1..(n - 1) : a[i] = g[i]
    BY <1>4, MergedGives
  <2>2. c.kind = "field_changes" /\ d.kind = "field_changes" /\ e \notin Said
    BY <1>3, <1>4, <2>1, IntoGives DEF Merged
  <2>3. c \notin Journals /\ d \notin Journals
    BY <2>2 DEF Journals
  <2>4. \A i \in 1..n : g[i] \in Card
    BY ElementOfSeq
  <2> HIDE DEF n, a, c, d
  <2>5. /\ front \in Seq(Card) /\ Len(front) = n - 1
        /\ \A i \in 1..(n - 1) : front[i] = g[i]
    <3>1. 1 \in Int /\ n - 1 \in Int /\ \A i \in 1..(n - 1) : g[i] \in Card
      BY <2>1, <2>4
    <3>2. /\ front \in Seq(Card) /\ Len(front) = IF 1 <= n - 1 THEN (n - 1) - 1 + 1 ELSE 0
          /\ \A i \in 1..((n - 1) - 1 + 1) : front[i] = g[1 + i - 1]
      BY <3>1, SubSeqProperties
    <3> HIDE DEF front
    <3>3. Len(front) = n - 1 /\ (n - 1) - 1 + 1 = n - 1 /\ \A i \in 1..(n - 1) : 1 + i - 1 = i
      BY <2>1, <3>2
    <3> QED BY <3>2, <3>3
  <2> HIDE DEF front
  <2>6. g = Append(front, c)
    <3>1. /\ Append(front, c) \in Seq(Card) /\ Len(Append(front, c)) = Len(front) + 1
          /\ \A i \in 1..Len(front) : Append(front, c)[i] = front[i]
          /\ Append(front, c)[Len(front) + 1] = c
      BY <2>1, <2>5, AppendProperties
    <3>2. Len(front) + 1 = n /\ Len(g) = n /\ c = g[n]
      BY <2>1, <2>5 DEF n, c
    <3>3. ASSUME NEW i \in 1..n PROVE g[i] = Append(front, c)[i]
      <4>1. i \in 1..(n - 1) \/ i = n
        BY <2>1
      <4> QED BY <2>5, <3>1, <3>2, <4>1
    <3> QED BY <3>1, <3>2, <3>3, SeqEqual
  <2>7. a = Append(front, d)
    <3>1. /\ Append(front, d) \in Seq(Card) /\ Len(Append(front, d)) = Len(front) + 1
          /\ \A i \in 1..Len(front) : Append(front, d)[i] = front[i]
          /\ Append(front, d)[Len(front) + 1] = d
      BY <2>1, <2>5, AppendProperties
    <3>2. Len(front) + 1 = n
      BY <2>1, <2>5
    <3>3. ASSUME NEW i \in 1..n PROVE a[i] = Append(front, d)[i]
      <4>1. i \in 1..(n - 1) \/ i = n
        BY <2>1
      <4> QED BY <2>1, <2>5, <3>1, <3>2, <4>1
    <3> QED BY <2>1, <3>1, <3>2, <3>3, SeqEqual
  <2>8. Selected(Append(front, c), Journals) = Selected(front, Journals)
    BY <2>1, <2>3, <2>5, SelectedAppend
  <2>9. Selected(Append(front, d), Journals) = Selected(front, Journals)
    BY <2>1, <2>3, <2>5, SelectedAppend
  <2>10. shown2 = shown /\ said2 = said
    BY <1>2, <2>2, <2>6, <2>7, <2>8, <2>9 DEF a
  <2> QED BY <2>10 DEF JournalsMatch
<1>5. CASE Begun(g, e)
  <2> DEFINE b == Cards!NewCard(e)
             c == Cards!Into(b, e)
  <2>1. b \in Card /\ b.kind = Cards!CardKind(e.field) /\ b.when = e.when /\ b.actor = e.actor
    BY NewCardType
  <2> HIDE DEF b
  <2>2. c \in Card /\ c.kind = b.kind /\ c.when = b.when /\ c.actor = b.actor
    BY <2>1, IntoGives
  <2>3. Cards!Add(g, e) = Append(g, c)
    BY <1>5 DEF Begun, b
  <2> HIDE DEF c
  <2>4. c \in Journals <=> e \in Said
    BY <1>3, <2>1, <2>2 DEF Journals
  <2>5. Selected(Append(g, c), Journals) = IF c \in Journals THEN Append(shown, c) ELSE shown
    BY <2>2, SelectedAppend
  <2>6. CASE e \notin Said
    BY <1>2, <2>3, <2>4, <2>5, <2>6 DEF JournalsMatch
  <2>7. CASE e \in Said
    <3>1. shown2 = Append(shown, c) /\ said2 = Append(said, e)
      BY <1>2, <2>3, <2>4, <2>5, <2>7
    <3>2. /\ Len(shown) = Len(said)
          /\ \A i \in 1..Len(said) :
                /\ shown[i].kind = Cards!CardKind(said[i].field)
                /\ shown[i].when = said[i].when /\ shown[i].actor = said[i].actor
      BY DEF JournalsMatch
    <3> HIDE DEF shown, said
    <3>3. /\ Len(Append(shown, c)) = Len(shown) + 1 /\ Append(shown, c)[Len(shown) + 1] = c
          /\ \A i \in 1..Len(shown) : Append(shown, c)[i] = shown[i]
      BY <1>1, <2>2, AppendProperties
    <3>4. /\ Len(Append(said, e)) = Len(said) + 1 /\ Append(said, e)[Len(said) + 1] = e
          /\ \A i \in 1..Len(said) : Append(said, e)[i] = said[i]
      BY <1>1, AppendProperties
    <3> HIDE DEF shown2, said2
    <3>5. Len(shown2) = Len(said2) /\ Len(said2) = Len(said) + 1
      BY <3>1, <3>2, <3>3, <3>4
    <3>6. ASSUME NEW i \in 1..Len(said2)
          PROVE  /\ shown2[i].kind = Cards!CardKind(said2[i].field)
                 /\ shown2[i].when = said2[i].when /\ shown2[i].actor = said2[i].actor
      <4>1. i \in 1..Len(said) \/ i = Len(said) + 1
        BY <1>1, <3>5
      <4>2. CASE i \in 1..Len(said)
        <5>1. shown2[i] = shown[i] /\ said2[i] = said[i]
          BY <3>1, <3>2, <3>3, <3>4, <4>2
        <5> QED BY <3>2, <4>2, <5>1
      <4>3. CASE i = Len(said) + 1
        <5>1. shown2[i] = c /\ said2[i] = e
          BY <3>1, <3>2, <3>3, <3>4, <4>3
        <5> QED BY <2>1, <2>2, <5>1
      <4> QED BY <4>1, <4>2, <4>3
    <3> QED BY <3>5, <3>6 DEF JournalsMatch, shown2, said2
  <2> QED BY <2>6, <2>7
<1>6. CASE Passed(g, e)
  <2>1. e \notin Said /\ Cards!Add(g, e) = g
    BY <1>3, <1>6 DEF Passed
  <2> QED BY <1>2, <2>1 DEF JournalsMatch
<1> QED BY <1>4, <1>5, <1>6, AddDoes

LEMMA TrueStep ==
  ASSUME NEW t \in Seq(Entry), NEW g \in Seq(Card), NEW e \in Entry, e.field \in Readable,
         CardsTrue(t, g)
  PROVE  CardsTrue(Append(t, e), Cards!Add(g, e))
<1> DEFINE t2 == Append(t, e)
           a == Cards!Add(g, e)
           m == Len(t)
           Tells(s, c) ==
             /\ c.kind # "field_changes" => c.fields = {}
             /\ \A f \in c.fields :
                  /\ f \notin Cards!Journal /\ f \in Readable /\ f \notin Hidden
                  /\ \E k \in 1..Len(s) : /\ s[k].field = f /\ s[k].new = c.changes[f].value
                                          /\ s[k].when = c.when /\ s[k].actor = c.actor
                  /\ \E k \in 1..Len(s) : s[k].field = f /\ s[k].old = c.changes[f].previous
<1>1. m \in Nat /\ Len(t2) = m + 1 /\ t2[m + 1] = e /\ \A k \in 1..m : t2[k] = t[k]
  BY LenProperties, AppendProperties
<1>2. \A n \in 1..Len(g) : Tells(t, g[n])
  BY DEF CardsTrue
<1>3. SUFFICES \A n \in 1..Len(a) : Tells(t2, a[n])
  BY DEF CardsTrue
<1> HIDE DEF t2, a, m
<1>4. ASSUME NEW c, Tells(t, c) PROVE Tells(t2, c)
  <2>1. ASSUME NEW f \in c.fields
        PROVE /\ \E k \in 1..Len(t2) : /\ t2[k].field = f /\ t2[k].new = c.changes[f].value
                                       /\ t2[k].when = c.when /\ t2[k].actor = c.actor
              /\ \E k \in 1..Len(t2) : t2[k].field = f /\ t2[k].old = c.changes[f].previous
    <3>1. PICK k \in 1..m : /\ t[k].field = f /\ t[k].new = c.changes[f].value
                            /\ t[k].when = c.when /\ t[k].actor = c.actor
      BY <1>4 DEF m
    <3>2. PICK l \in 1..m : t[l].field = f /\ t[l].old = c.changes[f].previous
      BY <1>4 DEF m
    <3>3. k \in 1..Len(t2) /\ l \in 1..Len(t2) /\ t2[k] = t[k] /\ t2[l] = t[l]
      BY <1>1
    <3> QED BY <3>1, <3>2, <3>3
  <2> QED BY <1>4, <2>1
<1>5. ASSUME NEW c \in Card, c.kind = Cards!CardKind(e.field), c.when = e.when, c.actor = e.actor,
             Tells(t, c), c.kind = "field_changes" => e.field \notin Hidden
      PROVE  Tells(t2, Cards!Into(c, e))
  <2> DEFINE d == Cards!Into(c, e)
  <2>1. CASE c.kind # "field_changes"
    <3>1. d = c
      BY <2>1, IntoGives
    <3> QED BY <1>4, <1>5, <3>1
  <2>2. CASE c.kind = "field_changes"
    <3>1. /\ d.kind = c.kind /\ d.when = c.when /\ d.actor = c.actor
          /\ d.fields = c.fields \cup {e.field} /\ d.changes[e.field].value = e.new
          /\ d.changes[e.field].previous =
               IF e.field \in c.fields /\ c.changes[e.field].previous # Empty
               THEN c.changes[e.field].previous ELSE e.old
          /\ \A f \in Field \ {e.field} : d.changes[f] = c.changes[f]
      BY <2>2, IntoGives
    <3> HIDE DEF d
    <3>2. e.field \notin Cards!Journal
      BY <1>5, <2>2, KindOf
    <3>3. m + 1 \in 1..Len(t2) /\ Tells(t2, c)
      BY <1>1, <1>4, <1>5
    <3>4. ASSUME NEW f \in d.fields
          PROVE /\ f \notin Cards!Journal /\ f \in Readable /\ f \notin Hidden
                /\ \E k \in 1..Len(t2) : /\ t2[k].field = f /\ t2[k].new = d.changes[f].value
                                         /\ t2[k].when = d.when /\ t2[k].actor = d.actor
                /\ \E k \in 1..Len(t2) : t2[k].field = f /\ t2[k].old = d.changes[f].previous
      <4>1. CASE f # e.field
        <5>1. f \in c.fields /\ f \in Field
          BY <3>1, <4>1 DEF Card
        <5>2. d.changes[f] = c.changes[f]
          BY <3>1, <4>1, <5>1
        <5> QED BY <3>1, <3>3, <5>1, <5>2
      <4>2. CASE f = e.field
        <5>1. \E k \in 1..Len(t2) : /\ t2[k].field = f /\ t2[k].new = d.changes[f].value
                                    /\ t2[k].when = d.when /\ t2[k].actor = d.actor
          BY <1>1, <1>5, <3>1, <3>3, <4>2
        <5>2. \E k \in 1..Len(t2) : t2[k].field = f /\ t2[k].old = d.changes[f].previous
          <6>1. CASE f \in c.fields /\ c.changes[f].previous # Empty
            <7>1. d.changes[f].previous = c.changes[f].previous
              BY <3>1, <4>2, <6>1
            <7> QED BY <3>3, <6>1, <7>1
          <6>2. CASE ~(f \in c.fields /\ c.changes[f].previous # Empty)
            <7>1. d.changes[f].previous = e.old
              BY <3>1, <4>2, <6>2
            <7> QED BY <1>1, <3>3, <4>2, <7>1
          <6> QED BY <6>1, <6>2
        <5> QED BY <1>5, <2>2, <3>2, <4>2, <5>1, <5>2
      <4> QED BY <4>1, <4>2
    <3> QED BY <2>2, <3>1, <3>4 DEF d
  <2> QED BY <2>1, <2>2
<1>6. CASE Merged(g, e)
  <2>1. /\ Len(g) \in Nat \ {0} /\ g[Len(g)] \in Card /\ Len(a) = Len(g) /\ a[Len(g)] = Cards!Into(g[Len(g)], e)
        /\ \A i \in 1..(Len(g) - 1) : a[i] = g[i]
    BY <1>6, MergedGives DEF a
  <2>2. Cards!CardKind(e.field) = "field_changes" /\ e.field \notin Hidden
        /\ g[Len(g)].kind = "field_changes" /\ g[Len(g)].when = e.when /\ g[Len(g)].actor = e.actor
    BY <1>6 DEF Merged
  <2>3. Tells(t2, a[Len(g)])
    <3>1. PICK c \in Card : c = g[Len(g)]
      BY <2>1
    <3>2. Tells(t, c)
      BY <1>2, <2>1, <3>1
    <3> HIDE DEF Tells
    <3> QED BY <1>5, <2>1, <2>2, <3>1, <3>2
  <2>4. ASSUME NEW n \in 1..Len(a) PROVE Tells(t2, a[n])
    <3>1. n \in 1..(Len(g) - 1) \/ n = Len(g)
      BY <2>1
    <3>2. ASSUME n \in 1..(Len(g) - 1) PROVE Tells(t2, a[n])
      <4>1. n \in 1..Len(g) /\ a[n] = g[n]
        BY <2>1, <3>2
      <4> HIDE DEF Tells
      <4> QED BY <1>2, <1>4, <4>1
    <3> HIDE DEF Tells
    <3> QED BY <2>3, <3>1, <3>2
  <2> QED BY <2>4
<1>7. CASE Begun(g, e)
  <2>1. PICK b \in Card : b = Cards!NewCard(e)
    BY NewCardType
  <2>2. b.fields = {} /\ b.kind = Cards!CardKind(e.field) /\ b.when = e.when /\ b.actor = e.actor
    BY <2>1, NewCardType
  <2>3. /\ Len(g) \in Nat /\ Len(a) = Len(g) + 1 /\ a[Len(g) + 1] = Cards!Into(b, e)
        /\ \A i \in 1..Len(g) : a[i] = g[i]
    BY <1>7, <2>1, BegunGives DEF a
  <2>4. Cards!CardKind(e.field) = "field_changes" => e.field \notin Hidden
    BY <1>7 DEF Begun
  <2>5. Tells(t, b)
    BY <2>2
  <2>6. Tells(t2, a[Len(g) + 1])
    <3> HIDE DEF Tells
    <3> QED BY <1>5, <2>2, <2>3, <2>4, <2>5
  <2>7. ASSUME NEW n \in 1..Len(a) PROVE Tells(t2, a[n])
    <3>1. n \in 1..Len(g) \/ n = Len(g) + 1
      BY <2>3
    <3>2. ASSUME n \in 1..Len(g) PROVE Tells(t2, a[n])
      <4>1. a[n] = g[n]
        BY <2>3, <3>2
      <4> HIDE DEF Tells
      <4> QED BY <1>2, <1>4, <3>2, <4>1
    <3> HIDE DEF Tells
    <3> QED BY <2>6, <3>1, <3>2
  <2> QED BY <2>7
<1>8. CASE Passed(g, e)
  <2>1. a = g
    BY <1>8 DEF Passed, a
  <2> HIDE DEF Tells
  <2> QED BY <1>2, <1>4, <2>1
<1> QED BY <1>6, <1>7, <1>8, AddDoes

FilledIn(t, f) == \E k \in 1..Len(t) : t[k].field = f /\ t[k].old = Empty

\* v[n] is what field f held when card n was done.
Chain(g, f, v, now) ==
  /\ v \in [0..Len(g) -> Values] /\ v[0] = AtFirst /\ v[Len(g)] = now
  /\ \A n \in 1..Len(g) :
        IF f \in g[n].fields
        THEN g[n].changes[f].previous = v[n - 1] /\ g[n].changes[f].value = v[n]
        ELSE v[n] = v[n - 1]

LEMMA ChainStep ==
  ASSUME NEW t \in Seq(Entry), NEW g \in Seq(Card), NEW e \in Entry, CardsTrue(t, g),
         NEW f \in Field, f \notin Cards!Journal, f \notin Hidden, ~FilledIn(Append(t, e), f),
         NEW now, NEW v, Chain(g, f, v, now), e.field = f => e.old = now
  PROVE  \E w : Chain(Cards!Add(g, e), f, w, IF e.field = f THEN e.new ELSE now)
<1> DEFINE a == Cards!Add(g, e)
           n == Len(g)
           then == IF e.field = f THEN e.new ELSE now
           Link(c, was, is) == IF f \in c.fields
                               THEN c.changes[f].previous = was /\ c.changes[f].value = is
                               ELSE is = was
<1>1. n \in Nat
  BY LenProperties
<1>2. /\ v \in [0..n -> Values] /\ v[0] = AtFirst /\ v[n] = now
      /\ \A i \in 1..n : Link(g[i], v[i - 1], v[i])
  BY DEF Chain
<1>3. now \in Values /\ e.new \in Values /\ e.old \in Values /\ e.field \in Field
  BY <1>1, <1>2 DEF Entry
<1>4. /\ e.field = f => e.old # Empty
      /\ \A k \in 1..Len(t) : t[k].field = f => t[k].old # Empty
  <2>1. /\ Len(t) \in Nat /\ Len(Append(t, e)) = Len(t) + 1 /\ Append(t, e)[Len(t) + 1] = e
        /\ \A k \in 1..Len(t) : Append(t, e)[k] = t[k]
    BY LenProperties, AppendProperties
  <2>2. \A k \in 1..Len(Append(t, e)) : Append(t, e)[k].field = f => Append(t, e)[k].old # Empty
    BY DEF FilledIn
  <2>3. Len(t) + 1 \in 1..(Len(t) + 1) /\ \A k \in 1..Len(t) : k \in 1..(Len(t) + 1)
    BY <2>1
  <2> QED BY <2>1, <2>2, <2>3
<1>5. \A i \in 1..n : f \in g[i].fields => g[i].changes[f].previous # Empty
  BY <1>4 DEF CardsTrue
<1> HIDE DEF a, n, then
<1>6. CASE Merged(g, e)
  <2>1. /\ n \in Nat \ {0} /\ g[n] \in Card /\ a \in Seq(Card) /\ Len(a) = n /\ a[n] = Cards!Into(g[n], e)
        /\ \A i \in 1..(n - 1) : a[i] = g[i]
    BY <1>6, MergedGives DEF a, n
  <2>2. PICK c \in Card : c = g[n]
    BY <2>1
  <2> DEFINE d == Cards!Into(c, e)
             w == [i \in 0..n |-> IF i = n THEN then ELSE v[i]]
  <2>3. c.kind = "field_changes"
    BY <1>6, <2>2 DEF Merged, n
  <2>4. /\ d.fields = c.fields \cup {e.field} /\ d.changes[e.field].value = e.new
        /\ d.changes[e.field].previous =
             IF e.field \in c.fields /\ c.changes[e.field].previous # Empty
             THEN c.changes[e.field].previous ELSE e.old
        /\ \A k \in Field \ {e.field} : d.changes[k] = c.changes[k]
    BY <2>3, IntoGives
  <2> HIDE DEF d
  <2>5. n \in 1..n /\ n - 1 \in 0..n /\ n - 1 # n /\ 0 \in 0..n /\ n \in 0..n /\ 0 # n
    BY <2>1
  <2>6. Link(c, v[n - 1], v[n]) /\ v[n] = now /\ (f \in c.fields => c.changes[f].previous # Empty)
    BY <1>2, <1>5, <2>2, <2>5
  <2>7. Link(d, v[n - 1], then)
    <3>1. CASE e.field = f
      <4>1. f \in d.fields /\ d.changes[f].value = then
        BY <2>4, <3>1 DEF then
      <4>2. d.changes[f].previous = v[n - 1]
        <5>1. CASE f \in c.fields
          BY <2>4, <2>6, <3>1, <5>1
        <5>2. CASE f \notin c.fields
          BY <2>4, <2>6, <3>1, <5>2
        <5> QED BY <5>1, <5>2
      <4> QED BY <4>1, <4>2
    <3>2. CASE e.field # f
      <4>1. then = v[n] /\ d.changes[f] = c.changes[f] /\ (f \in d.fields <=> f \in c.fields)
        BY <2>4, <2>6, <3>2 DEF then
      <4> QED BY <2>6, <4>1
    <3> QED BY <3>1, <3>2
  <2>8. then \in Values
    BY <1>3 DEF then
  <2>9. w \in [0..n -> Values] /\ w[0] = AtFirst /\ w[n] = then /\ w[n - 1] = v[n - 1]
    BY <1>2, <2>5, <2>8
  <2>10. \A i \in 0..(n - 1) : w[i] = v[i]
    BY <2>1
  <2> HIDE DEF w
  <2>11. ASSUME NEW i \in 1..n PROVE Link(a[i], w[i - 1], w[i])
    <3>1. i \in 1..(n - 1) \/ i = n
      BY <2>1
    <3>2. CASE i \in 1..(n - 1)
      <4>1. a[i] = g[i] /\ w[i] = v[i] /\ w[i - 1] = v[i - 1] /\ i \in 1..n
        BY <2>1, <2>10, <3>2
      <4> QED BY <1>2, <4>1
    <3>3. CASE i = n
      <4>1. a[i] = d
        BY <2>1, <2>2, <3>3 DEF d
      <4> QED BY <2>7, <2>9, <3>3, <4>1
    <3> QED BY <3>1, <3>2, <3>3
  <2> QED BY <2>1, <2>9, <2>11 DEF Chain, a, then
<1>7. CASE Begun(g, e)
  <2>1. PICK b \in Card : b = Cards!NewCard(e)
    BY NewCardType
  <2>2. b.fields = {} /\ b.kind = Cards!CardKind(e.field)
    BY <2>1, NewCardType
  <2> DEFINE d == Cards!Into(b, e)
             w == [i \in 0..(n + 1) |-> IF i = n + 1 THEN then ELSE v[i]]
  <2>3. a \in Seq(Card) /\ Len(a) = n + 1 /\ a[n + 1] = d /\ \A i \in 1..n : a[i] = g[i]
    BY <1>7, <2>1, BegunGives DEF a, n
  <2>4. Link(d, now, then)
    <3>1. CASE b.kind = "field_changes"
      <4>1. /\ d.fields = {e.field} /\ d.changes[e.field].value = e.new
            /\ d.changes[e.field].previous = e.old
        BY <2>2, <3>1, IntoGives
      <4> HIDE DEF d
      <4> QED BY <4>1 DEF then
    <3>2. CASE b.kind # "field_changes"
      <4>1. d = b /\ e.field # f
        BY <2>2, <3>2, IntoGives, KindOf
      <4> HIDE DEF d
      <4> QED BY <2>2, <4>1 DEF then
    <3> QED BY <3>1, <3>2
  <2> HIDE DEF d
  <2>5. then \in Values
    BY <1>3 DEF then
  <2>6. w \in [0..(n + 1) -> Values] /\ w[n + 1] = then
    BY <1>1, <1>2, <2>5
  <2>7. \A i \in 0..n : w[i] = v[i]
    BY <1>1
  <2> HIDE DEF w
  <2>8. ASSUME NEW i \in 1..(n + 1) PROVE Link(a[i], w[i - 1], w[i])
    <3>1. i \in 1..n \/ i = n + 1
      BY <1>1
    <3>2. CASE i \in 1..n
      <4>1. a[i] = g[i] /\ w[i] = v[i] /\ w[i - 1] = v[i - 1]
        BY <1>1, <2>3, <2>7, <3>2
      <4> QED BY <1>2, <3>2, <4>1
    <3>3. CASE i = n + 1
      <4>1. a[i] = d /\ i - 1 = n /\ n \in 0..n
        BY <1>1, <2>3, <3>3
      <4>2. w[i - 1] = now
        BY <1>2, <2>7, <4>1
      <4> QED BY <2>4, <2>6, <3>3, <4>1, <4>2
    <3> QED BY <3>1, <3>2, <3>3
  <2>9. w[0] = AtFirst
    BY <1>1, <1>2, <2>7
  <2> QED BY <2>3, <2>6, <2>8, <2>9 DEF Chain, a, then
<1>8. CASE Passed(g, e)
  BY <1>8 DEF Passed
<1> QED BY <1>6, <1>7, <1>8, AddDoes

-----------------------------------------------------------------------------
(* Cards: the history.                                                      *)

OfField(f) == {e \in Entry : e.field = f}

NowOf(h, f) ==
  LET lines == Selected(h, OfField(f))
  IN  IF lines = <<>> THEN AtFirst ELSE lines[Len(lines)].new

Follows(h, t, g) ==
  \A f \in Field : f \notin Cards!Journal /\ f \in Readable /\ f \notin Hidden /\ ~FilledIn(t, f)
     => \E v : Chain(g, f, v, NowOf(h, f))

CardsHold(h) ==
  LET t == Selected(h, OnPage)
      g == Groups(t)
  IN  JournalsMatch(t, g) /\ CardsTrue(t, g) /\ Follows(h, t, g)

CardsInv == journal \in Seq(Entry) /\ CardsHold(journal)

LEMMA NowMoves ==
  ASSUME NEW h \in Seq(Entry), NEW e \in Entry, NEW f
  PROVE  NowOf(Append(h, e), f) = IF e.field = f THEN e.new ELSE NowOf(h, f)
<1> DEFINE l == Selected(h, OfField(f))
<1>1. l \in Seq(Entry)
  BY SelectedType
<1>2. Selected(Append(h, e), OfField(f)) = IF e \in OfField(f) THEN Append(l, e) ELSE l
  BY SelectedAppend
<1>3. e \in OfField(f) <=> e.field = f
  BY DEF OfField
<1>4. NowOf(h, f) = IF l = <<>> THEN AtFirst ELSE l[Len(l)].new
  BY DEF NowOf
<1> HIDE DEF l
<1>5. Append(l, e) # <<>> /\ Append(l, e)[Len(Append(l, e))] = e
  BY <1>1, AppendProperties
<1> QED BY <1>2, <1>3, <1>4, <1>5 DEF NowOf

LEMMA HistoryStep ==
  ASSUME NEW h \in Seq(Entry), NEW e \in Entry, CardsHold(h),
         e.field \notin Cards!Journal => e.old = NowOf(h, e.field)
  PROVE  CardsHold(Append(h, e))
<1> DEFINE t == Selected(h, OnPage)
           g == Groups(t)
           t2 == Selected(Append(h, e), OnPage)
           g2 == Groups(t2)
<1>1. t \in Seq(Entry)
  BY SelectedType
<1>2. t2 = IF e \in OnPage THEN Append(t, e) ELSE t
  BY SelectedAppend
<1>3. e \in OnPage <=> e.field \in Readable
  BY DEF OnPage
<1>4. JournalsMatch(t, g) /\ CardsTrue(t, g) /\ Follows(h, t, g)
  BY DEF CardsHold
<1> SUFFICES JournalsMatch(t2, g2) /\ CardsTrue(t2, g2) /\ Follows(Append(h, e), t2, g2)
  BY DEF CardsHold
<1> HIDE DEF t, t2
<1>5. g \in Seq(Card)
  BY <1>1, GroupsType
<1>6. CASE e \notin OnPage
  <2>1. t2 = t /\ g2 = g
    BY <1>2, <1>6
  <2>2. \A f \in Readable : NowOf(Append(h, e), f) = NowOf(h, f)
    BY <1>3, <1>6, NowMoves
  <2> HIDE DEF g, g2
  <2> QED BY <1>4, <2>1, <2>2 DEF Follows
<1>7. CASE e \in OnPage
  <2>1. t2 = Append(t, e) /\ g2 = Cards!Add(g, e)
    <3>1. t2 = Append(t, e)
      BY <1>2, <1>7
    <3> QED BY <1>1, <3>1, GroupsAppend
  <2> HIDE DEF g, g2
  <2>2. JournalsMatch(t2, g2)
    BY <1>1, <1>4, <1>5, <2>1, MatchStep
  <2>3. CardsTrue(t2, g2)
    BY <1>1, <1>3, <1>4, <1>5, <1>7, <2>1, TrueStep
  <2>4. ASSUME NEW f \in Field, f \notin Cards!Journal, f \in Readable, f \notin Hidden, ~FilledIn(t2, f)
        PROVE  \E w : Chain(g2, f, w, NowOf(Append(h, e), f))
    <3>1. ~FilledIn(t, f)
      <4>1. \A k \in 1..Len(t) : k \in 1..Len(t2) /\ t2[k] = t[k]
        <5>1. Len(t) \in Nat
          BY <1>1, LenProperties
        <5>2. Len(Append(t, e)) = Len(t) + 1 /\ \A k \in 1..Len(t) : Append(t, e)[k] = t[k]
          BY <1>1, AppendProperties
        <5> QED BY <2>1, <5>1, <5>2
      <4> QED BY <2>4, <4>1 DEF FilledIn
    <3>2. PICK v : Chain(g, f, v, NowOf(h, f))
      BY <1>4, <2>4, <3>1 DEF Follows
    <3>3. e.field = f => e.old = NowOf(h, f)
      BY <2>4
    <3>4. ~FilledIn(Append(t, e), f)
      BY <2>1, <2>4
    <3>5. PICK w : Chain(Cards!Add(g, e), f, w, IF e.field = f THEN e.new ELSE NowOf(h, f))
      BY <1>1, <1>4, <1>5, <2>4, <3>2, <3>3, <3>4, ChainStep
    <3>6. NowOf(Append(h, e), f) = IF e.field = f THEN e.new ELSE NowOf(h, f)
      BY NowMoves
    <3> QED BY <2>1, <3>5, <3>6
  <2> QED BY <2>2, <2>3, <2>4 DEF Follows
<1> QED BY <1>6, <1>7

LEMMA CardsStart == ASSUME Cards!Init PROVE CardsInv
<1>1. journal = <<>> /\ journal \in Seq(Entry)
  BY DEF Cards!Init
<1>2. Selected(<<>>, OnPage) = <<>> /\ Selected(<<>>, Said) = <<>> /\ Selected(<<>>, Journals) = <<>>
      /\ \A f : Selected(<<>>, OfField(f)) = <<>>
  BY SelectedEmpty
<1>3. Groups(<<>>) = <<>>
  BY GroupsOfNone
<1>4. JournalsMatch(<<>>, <<>>) /\ CardsTrue(<<>>, <<>>)
  BY <1>2 DEF JournalsMatch, CardsTrue
<1>5. Follows(<<>>, <<>>, <<>>)
  <2>1. \A f : NowOf(<<>>, f) = AtFirst
    BY <1>2 DEF NowOf
  <2> DEFINE v == [i \in 0..0 |-> AtFirst]
  <2>2. \A f : Chain(<<>>, f, v, AtFirst)
    BY DEF Chain, Values
  <2> HIDE DEF v
  <2> QED BY <2>1, <2>2 DEF Follows
<1>6. CardsHold(<<>>)
  BY <1>2, <1>3, <1>4, <1>5 DEF CardsHold
<1> QED BY <1>1, <1>6 DEF CardsInv

LEMMA ThoseAreSelected ==
  ASSUME NEW s, NEW T
  PROVE  Cards!Those(s, T) = Selected(s, T)
BY DEF Cards!Those, Cards!FoldLeft, Cards!MapThenFoldSet, Cards!Max, Selected, Selecting, Largest

LEMMA InItself ==
  ASSUME NEW S, NEW s \in Seq(S)
  PROVE  \A i \in 1..Len(s) : s[i] \in S /\ s[i] \in Cards!ToSet(s)
BY ElementOfSeq, LenProperties DEF Cards!ToSet

LEMMA NowIs ==
  ASSUME journal \in Seq(Entry), NEW f
  PROVE  Cards!Now(f) = NowOf(journal, f)
<1> DEFINE U == {e \in Cards!ToSet(journal) : e.field = f}
<1>1. Cards!LinesOf(journal, f) = Selected(journal, U)
  BY ThoseAreSelected DEF Cards!LinesOf
<1>2. \A i \in 1..Len(journal) : journal[i] \in U <=> journal[i] \in OfField(f)
  BY InItself DEF OfField
<1> HIDE DEF U
<1>3. Selected(journal, U) = Selected(journal, OfField(f))
  BY <1>2, SelectedSame
<1> QED BY <1>1, <1>3 DEF Cards!Now, NowOf, Cards!Last

LEMMA TimelineIs ==
  ASSUME journal \in Seq(Entry)
  PROVE  Cards!Timeline = Selected(journal, OnPage)
<1> DEFINE U == {e \in Cards!ToSet(journal) : e.field \in Readable}
<1>1. Cards!Timeline = Selected(journal, U)
  BY ThoseAreSelected DEF Cards!Timeline
<1>2. \A i \in 1..Len(journal) : journal[i] \in U <=> journal[i] \in OnPage
  BY InItself DEF OnPage
<1> HIDE DEF U
<1>3. Selected(journal, U) = Selected(journal, OnPage)
  BY <1>2, SelectedSame
<1> QED BY <1>1, <1>3

LEMMA CardsPreserved == ASSUME CardsInv, [Cards!Next]_journal PROVE CardsInv'
<1>1. CASE UNCHANGED journal
  BY <1>1 DEF CardsInv
<1>2. CASE Cards!Next
  <2>1. PICK actor \in Actor : Cards!Write(actor)
    BY <1>2 DEF Cards!Next
  <2>2. journal \in Seq(Entry) /\ CardsHold(journal)
    BY DEF CardsInv
  <2>3. Cards!Clock \in Nat
    <3>1. journal # <<>> => Len(journal) \in 1..Len(journal)
      BY <2>2, EmptySeq
    <3>2. \A i \in 1..Len(journal) : journal[i] \in Entry
      BY <2>2, ElementOfSeq
    <3> QED BY <3>1, <3>2 DEF Cards!Clock, Cards!Last, Entry
  <2>4. PICK when \in Nat, field \in Field :
           \/ /\ field \in Cards!Journal
              /\ journal' = Append(journal, Cards!Line(when, actor, field, Empty, "words"))
           \/ /\ field \notin Cards!Journal
              /\ \E new \in Content \ {Cards!Now(field)} :
                    journal' = Append(journal, Cards!Line(when, actor, field, Cards!Now(field), new))
    <3>1. \A when \in {Cards!Clock, Cards!Clock + 1} : when \in Nat
      BY <2>3
    <3> QED BY <2>1, <3>1 DEF Cards!Write
  <2>5. PICK e \in Entry : /\ journal' = Append(journal, e)
                           /\ e.field \notin Cards!Journal => e.old = NowOf(journal, e.field)
    <3>1. CASE field \in Cards!Journal
                /\ journal' = Append(journal, Cards!Line(when, actor, field, Empty, "words"))
      BY <2>4, <3>1 DEF Cards!Line, Entry, Values
    <3>2. ASSUME field \notin Cards!Journal, NEW new \in Content,
                 journal' = Append(journal, Cards!Line(when, actor, field, Cards!Now(field), new))
          PROVE  \E e \in Entry : /\ journal' = Append(journal, e)
                                  /\ e.field \notin Cards!Journal => e.old = NowOf(journal, e.field)
      <4>1. Cards!Now(field) = NowOf(journal, field)
        BY <2>2, NowIs
      <4>2. NowOf(journal, field) \in Values
        <5> DEFINE l == Selected(journal, OfField(field))
        <5>1. l \in Seq(Entry)
          BY <2>2, SelectedType
        <5>2. NowOf(journal, field) = IF l = <<>> THEN AtFirst ELSE l[Len(l)].new
          BY DEF NowOf
        <5> HIDE DEF l
        <5>3. l # <<>> => Len(l) \in 1..Len(l)
          BY <5>1, EmptySeq
        <5>4. \A i \in 1..Len(l) : l[i] \in Entry
          BY <5>1, ElementOfSeq
        <5> QED BY <5>2, <5>3, <5>4 DEF Entry, Values
      <4> DEFINE e == Cards!Line(when, actor, field, Cards!Now(field), new)
      <4>3. e \in Entry /\ e.field = field /\ e.old = NowOf(journal, field)
        BY <4>1, <4>2 DEF Cards!Line, Entry, Values
      <4> HIDE DEF e
      <4> QED BY <3>2, <4>3 DEF e
    <3> QED BY <2>4, <3>1, <3>2
  <2>6. Append(journal, e) \in Seq(Entry)
    BY <2>2, AppendProperties
  <2>7. CardsHold(Append(journal, e))
    <3>1. PICK h \in Seq(Entry) : h = journal
      BY <2>2
    <3>2. CardsHold(h) /\ (e.field \notin Cards!Journal => e.old = NowOf(h, e.field))
      BY <2>2, <2>5, <3>1
    <3>3. CardsHold(Append(h, e))
      BY <3>2, HistoryStep
    <3> QED BY <3>1, <3>3
  <2>8. CardsHold(journal)' <=> CardsHold(journal')
    BY DEF CardsHold, Follows, NowOf
  <2> QED BY <2>5, <2>6, <2>7, <2>8 DEF CardsInv
<1> QED BY <1>1, <1>2

Net(g) == [n \in 1..Len(g) |-> Cards!Netted(g[n])]

Speaks == {c \in Card : Cards!Says(c)}

\* The page before it is cut.
Pages(g) == Backwards(Selected(Net(g), Speaks))

LEMMA NettedGives ==
  ASSUME NEW c \in Card
  PROVE  LET d == Cards!Netted(c)
         IN  /\ d \in Card /\ d.kind = c.kind /\ d.when = c.when /\ d.actor = c.actor
             /\ d.changes = c.changes
             /\ d.fields = {f \in c.fields : c.changes[f].value # c.changes[f].previous}
             /\ c.fields = {} => d = c
<1> DEFINE fs == {f \in c.fields : c.changes[f].value # c.changes[f].previous}
<1>1. fs \in SUBSET Field /\ (c.fields = {} => fs = c.fields)
  BY DEF Card
<1>2. Cards!Netted(c) = [c EXCEPT !.fields = fs]
  BY DEF Cards!Netted
<1> HIDE DEF fs
<1>3. [c EXCEPT !.fields = fs] \in Card
  BY <1>1 DEF Card
<1>4. c.fields = {} => [c EXCEPT !.fields = fs] = c
  BY <1>1 DEF Card
<1>5. LET d == [c EXCEPT !.fields = fs]
      IN  d.kind = c.kind /\ d.when = c.when /\ d.actor = c.actor /\ d.changes = c.changes /\ d.fields = fs
  BY DEF Card
<1> QED BY <1>2, <1>3, <1>4, <1>5 DEF fs

LEMMA NetType ==
  ASSUME NEW g \in Seq(Card)
  PROVE  /\ Net(g) \in Seq(Card) /\ Len(Net(g)) = Len(g) /\ Len(g) \in Nat
         /\ \A n \in 1..Len(g) : g[n] \in Card /\ Net(g)[n] = Cards!Netted(g[n])
<1>1. Len(g) \in Nat /\ \A n \in 1..Len(g) : g[n] \in Card
  BY LenProperties, ElementOfSeq
<1>2. ASSUME NEW n \in 1..Len(g) PROVE Cards!Netted(g[n]) \in Card
  <2>1. PICK c \in Card : c = g[n]
    BY <1>1
  <2> QED BY <2>1, NettedGives
<1>3. Net(g) \in [1..Len(g) -> Card]
  BY <1>2 DEF Net
<1>4. Net(g) \in Seq(Card)
  BY <1>1, <1>3
<1> QED BY <1>1, <1>3, <1>4, LenProperties DEF Net

LEMMA PagesType ==
  ASSUME NEW g \in Seq(Card)
  PROVE  /\ Selected(Net(g), Speaks) \in Seq(Card) /\ Pages(g) \in Seq(Card)
         /\ Len(Pages(g)) = Len(Selected(Net(g), Speaks)) /\ Len(Pages(g)) \in Nat
         /\ \A i \in 1..Len(Pages(g)) :
               Pages(g)[i] = Selected(Net(g), Speaks)[(Len(Pages(g)) - i) + 1]
<1>1. Net(g) \in Seq(Card)
  BY NetType
<1> DEFINE k == Selected(Net(g), Speaks)
<1>2. k \in Seq(Card)
  BY <1>1, SelectedType
<1>3. Pages(g) = Backwards(k)
  BY DEF Pages
<1> HIDE DEF k
<1>4. Backwards(k) \in Seq(Card) /\ Len(Backwards(k)) = Len(k) /\ Len(k) \in Nat
  BY <1>2, BackwardsType, LenProperties
<1>5. \A i \in 1..Len(k) : Backwards(k)[i] = k[(Len(k) - i) + 1]
  BY DEF Backwards
<1> QED BY <1>2, <1>3, <1>4, <1>5 DEF k

\* What the page shows is its beginning.
LEMMA ActivityIs ==
  ASSUME journal \in Seq(Entry), NEW g, g = Groups(Selected(journal, OnPage))
  PROVE  Cards!GroupActivity = IF Limit < Len(Pages(g)) THEN SubSeq(Pages(g), 1, Limit) ELSE Pages(g)
<1> DEFINE t == Selected(journal, OnPage)
           all == Cards!FoldLeft(Cards!Add, <<>>, Cards!Timeline)
           netted == [n \in DOMAIN all |-> Cards!Netted(all[n])]
           U == {c \in Cards!ToSet(netted) : Cards!Says(c)}
           cards == Cards!Reverse(Cards!Those(netted, U))
<1>1. t \in Seq(Entry) /\ Cards!Timeline = t
  BY SelectedType, TimelineIs
<1>2. Cards!GroupActivity = IF Limit < Len(cards) THEN SubSeq(cards, 1, Limit) ELSE cards
  BY DEF Cards!GroupActivity
<1>3. all = g
  <2> HIDE DEF t
  <2>1. Cards!FoldLeft(Cards!Add, <<>>, t) = Groups(t)
    BY DEF Groups, Grouping, Cards!FoldLeft, Cards!MapThenFoldSet, Cards!Max, Largest
  <2> QED BY <1>1, <2>1 DEF t
<1> HIDE DEF all
<1>4. g \in Seq(Card)
  <2> HIDE DEF t
  <2> QED BY <1>1, GroupsType DEF t
<1>5. netted = Net(g)
  <2>1. DOMAIN g = 1..Len(g)
    BY <1>4, LenProperties
  <2> QED BY <1>3, <2>1 DEF Net
<1>6. Net(g) \in Seq(Card)
  BY <1>4, NetType
<1> HIDE DEF netted
<1>7. Cards!Those(netted, U) = Selected(netted, Speaks)
  <2>1. \A i \in 1..Len(netted) : netted[i] \in U <=> netted[i] \in Speaks
    BY <1>5, <1>6, InItself DEF Speaks
  <2> HIDE DEF U
  <2>2. Selected(netted, U) = Selected(netted, Speaks)
    BY <1>5, <1>6, <2>1, SelectedSame
  <2> QED BY <2>2, ThoseAreSelected
<1>8. cards = Pages(g)
  <2> HIDE DEF U
  <2> QED BY <1>5, <1>7 DEF Cards!Reverse, Backwards, Pages
<1> HIDE DEF cards
<1> QED BY <1>2, <1>8

LEMMA JournalsStay ==
  ASSUME NEW t, NEW g \in Seq(Card), CardsTrue(t, g)
  PROVE  Selected(Pages(g), Journals) = Backwards(Selected(g, Journals))
<1> DEFINE w == Net(g)
           k == Selected(w, Speaks)
<1>1. /\ w \in Seq(Card) /\ Len(w) = Len(g) /\ Len(g) \in Nat
      /\ \A n \in 1..Len(g) : g[n] \in Card /\ w[n] = Cards!Netted(g[n])
  BY NetType
<1>2. \A n \in 1..Len(g) : /\ w[n] \in Journals <=> g[n] \in Journals
                           /\ g[n] \in Journals => w[n] = g[n]
  <2> SUFFICES ASSUME NEW n \in 1..Len(g)
               PROVE  /\ w[n] \in Journals <=> g[n] \in Journals
                      /\ g[n] \in Journals => w[n] = g[n]
    OBVIOUS
  <2>1. PICK c \in Card : c = g[n]
    BY <1>1
  <2>2. c.kind # "field_changes" => c.fields = {}
    BY <2>1 DEF CardsTrue
  <2>3. Cards!Netted(c) \in Card /\ Cards!Netted(c).kind = c.kind
        /\ (c.fields = {} => Cards!Netted(c) = c)
    BY NettedGives
  <2> HIDE DEF w
  <2> QED BY <1>1, <2>1, <2>2, <2>3 DEF Journals
<1> HIDE DEF w
<1>3. Selected(w, Journals) = Selected(g, Journals)
  <2>1. PICK f \in [0..Len(w) -> Seq(Card)] : Selects(w, Journals, f) /\ f[Len(w)] = Selected(w, Journals)
    BY <1>1, SelectedInSteps
  <2>2. \A n \in 0..(Len(g) - 1) : n + 1 \in 1..Len(g)
    BY <1>1
  <2>3. Selects(g, Journals, f)
    BY <1>1, <1>2, <2>1, <2>2 DEF Selects
  <2> QED BY <1>1, <2>1, <2>3, SelectsOnce
<1>4. Journals \subseteq Speaks
  BY DEF Journals, Speaks, Cards!Says
<1>5. Selected(k, Journals) = Selected(w, Journals)
  BY <1>1, <1>4, SelectedTwice
<1>6. k \in Seq(Card) /\ Pages(g) = Backwards(k)
  BY <1>1, SelectedType DEF Pages, w
<1> HIDE DEF k
<1>7. Selected(Backwards(k), Journals) = Backwards(Selected(k, Journals))
  BY <1>6, SelectedBackwards
<1> QED BY <1>3, <1>5, <1>6, <1>7

LEMMA JournalWhole == ASSUME CardsInv PROVE Cards!JournalIsWhole
<1> DEFINE t == Selected(journal, OnPage)
           g == Groups(t)
           p == Pages(g)
           page == Cards!GroupActivity
           U == {e \in Cards!ToSet(Cards!Timeline) : e.field \in Cards!Journal}
           V == {c \in Cards!ToSet(page) : c.kind # "field_changes"}
           written == Cards!Reverse(Cards!Those(Cards!Timeline, U))
           shown == Cards!Those(page, V)
           said == Selected(t, Said)
           notes == Selected(g, Journals)
<1>1. /\ journal \in Seq(Entry) /\ t \in Seq(Entry) /\ Cards!Timeline = t
      /\ JournalsMatch(t, g) /\ CardsTrue(t, g)
  BY SelectedType, TimelineIs DEF CardsInv, CardsHold
<1> HIDE DEF t
<1>2. g \in Seq(Card)
  BY <1>1, GroupsType
<1>3. page = IF Limit < Len(p) THEN SubSeq(p, 1, Limit) ELSE p
  BY <1>1, ActivityIs DEF t
<1> HIDE DEF g, page
<1>4. p \in Seq(Card) /\ Len(p) \in Nat /\ Limit \in Nat
  BY <1>2, PagesType, CardsAssumption
<1>5. said \in Seq(Entry) /\ notes \in Seq(Card) /\ Len(said) \in Nat /\ Len(notes) \in Nat
  BY <1>1, <1>2, SelectedType, LenProperties
<1>6. Selected(p, Journals) = Backwards(notes)
  BY <1>1, <1>2, JournalsStay
<1> HIDE DEF p
<1>7. page \in Seq(Card) /\ (Len(page) < Limit => page = p)
      /\ \E n \in 0..Len(p) : page = SubSeq(p, 1, n)
  <2>1. CASE Limit < Len(p)
    <3>1. 1 \in Int /\ Limit \in Int /\ \A i \in 1..Limit : p[i] \in Card
      BY <1>4, <2>1, ElementOfSeq
    <3>2. SubSeq(p, 1, Limit) \in Seq(Card)
          /\ Len(SubSeq(p, 1, Limit)) = IF 1 <= Limit THEN Limit - 1 + 1 ELSE 0
      BY <3>1, SubSeqProperties
    <3>3. page = SubSeq(p, 1, Limit) /\ Limit \in 0..Len(p)
      BY <1>3, <1>4, <2>1
    <3>4. ~(Len(page) < Limit)
      BY <1>4, <3>2, <3>3
    <3> QED BY <3>2, <3>3, <3>4
  <2>2. CASE ~(Limit < Len(p))
    <3>1. page = p /\ Len(p) \in 0..Len(p)
      BY <1>3, <1>4, <2>2
    <3>2. SubSeq(p, 1, Len(p)) = p
      BY <1>4, SubSeqFull
    <3> QED BY <1>4, <3>1, <3>2
  <2> QED BY <2>1, <2>2
<1>8. shown = Selected(page, Journals)
  <2>1. \A i \in 1..Len(page) : page[i] \in V <=> page[i] \in Journals
    BY <1>7, InItself DEF Journals
  <2> HIDE DEF V
  <2>2. Selected(page, V) = Selected(page, Journals)
    BY <1>7, <2>1, SelectedSame
  <2> QED BY <2>2, ThoseAreSelected
<1>9. written = Backwards(said)
  <2>1. \A i \in 1..Len(t) : t[i] \in U <=> t[i] \in Said
    BY <1>1, InItself DEF Said
  <2> HIDE DEF U
  <2>2. Selected(t, U) = Selected(t, Said)
    BY <1>1, <2>1, SelectedSame
  <2> QED BY <1>1, <2>2, ThoseAreSelected DEF Cards!Reverse, Backwards
<1> DEFINE entry(e) == <<Cards!CardKind(e.field), e.when, e.actor>>
<1>10. SUFFICES /\ Len(shown) <= Len(written)
                /\ \A n \in DOMAIN shown :
                      <<shown[n].kind, shown[n].when, shown[n].actor>> = entry(written[n])
                /\ Len(page) < Limit => Len(shown) = Len(written)
  BY DEF Cards!JournalIsWhole, page
<1> HIDE DEF shown, written, U, V
<1>11. /\ Len(said) = Len(notes)
       /\ \A i \in 1..Len(said) :
             /\ notes[i].kind = Cards!CardKind(said[i].field)
             /\ notes[i].when = said[i].when /\ notes[i].actor = said[i].actor
  BY <1>1 DEF JournalsMatch
<1> HIDE DEF said, notes
<1>12. /\ Len(Backwards(said)) = Len(said) /\ Len(Backwards(notes)) = Len(notes)
       /\ \A i \in 1..Len(said) : Backwards(said)[i] = said[(Len(said) - i) + 1]
       /\ \A i \in 1..Len(notes) : Backwards(notes)[i] = notes[(Len(notes) - i) + 1]
  BY <1>5, BackwardsType DEF Backwards
<1>13. /\ shown \in Seq(Card) /\ Len(shown) \in Nat /\ Len(shown) <= Len(notes)
       /\ \A i \in 1..Len(shown) : shown[i] = Backwards(notes)[i]
  <2>1. PICK n \in 0..Len(p) : page = SubSeq(p, 1, n)
    BY <1>7
  <2> DEFINE pre == Selected(SubSeq(p, 1, n), Journals)
             whole == Selected(p, Journals)
  <2>2. /\ Len(pre) \in Nat /\ Len(whole) \in Nat /\ Len(pre) <= Len(whole)
        /\ \A i \in 1..Len(pre) : pre[i] = whole[i]
    BY <1>4, SelectedBeginning
  <2>3. shown = pre /\ whole = Backwards(notes)
    BY <1>6, <1>8, <2>1
  <2>4. shown \in Seq(Card)
    BY <1>7, <1>8, SelectedType
  <2> HIDE DEF pre, whole
  <2> QED BY <1>12, <2>2, <2>3, <2>4
<1>14. ASSUME NEW i \in 1..Len(shown)
       PROVE  <<shown[i].kind, shown[i].when, shown[i].actor>> = entry(written[i])
  <2>1. i \in 1..Len(said) /\ (Len(said) - i) + 1 \in 1..Len(said)
    BY <1>5, <1>11, <1>13
  <2>2. shown[i] = notes[(Len(said) - i) + 1] /\ written[i] = said[(Len(said) - i) + 1]
    BY <1>9, <1>11, <1>12, <1>13, <2>1
  <2> QED BY <1>11, <2>1, <2>2
<1>15. Len(page) < Limit => Len(shown) = Len(written)
  BY <1>6, <1>7, <1>8, <1>9, <1>11, <1>12
<1>16. DOMAIN shown = 1..Len(shown)
  BY <1>13, LenProperties
<1> QED BY <1>9, <1>11, <1>12, <1>13, <1>14, <1>15, <1>16

\* Where the cards of the page come from: the newest first, and none left out that says something.
Stands(g, at) ==
  /\ at \in [1..Len(Pages(g)) -> 1..Len(g)]
  /\ \A i \in 1..Len(Pages(g)) : Pages(g)[i] = Cards!Netted(g[at[i]])
  /\ \A i, j \in 1..Len(Pages(g)) : i < j => at[j] < at[i]
  /\ \A n \in 1..Len(g) : Cards!Says(Cards!Netted(g[n])) => \E i \in 1..Len(Pages(g)) : at[i] = n

LEMMA PagesStand ==
  ASSUME NEW g \in Seq(Card)
  PROVE  \E at : Stands(g, at)
<1> DEFINE w == Net(g)
           k == Selected(w, Speaks)
           p == Pages(g)
           l == Len(p)
<1>1. /\ w \in Seq(Card) /\ Len(w) = Len(g) /\ Len(g) \in Nat
      /\ \A n \in 1..Len(g) : g[n] \in Card /\ w[n] = Cards!Netted(g[n])
  BY NetType
<1>2. Len(k) = l /\ l \in Nat /\ \A i \in 1..l : p[i] = k[(l - i) + 1]
  BY PagesType
<1> HIDE DEF w
<1>3. PICK pl : Placed(w, Speaks, pl)
  BY <1>1, PlacesExist
<1>4. /\ pl \in [1..l -> 1..Len(g)] /\ \A i \in 1..l : k[i] = w[pl[i]]
      /\ \A i, j \in 1..l : i < j => pl[i] < pl[j]
      /\ \A n \in 1..Len(g) : w[n] \in Speaks => \E i \in 1..l : pl[i] = n
  BY <1>1, <1>2, <1>3 DEF Placed
<1> HIDE DEF k, l, p
<1> DEFINE at == [i \in 1..l |-> pl[(l - i) + 1]]
<1>5. \A i \in 1..l : (l - i) + 1 \in 1..l /\ (l - ((l - i) + 1)) + 1 = i
  BY <1>2
<1>6. \A i \in 1..l : at[i] = pl[(l - i) + 1] /\ at[i] \in 1..Len(g)
  BY <1>4, <1>5
<1>7. at \in [1..l -> 1..Len(g)]
  BY <1>4, <1>5
<1> HIDE DEF at
<1>8. \A i \in 1..l : p[i] = Cards!Netted(g[at[i]])
  <2> SUFFICES ASSUME NEW i \in 1..l PROVE p[i] = Cards!Netted(g[at[i]])
    OBVIOUS
  <2>1. p[i] = w[pl[(l - i) + 1]]
    BY <1>2, <1>4, <1>5
  <2> QED BY <1>1, <1>6, <2>1
<1>9. \A i, j \in 1..l : i < j => at[j] < at[i]
  <2> SUFFICES ASSUME NEW i \in 1..l, NEW j \in 1..l, i < j PROVE at[j] < at[i]
    OBVIOUS
  <2>1. (l - j) + 1 \in 1..l /\ (l - i) + 1 \in 1..l /\ (l - j) + 1 < (l - i) + 1
    BY <1>2
  <2> QED BY <1>4, <1>6, <2>1
<1>10. \A n \in 1..Len(g) : Cards!Says(Cards!Netted(g[n])) => \E i \in 1..l : at[i] = n
  <2> SUFFICES ASSUME NEW n \in 1..Len(g), Cards!Says(Cards!Netted(g[n])) PROVE \E i \in 1..l : at[i] = n
    OBVIOUS
  <2>1. w[n] \in Speaks
    <3>1. PICK c \in Card : c = g[n]
      BY <1>1
    <3>2. Cards!Netted(c) \in Card
      BY NettedGives
    <3> QED BY <1>1, <3>1, <3>2 DEF Speaks
  <2>2. PICK i \in 1..l : pl[i] = n
    BY <1>4, <2>1
  <2>3. at[(l - i) + 1] = n /\ (l - i) + 1 \in 1..l
    BY <1>5, <1>6, <2>2
  <2> QED BY <2>3
<1> QED BY <1>7, <1>8, <1>9, <1>10 DEF Stands, p, l

\* What changes a field, on balance.
Moves(g, f, n) == f \in g[n].fields /\ g[n].changes[f].value # g[n].changes[f].previous

\* Where nothing does, it stays.
LEMMA StaysBetween ==
  ASSUME NEW g \in Seq(Card), NEW f, NEW v, NEW now, Chain(g, f, v, now),
         NEW a \in 0..Len(g), NEW b \in 0..Len(g), a <= b,
         \A n \in (a + 1)..b : ~Moves(g, f, n)
  PROVE  v[a] = v[b]
<1> DEFINE d == b - a
           K == {k \in 0..d : v[a + k] = v[a]}
<1>1. Len(g) \in Nat /\ a \in Nat /\ b \in Nat /\ d \in Nat /\ a + d = b /\ a + 0 = a
  BY LenProperties
<1>2. 0 \in K
  BY <1>1
<1>3. ASSUME NEW k \in K, k < d PROVE k + 1 \in K
  <2>1. k \in 0..d /\ v[a + k] = v[a]
    OBVIOUS
  <2>2. /\ a + (k + 1) \in (a + 1)..b /\ a + (k + 1) \in 1..Len(g) /\ (a + (k + 1)) - 1 = a + k
        /\ k + 1 \in 0..d
    BY <1>1, <1>3, <2>1
  <2>3. ~Moves(g, f, a + (k + 1))
    BY <2>2
  <2>4. v[a + (k + 1)] = v[(a + (k + 1)) - 1]
    BY <2>2, <2>3 DEF Chain, Moves
  <2> QED BY <2>1, <2>2, <2>4
<1> HIDE DEF K, d
<1>4. d \in K
  BY <1>1, <1>2, <1>3, InductionUpTo
<1> QED BY <1>1, <1>4 DEF K

LEMMA ChangesAreTrue == ASSUME CardsInv PROVE Cards!ChangesFollow
<1> DEFINE t == Selected(journal, OnPage)
           g == Groups(t)
           p == Pages(g)
           cards == Cards!GroupActivity
<1>1. /\ journal \in Seq(Entry) /\ t \in Seq(Entry) /\ Cards!Timeline = t /\ DOMAIN t = 1..Len(t)
      /\ CardsTrue(t, g) /\ Follows(journal, t, g)
  BY SelectedType, TimelineIs, LenProperties DEF CardsInv, CardsHold
<1> HIDE DEF t
<1>2. g \in Seq(Card)
  BY <1>1, GroupsType
<1>3. cards = IF Limit < Len(p) THEN SubSeq(p, 1, Limit) ELSE p
  BY <1>1, ActivityIs DEF t
<1> HIDE DEF g, cards
<1>4. p \in Seq(Card) /\ Len(p) \in Nat /\ Limit \in Nat /\ Len(g) \in Nat
      /\ \A n \in 1..Len(g) : g[n] \in Card
  BY <1>2, PagesType, CardsAssumption, ElementOfSeq, LenProperties
<1>5. PICK at : Stands(g, at)
  BY <1>2, PagesStand
<1>6. /\ at \in [1..Len(p) -> 1..Len(g)] /\ \A i \in 1..Len(p) : p[i] = Cards!Netted(g[at[i]])
      /\ \A i, j \in 1..Len(p) : i < j => at[j] < at[i]
      /\ \A n \in 1..Len(g) : Cards!Says(Cards!Netted(g[n])) => \E i \in 1..Len(p) : at[i] = n
  BY <1>5 DEF Stands
<1> HIDE DEF p
<1> DEFINE l == Len(cards)
<1>7. /\ l \in Nat /\ l <= Len(p) /\ DOMAIN cards = 1..l /\ (l < Limit => l = Len(p))
      /\ \A i \in 1..l : cards[i] = p[i]
  <2>1. CASE Limit < Len(p)
    <3>1. 1 \in Int /\ Limit \in Int /\ \A i \in 1..Limit : p[i] \in Card
      BY <1>4, <2>1, ElementOfSeq
    <3>2. /\ SubSeq(p, 1, Limit) \in Seq(Card)
          /\ Len(SubSeq(p, 1, Limit)) = IF 1 <= Limit THEN Limit - 1 + 1 ELSE 0
          /\ \A i \in 1..(Limit - 1 + 1) : SubSeq(p, 1, Limit)[i] = p[1 + i - 1]
      BY <3>1, SubSeqProperties
    <3>3. cards = SubSeq(p, 1, Limit) /\ cards \in Seq(Card)
      BY <1>3, <2>1, <3>2
    <3>4. l = Limit
      BY <1>4, <3>2, <3>3
    <3>5. DOMAIN cards = 1..l
      BY <3>3, LenProperties
    <3>6. \A i \in 1..l : cards[i] = p[i]
      <4>1. Limit - 1 + 1 = Limit /\ \A i \in 1..Limit : 1 + i - 1 = i
        BY <1>4
      <4> QED BY <3>2, <3>3, <3>4, <4>1
    <3> HIDE DEF l
    <3> QED BY <1>4, <2>1, <3>4, <3>5, <3>6
  <2>2. CASE ~(Limit < Len(p))
    <3>1. cards = p
      BY <1>3, <2>2
    <3>2. DOMAIN p = 1..Len(p)
      BY <1>4, LenProperties
    <3> QED BY <1>4, <3>1, <3>2
  <2> QED BY <2>1, <2>2
<1> DEFINE of(f) == {n \in DOMAIN cards : cards[n].kind = "field_changes" /\ f \in cards[n].fields}
<1>8. SUFFICES ASSUME NEW f \in Field \ Cards!Journal, ~Cards!Filled(f)
      PROVE  /\ f \in Hidden \/ f \notin Readable => of(f) = {}
             /\ \A n \in of(f) :
                   LET newer == {m \in of(f) : m < n}
                       value == cards[n].changes[f].value
                       wrote(e) == /\ e.field = f /\ e.new = value
                                   /\ e.when = cards[n].when /\ e.actor = cards[n].actor
                   IN  /\ \E k \in DOMAIN Cards!Timeline : wrote(Cards!Timeline[k])
                       /\ IF newer = {} THEN value = Cards!Now(f)
                          ELSE value = cards[Cards!Max(newer)].changes[f].previous
             /\ of(f) = {} /\ f \in Readable \ Hidden /\ Len(cards) < Limit => Cards!Now(f) = AtFirst
  BY DEF Cards!ChangesFollow, cards
<1>9. Cards!Now(f) = NowOf(journal, f) /\ ~FilledIn(t, f)
  BY <1>1, <1>8, NowIs DEF Cards!Filled, FilledIn
\* A card of the field stands for one that changes it.
<1>10. \A i \in 1..l : /\ at[i] \in 1..Len(g) /\ g[at[i]] \in Card
                       /\ cards[i].when = g[at[i]].when /\ cards[i].actor = g[at[i]].actor
                       /\ cards[i].changes = g[at[i]].changes
                       /\ i \in of(f) <=> Moves(g, f, at[i])
  <2> SUFFICES ASSUME NEW i \in 1..l
               PROVE  /\ at[i] \in 1..Len(g) /\ g[at[i]] \in Card
                      /\ cards[i].when = g[at[i]].when /\ cards[i].actor = g[at[i]].actor
                      /\ cards[i].changes = g[at[i]].changes
                      /\ i \in of(f) <=> Moves(g, f, at[i])
    OBVIOUS
  <2>1. i \in 1..Len(p) /\ at[i] \in 1..Len(g) /\ g[at[i]] \in Card
    BY <1>4, <1>6, <1>7
  <2>2. PICK c \in Card : c = g[at[i]]
    BY <2>1
  <2>3. cards[i] = Cards!Netted(c)
    BY <1>6, <1>7, <2>1, <2>2
  <2>4. LET d == Cards!Netted(c)
        IN  /\ d.kind = c.kind /\ d.when = c.when /\ d.actor = c.actor /\ d.changes = c.changes
            /\ d.fields = {h \in c.fields : c.changes[h].value # c.changes[h].previous}
    BY NettedGives
  <2>5. c.kind # "field_changes" => c.fields = {}
    BY <1>1, <2>1, <2>2 DEF CardsTrue
  <2>6. i \in of(f) <=> f \in c.fields /\ c.changes[f].value # c.changes[f].previous
    BY <1>7, <2>3, <2>4, <2>5
  <2> QED BY <2>1, <2>2, <2>3, <2>4, <2>6 DEF Moves
\* ... and one that changes it says something.
<1>11. \A n \in 1..Len(g) : Moves(g, f, n) => \E i \in 1..Len(p) : at[i] = n
  <2> SUFFICES ASSUME NEW n \in 1..Len(g), Moves(g, f, n) PROVE \E i \in 1..Len(p) : at[i] = n
    OBVIOUS
  <2>1. PICK c \in Card : c = g[n]
    BY <1>4
  <2>2. f \in Cards!Netted(c).fields
    BY <2>1, NettedGives DEF Moves
  <2> QED BY <1>6, <2>1, <2>2 DEF Cards!Says
<1>12. of(f) \subseteq 1..l
  BY <1>7
<1> HIDE DEF of
<1>13. ASSUME of(f) # {} PROVE f \in Readable /\ f \notin Hidden
  <2>1. PICK i \in 1..l : Moves(g, f, at[i])
    BY <1>10, <1>12, <1>13
  <2> QED BY <1>1, <1>10, <2>1 DEF CardsTrue, Moves
<1>14. ASSUME f \in Readable, f \notin Hidden
       PROVE  \E v : Chain(g, f, v, NowOf(journal, f))
  BY <1>1, <1>8, <1>9, <1>14 DEF Follows
<1>15. ASSUME NEW n \in of(f)
       PROVE  \E k \in DOMAIN t : /\ t[k].field = f /\ t[k].new = cards[n].changes[f].value
                                  /\ t[k].when = cards[n].when /\ t[k].actor = cards[n].actor
  <2>1. n \in 1..l /\ Moves(g, f, at[n])
    BY <1>10, <1>12
  <2>2. PICK r \in 1..Len(g) : r = at[n]
    BY <1>10, <2>1
  <2>3. f \in g[r].fields
    BY <2>1, <2>2 DEF Moves
  <2>4. PICK k \in 1..Len(t) : /\ t[k].field = f /\ t[k].new = g[r].changes[f].value
                              /\ t[k].when = g[r].when /\ t[k].actor = g[r].actor
    BY <1>1, <2>3 DEF CardsTrue
  <2>5. /\ cards[n].when = g[r].when /\ cards[n].actor = g[r].actor
        /\ cards[n].changes = g[r].changes
    BY <1>10, <2>1, <2>2
  <2>6. k \in DOMAIN t
    BY <1>1
  <2> QED BY <2>4, <2>5, <2>6
<1>16. ASSUME NEW n \in of(f)
       PROVE  LET newer == {m \in of(f) : m < n}
              IN  IF newer = {} THEN cards[n].changes[f].value = NowOf(journal, f)
                  ELSE cards[n].changes[f].value = cards[Cards!Max(newer)].changes[f].previous
  <2> DEFINE newer == {m \in of(f) : m < n}
             q == at[n]
  <2>1. n \in 1..l /\ n \in 1..Len(p) /\ q \in 1..Len(g) /\ Moves(g, f, q)
        /\ cards[n].changes = g[q].changes
    BY <1>4, <1>7, <1>10, <1>12
  <2>2. PICK v : Chain(g, f, v, NowOf(journal, f))
    BY <1>13, <1>14
  <2>3. g[q].changes[f].value = v[q] /\ v[Len(g)] = NowOf(journal, f)
    BY <2>1, <2>2 DEF Chain, Moves
  <2>4. ASSUME NEW j \in (q + 1)..Len(g), Moves(g, f, j)
        PROVE  \E i \in newer : at[i] = j
    <3>1. j \in 1..Len(g) /\ q < j
      BY <1>4, <2>1
    <3>2. PICK i \in 1..Len(p) : at[i] = j
      BY <1>11, <2>4, <3>1
    <3>3. i < n
      <4>1. SUFFICES ASSUME ~(i < n) PROVE FALSE
        OBVIOUS
      <4>2. i = n \/ n < i
        BY <1>4, <2>1, <4>1
      <4>3. i # n
        BY <2>1, <3>1, <3>2
      <4>4. at[i] < at[n]
        BY <1>6, <2>1, <3>2, <4>2, <4>3
      <4> QED BY <2>1, <3>1, <3>2, <4>4
    <3>4. i \in 1..l
      BY <1>4, <1>7, <2>1, <3>3
    <3>5. i \in of(f)
      BY <1>10, <2>4, <3>2, <3>4
    <3> QED BY <3>2, <3>3, <3>5
  <2>5. q \in 0..Len(g) /\ Len(g) \in 0..Len(g) /\ q <= Len(g)
    BY <1>4, <2>1
  <2>6. CASE newer = {}
    <3>1. \A j \in (q + 1)..Len(g) : ~Moves(g, f, j)
      BY <2>4, <2>6
    <3> HIDE DEF newer, q
    <3>2. v[q] = v[Len(g)]
      BY <1>2, <2>2, <2>5, <3>1, StaysBetween
    <3> QED BY <2>1, <2>3, <2>6, <3>2 DEF newer
  <2>7. CASE newer # {}
    <3> DEFINE m == Cards!Max(newer)
               r == at[m]
    <3>1. newer \in SUBSET (1..l)
      BY <1>12
    <3>2. m = Largest(newer)
      BY DEF Cards!Max, Largest
    <3>3. m \in newer /\ \A i \in newer : m >= i
      <4> HIDE DEF newer, m, l
      <4> QED BY <1>7, <2>7, <3>1, <3>2, LargestIn
    <3> HIDE DEF m
    <3>4. m \in of(f) /\ m < n /\ m \in 1..l /\ m \in 1..Len(p)
      BY <1>4, <1>7, <1>12, <3>3
    <3>5. r \in 1..Len(g) /\ q < r /\ Moves(g, f, r) /\ cards[m].changes = g[r].changes
      BY <1>6, <1>10, <2>1, <3>4
    <3>6. r - 1 \in 0..Len(g) /\ q <= r - 1
      BY <1>4, <2>1, <3>5
    <3>7. ASSUME NEW j \in (q + 1)..(r - 1) PROVE ~Moves(g, f, j)
      <4>1. SUFFICES ASSUME Moves(g, f, j) PROVE FALSE
        OBVIOUS
      <4>2. j \in (q + 1)..Len(g) /\ j < r
        BY <1>4, <2>1, <3>5
      <4>3. PICK i \in newer : at[i] = j
        BY <2>4, <4>1, <4>2
      <4>4. i \in 1..l /\ i \in 1..Len(p) /\ m >= i
        BY <1>4, <1>7, <1>12, <3>3
      <4>5. i = m \/ i < m
        BY <3>4, <4>4
      <4>6. CASE i = m
        BY <3>5, <4>2, <4>3, <4>6
      <4>7. CASE i < m
        <5>1. at[m] < at[i]
          BY <1>6, <3>4, <4>4, <4>7
        <5> QED BY <1>4, <3>5, <4>2, <4>3, <5>1
      <4> QED BY <4>5, <4>6, <4>7
    <3>8. g[r].changes[f].previous = v[r - 1]
      BY <2>2, <3>5 DEF Chain, Moves
    <3> HIDE DEF newer, q, r
    <3>9. v[q] = v[r - 1]
      BY <1>2, <2>2, <2>5, <3>6, <3>7, StaysBetween
    <3>10. cards[n].changes[f].value = cards[m].changes[f].previous
      BY <2>1, <2>3, <3>5, <3>8, <3>9
    <3> QED BY <2>7, <3>10 DEF m, newer
  <2> QED BY <2>6, <2>7
<1>17. ASSUME of(f) = {}, f \in Readable \ Hidden, l < Limit PROVE NowOf(journal, f) = AtFirst
  <2>1. PICK v : Chain(g, f, v, NowOf(journal, f))
    BY <1>14, <1>17
  <2>2. ASSUME NEW j \in (0 + 1)..Len(g) PROVE ~Moves(g, f, j)
    <3>1. SUFFICES ASSUME Moves(g, f, j) PROVE FALSE
      OBVIOUS
    <3>2. PICK i \in 1..Len(p) : at[i] = j
      BY <1>11, <3>1
    <3>3. i \in 1..l
      BY <1>7, <1>17
    <3> QED BY <1>10, <1>17, <3>1, <3>2, <3>3
  <2>3. 0 \in 0..Len(g) /\ Len(g) \in 0..Len(g) /\ 0 <= Len(g)
    BY <1>4
  <2>4. v[0] = v[Len(g)]
    BY <1>2, <2>1, <2>2, <2>3, StaysBetween
  <2> QED BY <2>1, <2>4 DEF Chain
<1> QED BY <1>1, <1>9, <1>13, <1>15, <1>16, <1>17

-----------------------------------------------------------------------------
(* The properties.                                                          *)

\* A sign-in ends in the account of who signs in, and in one only; its session ends when the
\* provider says; its scope is of queues ServiceNow knew the person in; a link stays, and a
\* failed sign-in finds the account it was about to make (jit_upsert, SessionManager).
THEOREM SignInsAreRight == FairSpec => SignInsHold
<1>1. Init => PeopleInv
  BY PeopleStart DEF Init
<1>2. PeopleInv /\ [Next]_vars => PeopleInv'
  BY OnePartMoves, PeoplePreserved
<1>3. PeopleInv => (about = "people" =>
                      /\ People!OneAccountEach /\ People!OwnAccount
                      /\ People!ProviderDecides /\ People!DerivedFromMembership)
  BY PeopleSafe
<1>4. PeopleInv /\ [Next]_vars =>
        [/\ \A n \in Name :
              account[n].there /\ account[n].subject # Nobody => account'[n].subject = account[n].subject
         /\ \A t \in Tab :
              People!Duplicate(t) /\ job[t].name \notin past.names
              => account[job[t].name].holder = UsedBy[t]]_peopleVars
  BY OnePartMoves, LinksStayHere
<1> QED BY <1>1, <1>2, <1>3, <1>4, PTL
        DEF FairSpec, SignInsHold, People!LinksStay, peopleVars, People!vars

\* A token whose key is published when the last look is taken is refused for its key only if
\* the issuer could not be asked then ("a key may be new": OIDCClient._signing_key).
THEOREM RotationLocksNobodyOut == FairSpec => PublishedKeySignsIn
<1>1. Init => IssuerInv
  BY SigningKeysStart, KeyAssumption DEF Init
<1>2. IssuerInv /\ [Next]_vars => IssuerInv'
  BY OnePartMoves, SigningKeysPreserved
<1>3. IssuerInv /\ [Next]_vars =>
        [\A t \in Tab :
           /\ signIn[t].pc \in {"verifying", "again"} /\ signIn'[t].pc = "refused"
           /\ signIn[t].kid \in published
           => ~reachable]_<<signIn>>
  BY OnePartMoves, RefusedUnreachable
<1> QED BY <1>1, <1>2, <1>3, PTL DEF FairSpec, PublishedKeySignsIn, Issuer!PublishedKeySignsIn

\* The process holds a token that has expired only while Vault is away or for one retry after
\* it came back, and a revoked one until its next renewal at the latest (the renewal loop of
\* core/vault_client.py).
THEOREM TokensExpireInTrouble == FairSpec => []Vault!ExpiredOnlyInTrouble
<1>1. Init => VaultInv
  BY VaultStart, VaultAssumption DEF Init
<1>2. VaultInv /\ [Next]_vars => VaultInv'
  BY OnePartMoves, VaultPreserved, VaultAssumption
<1>3. VaultInv => Vault!ExpiredOnlyInTrouble
  BY SleepOfARetry, VaultAssumption DEF VaultInv, VaultTypeOK, WakesInTime, LogsInSoon, NoticesRevocation,
                       Vault!ExpiredOnlyInTrouble
<1> QED BY <1>1, <1>2, <1>3, PTL DEF FairSpec

\* What the trends say is what there was, the headline of a night that succeeded is what the board
\* shows, and retention makes no ticket look new (build_day, prune, web/insights.py).
THEOREM TrendsTellWhatWas == FairSpec => []TrendsAreRight
<1>1. Init => ViewsInv
  BY ViewsStart DEF Init
<1>2. ViewsInv /\ [Next]_vars => ViewsInv'
  BY OnePartMoves, ViewsPreserved
<1>3. ViewsInv => TrendsAreRight
  BY TrendsSettle, HeadlinesAgree, NothingLooksNew DEF TrendsAreRight
<1> QED BY <1>1, <1>2, <1>3, PTL DEF FairSpec

\* Every list, figure and single ticket keeps to the caller's queues, whoever he is and wherever
\* tickets move (_board_selection, fetch_in_scope, Insights.scope).
THEOREM ScopeIsKept == FairSpec => []ScopeIsOneRule
<1>1. Init => ViewsInv
  BY ViewsStart DEF Init
<1>2. ViewsInv /\ [Next]_vars => ViewsInv'
  BY OnePartMoves, ViewsPreserved
<1>3. ViewsInv => ScopeIsOneRule
  BY ScopeIsOne, PagesAreScoped DEF ScopeIsOneRule, ViewsInv
<1> QED BY <1>1, <1>2, <1>3, PTL DEF FairSpec

\* Pages that are read side by side say the same of the same tickets, and none reads beyond the
\* range it may (web/insights.py, parse_range, DigestBuilder).
THEOREM PagesTellTheSame == FairSpec => []PagesAgree
<1>1. Init => ViewsInv
  BY ViewsStart DEF Init
<1>2. ViewsInv /\ [Next]_vars => ViewsInv'
  BY OnePartMoves, ViewsPreserved
<1>3. ViewsInv => PagesAgree
  <2>1. ASSUME ViewsInv PROVE day \in Nat
    BY <2>1, Bounds DEF ViewsInv, ViewsTypeOK
  <2> QED BY <2>1, FiguresAgree, CountsAgreeToo, WindowIsSound DEF PagesAgree, ViewsInv
<1> QED BY <1>1, <1>2, <1>3, PTL DEF FairSpec

\* A form leaves alone what its author did not edit, whatever is overridden, written in
\* conf.json or changed since the page was opened; and of what the process does not run with yet
\* the banner or a message says so (apply_form, restart_pending).
THEOREM FormsSaveTruly == FairSpec => FormSaves
<1>1. Init => FormInv
  BY FormStart DEF Init
<1>2. FormInv /\ [Next]_vars => FormInv'
  BY OnePartMoves, FormPreserved
<1>3. FormInv => Form!RestartIsSaid
  BY DEF FormInv
<1>4. FormInv =>
        [\A a \in Admin : opened[a] # Closed =>
           \A form \in Form!Forms(a) : Form!Submit(a, form) =>
              \A k \in DOMAIN form :
                 form[k] = Form!Display(k, Form!Value(k)) /\ Form!OneItemEach(k)
                   => stored'[k] = stored[k]]_formVars
  <2> SUFFICES ASSUME FormInv, NEW a \in Admin, opened[a] # Closed, NEW form \in Form!Forms(a),
                      Form!Submit(a, form), NEW k \in DOMAIN form,
                      form[k] = Form!Display(k, Form!Value(k)), Form!OneItemEach(k)
               PROVE  stored'[k] = stored[k]
    OBVIOUS
  <2>1. DOMAIN form \subseteq Form!Setting /\ \A l \in DOMAIN form : Typed(l, form[l])
    BY FormsType
  <2>2. k \notin Form!Pending(form)
    BY ShownIsKept
  <2>3. Form!ApplyForm(form) /\ UNCHANGED <<file, running>>
    BY DEF Form!Submit
  <2> QED BY <2>1, <2>2, <2>3, SavedKeeps
<1> QED BY <1>1, <1>2, <1>3, <1>4, PTL
        DEF FairSpec, FormSaves, Form!OnlyWhatWasEdited, formVars, Form!vars

\* The copy a process goes by, and the value an audit row names as the one before, are no older
\* than CACHE_TTL_SECONDS by what the session could read, whichever loads and saves cross,
\* whoever else writes, and whatever fails (SettingsOverlay).
THEOREM ReadsStayRecent == FairSpec => []Settings!ReadsAreRecent
<1>1. Init => SettingsInv
  BY SettingsStart DEF Init
<1>2. SettingsInv /\ [Next]_vars => SettingsInv'
  BY OnePartMoves, SettingsPreserved
<1>3. SettingsInv => Settings!ReadsAreRecent
  BY LoopIsAThread DEF SettingsInv, CacheHolds, CallHolds, Settings!ReadsAreRecent, Settings!Fresh
<1> QED BY <1>1, <1>2, <1>3, PTL DEF FairSpec

\* A walk over a table that stood still brings every row the account may read, each once and in
\* order, whatever the pages in between hold, up to the safety cap (SnowClient._pages).
THEOREM WalksAreWhole == FairSpec => []Snow!WalkIsWhole
<1>1. Init => SnowInv
  BY SnowStart DEF Init
<1>2. SnowInv /\ [Next]_vars => SnowInv'
  BY OnePartMoves, SnowPreserved
<1>3. SnowInv => Snow!WalkIsWhole
  BY WalkWhole
<1> QED BY <1>1, <1>2, <1>3, PTL DEF FairSpec

\* The page of a ticket tells its history: nobody's comment or note is merged into another or
\* lost, and the changes of a field follow from each other and end in what it holds, although
\* saves interleave and fields are put back (group_activity).
THEOREM CardsTellTheHistory == FairSpec => [](Cards!JournalIsWhole /\ Cards!ChangesFollow)
<1>1. Init => CardsInv
  BY CardsStart DEF Init
<1>2. CardsInv /\ [Next]_vars => CardsInv'
  BY OnePartMoves, CardsPreserved
<1>3. CardsInv => Cards!JournalIsWhole /\ Cards!ChangesFollow
  BY JournalWhole, ChangesAreTrue
<1> QED BY <1>1, <1>2, <1>3, PTL DEF FairSpec

\* Tokens, walks and the page of a ticket are as they should be, in every behaviour of the services
\* side by side (core/vault_client.py, core/snow/base.py, web/activity.py).
THEOREM ServicesStaySteady == FairSpec => []ServicesAreSteady
<1>1. Vault!ExpiredOnlyInTrouble /\ Snow!WalkIsWhole /\ (Cards!JournalIsWhole /\ Cards!ChangesFollow)
        => ServicesAreSteady
  BY DEF ServicesAreSteady
<1> QED BY <1>1, TokensExpireInTrouble, WalksAreWhole, CardsTellTheHistory, PTL
=============================================================================
