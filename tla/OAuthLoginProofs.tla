-------------------------- MODULE OAuthLoginProofs --------------------------
(* A pending login is exchanged once and in time, for any number of logins   *)
(* and of requests that complete them.                                       *)
EXTENDS OAuthLogin, TLAPS

LEMMA LoginInvariantStarts == LoginInit => LoginInvariant
BY LoginAssumption DEF LoginInit, LoginInvariant, LoginTypeOK, PendingWasStarted, OwnedOnce,
   SentWasStarted, ExchangedOnce

\* One step per operation; the map's entry is the only right to ask Clerk.
LEMMA LoginInvariantIsInductive == LoginInvariant /\ [LoginNext]_loginVars => LoginInvariant'
<1> SUFFICES ASSUME LoginInvariant, [LoginNext]_loginVars
             PROVE  LoginInvariant'
  OBVIOUS
<1> USE LoginAssumption DEF LoginInvariant, LoginTypeOK, PendingWasStarted, OwnedOnce,
    SentWasStarted, ExchangedOnce
<1>1. ASSUME NEW s \in Logins, Start(s)
      PROVE  LoginInvariant'
  BY <1>1 DEF Start
<1>2. ASSUME NEW s \in Logins, Authorize(s)
      PROVE  LoginInvariant'
  BY <1>2 DEF Authorize
<1>3. ASSUME NEW s \in Logins, NEW c \in Completers, TakePending(c, s)
      PROVE  LoginInvariant'
  BY <1>3 DEF TakePending
<1>4. ASSUME NEW c \in Completers, Exchange(c)
      PROVE  LoginInvariant'
  BY <1>4 DEF Exchange
<1>5. CASE LoginRestart
  BY <1>5 DEF LoginRestart
<1>6. CASE ClockTick
  BY <1>6 DEF ClockTick
<1>7. CASE UNCHANGED loginVars
  BY <1>7 DEF loginVars
<1> QED
  BY <1>1, <1>2, <1>3, <1>4, <1>5, <1>6, <1>7 DEF LoginNext

\* However often a callback URL is pasted, its login is sent to Clerk once.
THEOREM LoginsExchangedOnce == LoginSpec => []LoginInvariant
<1> QED
  BY LoginInvariantStarts, LoginInvariantIsInductive, PTL DEF LoginSpec

\* And only as long as the login may stay pending.
THEOREM LoginsTakenInTime == LoginSpec => TakenInTime
<1> DEFINE InTime ==
      \A c \in Completers :
          completing[c] = NoLogin /\ completing'[c] # NoLogin
              => clock <= started[completing'[c]] + PendingTTL
<1>1. ASSUME LoginInvariant, LoginNext PROVE InTime
  <2> SUFFICES ASSUME NEW c \in Completers, completing[c] = NoLogin,
                      completing'[c] # NoLogin
               PROVE  clock <= started[completing'[c]] + PendingTTL
    BY DEF InTime
  <2> USE LoginAssumption DEF LoginInvariant, LoginTypeOK
  <2>1. PICK s \in Logins, d \in Completers : TakePending(d, s)
    BY <1>1 DEF LoginNext, Start, Authorize, Exchange, LoginRestart, ClockTick
  <2>2. c = d /\ completing'[c] = s /\ pending[s] # 0 /\ ~Stale(pending[s])
    BY <1>1, <2>1 DEF TakePending
  <2>3. pending[s] = started[s]
    BY <1>1, <2>2 DEF PendingWasStarted
  <2>4. clock \in Nat /\ started[s] \in Nat
    BY <1>1
  <2> QED
    BY <2>2, <2>3, <2>4 DEF Stale
<1>2. LoginInvariant /\ [LoginNext]_loginVars => [InTime]_loginVars
  BY <1>1
<1>3. LoginSpec => []LoginInvariant
  BY LoginsExchangedOnce
<1> QED
  BY <1>2, <1>3, PTL DEF LoginSpec, TakenInTime

=============================================================================
