----------------------------- MODULE OAuthLogin -----------------------------
(* Adding an account by a browser login: StartBrowserOAuth and               *)
(* CompleteBrowserOAuth (internal/higgs/oauth.go) behind the console's       *)
(* OAuthStart and OAuthComplete (internal/admin/handlers.go).  A login that  *)
(* was started waits in a map, by its state, until the operator pastes the   *)
(* callback URL.  Clerk hands out one code per login and takes it once.      *)
EXTENDS Naturals

CONSTANTS
    Logins,         \* states, random, so never started twice
    Completers,     \* console requests that complete a login
    PendingTTL,     \* ticks a login may stay pending (15 minutes)
    MaxClock,       \* bound on the clock
    NoLogin

ASSUME LoginAssumption ==
    /\ PendingTTL \in Nat /\ MaxClock \in Nat /\ NoLogin \notin Logins

VARIABLES
    pending,    \* pending[s]: when login s was started, 0 if it is not in the map
    started,    \* started[s]: when login s was started, 0 if it never was
    code,       \* logins whose code Clerk has handed out and not taken back
    completing, \* completing[c]: the login request c took out of the map
    exchanges,  \* auxiliary: exchanges[s]: how often s was sent to Clerk
    saved,      \* logins whose account was saved
    clock

loginVars == <<pending, started, code, completing, exchanges, saved, clock>>

LoginInit ==
    /\ pending = [s \in Logins |-> 0]
    /\ started = [s \in Logins |-> 0]
    /\ code = {}
    /\ completing = [c \in Completers |-> NoLogin]
    /\ exchanges = [s \in Logins |-> 0]
    /\ saved = {}
    /\ clock = 1

Stale(since) == clock - since > PendingTTL

\* StartBrowserOAuth: stale logins are dropped, the new one is entered.
Start(s) ==
    /\ started[s] = 0
    /\ pending' = [p \in Logins |->
                      IF p = s THEN clock
                      ELSE IF pending[p] # 0 /\ Stale(pending[p]) THEN 0 ELSE pending[p]]
    /\ started' = [started EXCEPT ![s] = clock]
    /\ UNCHANGED <<code, completing, exchanges, saved, clock>>

\* The operator logs in at Clerk; the callback URL with the code can be pasted.
Authorize(s) ==
    /\ started[s] # 0
    /\ exchanges[s] = 0
    /\ code' = code \union {s}
    /\ UNCHANGED <<pending, started, completing, exchanges, saved, clock>>

\* Mutant of TakePending: the login stays in the map.
TakePendingKeeps(c, s) ==
    /\ completing[c] = NoLogin
    /\ pending[s] # 0
    /\ completing' = [completing EXCEPT ![c] = IF Stale(pending[s]) THEN NoLogin ELSE s]
    /\ UNCHANGED <<pending, started, code, exchanges, saved, clock>>

\* Mutant of TakePending: the login's age is not looked at.
TakePendingAnyAge(c, s) ==
    /\ completing[c] = NoLogin
    /\ pending[s] # 0
    /\ pending' = [pending EXCEPT ![s] = 0]
    /\ completing' = [completing EXCEPT ![c] = s]
    /\ UNCHANGED <<started, code, exchanges, saved, clock>>

\* The login is taken out of the map, expired or not, before Clerk is asked.
TakePending(c, s) ==
    /\ completing[c] = NoLogin
    /\ pending[s] # 0
    /\ pending' = [pending EXCEPT ![s] = 0]
    /\ completing' = [completing EXCEPT ![c] = IF Stale(pending[s]) THEN NoLogin ELSE s]
    /\ UNCHANGED <<started, code, exchanges, saved, clock>>

\* Clerk is asked; its answer, which has no error, is saved as an account.
Exchange(c) ==
    LET s == completing[c] IN
    /\ s # NoLogin
    /\ completing' = [completing EXCEPT ![c] = NoLogin]
    /\ exchanges' = [exchanges EXCEPT ![s] = @ + 1]
    /\ code' = code \ {s}
    /\ \/ s \in code /\ saved' = saved \union {s}
       \/ UNCHANGED saved
    /\ UNCHANGED <<pending, started, clock>>

\* The map dies with the process.
LoginRestart ==
    /\ pending' = [s \in Logins |-> 0]
    /\ completing' = [c \in Completers |-> NoLogin]
    /\ UNCHANGED <<started, code, exchanges, saved, clock>>

ClockTick ==
    /\ clock < MaxClock
    /\ clock' = clock + 1
    /\ UNCHANGED <<pending, started, code, completing, exchanges, saved>>

LoginNext ==
    \/ \E s \in Logins : Start(s) \/ Authorize(s) \/ \E c \in Completers : TakePending(c, s)
    \/ \E c \in Completers : Exchange(c)
    \/ LoginRestart
    \/ ClockTick

LoginSpec == LoginInit /\ [][LoginNext]_loginVars

-----------------------------------------------------------------------------
(* Properties *)

\* The types of the map of pending logins and of what Clerk and the requests hold.
LoginTypeOK ==
    /\ pending \in [Logins -> Nat] /\ started \in [Logins -> Nat] /\ clock \in Nat
    /\ code \subseteq Logins /\ saved \subseteq Logins
    /\ completing \in [Completers -> Logins \union {NoLogin}]
    /\ exchanges \in [Logins -> Nat]

\* A login is sent to Clerk once, however often and from however many tabs the
\* callback URL is pasted: whoever takes it out of the map owns it.
ExchangedOnce ==
    \A s \in Logins :
        /\ exchanges[s] + (IF pending[s] # 0 THEN 1 ELSE 0) <= 1
        /\ \A c, d \in Completers : completing[c] = s /\ completing[d] = s => c = d

\* The inductive invariant behind ExchangedOnce and TakenInTime: a pending login
\* keeps the time at which it was started.
PendingWasStarted == \A s \in Logins : pending[s] # 0 => pending[s] = started[s]

\* A login that a request took out is in nobody else's hands and not sent yet.
OwnedOnce ==
    \A s \in Logins, c \in Completers :
        completing[c] = s => exchanges[s] = 0 /\ pending[s] = 0 /\ started[s] # 0

\* Only logins that were started are sent.
SentWasStarted == \A s \in Logins : exchanges[s] # 0 => started[s] # 0

\* What OAuthLoginProofs proves: all of the above.
LoginInvariant ==
    LoginTypeOK /\ PendingWasStarted /\ OwnedOnce /\ SentWasStarted /\ ExchangedOnce

\* No login is taken up after its time is over, although stale logins leave the map
\* only when another login starts.
TakenInTime ==
    [][\A c \in Completers :
          completing[c] = NoLogin /\ completing'[c] # NoLogin
              => clock <= started[completing'[c]] + PendingTTL]_loginVars

=============================================================================
