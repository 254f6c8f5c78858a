------------------------------ MODULE Sessions ------------------------------
(* Console sessions (internal/session/session.go) and the gates that ask for *)
(* them (internal/server/server.go, withUIAuth; internal/admin/handlers.go,  *)
(* ConsoleLogin and ConsoleLogout).  A browser holds a cookie with a token;  *)
(* the manager holds the expiry of every token it has not forgotten, in      *)
(* memory only, and pushes it back whenever the token is used.               *)
EXTENDS Naturals

CONSTANTS
    Browsers,
    Tokens,         \* random, so a token is never drawn twice
    PasswordSet,    \* whether admin_password is configured
    TTL,            \* ticks a session lives without use
    MaxNow,         \* bound on the clock
    NoToken

ASSUME SessionsAssumption ==
    /\ PasswordSet \in BOOLEAN /\ TTL \in Nat \ {0} /\ MaxNow \in Nat
    /\ NoToken \notin Tokens

VARIABLES
    expiry,     \* Manager.tokens: expiry[t], 0 for a token it does not hold
    cookie,     \* cookie[b]: the token in browser b's cookie
    request,    \* request[b]: the cookie of a request of b on its way
    drawn,      \* the tokens handed out
    out,        \* auxiliary: tokens whose session the user ended
    used,       \* auxiliary: used[t]: when token t was last accepted or drawn
    now

sessionVars == <<expiry, cookie, request, drawn, out, used, now>>

SessionsInit ==
    /\ expiry = [t \in Tokens |-> 0]
    /\ cookie = [b \in Browsers |-> NoToken]
    /\ request = [b \in Browsers |-> NoToken]
    /\ drawn = {} /\ out = {}
    /\ used = [t \in Tokens |-> 0]
    /\ now = 1

-----------------------------------------------------------------------------

\* CheckPassword and Create; without a password everybody may log in.
Login(b, t) ==
    /\ t \notin drawn
    /\ drawn' = drawn \union {t}
    /\ expiry' = [expiry EXCEPT ![t] = now + TTL]
    /\ cookie' = [cookie EXCEPT ![b] = t]
    /\ used' = [used EXCEPT ![t] = now]
    /\ UNCHANGED <<request, out, now>>

\* A request leaves the browser with the cookie of the moment.
Send(b) ==
    /\ request[b] = NoToken
    /\ cookie[b] # NoToken
    /\ request' = [request EXCEPT ![b] = cookie[b]]
    /\ UNCHANGED <<expiry, cookie, drawn, out, used, now>>

\* Mutant of Expired: one tick of grace.
ExpiredLate(t) == now > expiry[t] + 1

Expired(t) == now > expiry[t]

Accepted(t) == ~PasswordSet \/ (expiry[t] # 0 /\ ~Expired(t))

\* Mutant of Serve: the renewal does not look whether the token is still held.
ServeRevives(b) ==
    LET t == request[b] IN
    /\ t # NoToken
    /\ request' = [request EXCEPT ![b] = NoToken]
    /\ expiry' = [expiry EXCEPT ![t] = now + TTL]
    /\ used' = IF Accepted(t) THEN [used EXCEPT ![t] = now] ELSE used
    /\ UNCHANGED <<cookie, drawn, out, now>>

\* Valid, under the lock: an expired token is forgotten, a valid one renewed.
Serve(b) ==
    LET t == request[b] IN
    /\ t # NoToken
    /\ request' = [request EXCEPT ![b] = NoToken]
    /\ expiry' = IF ~PasswordSet \/ expiry[t] = 0 THEN expiry
                 ELSE [expiry EXCEPT ![t] = IF Expired(t) THEN 0 ELSE now + TTL]
    /\ used' = IF Accepted(t) THEN [used EXCEPT ![t] = now] ELSE used
    /\ UNCHANGED <<cookie, drawn, out, now>>

\* Mutant of Logout: the token is set back by one lifetime instead of forgotten.
LogoutBackdates(b) ==
    /\ cookie[b] # NoToken
    /\ expiry' = [expiry EXCEPT ![cookie[b]] = now - TTL]
    /\ out' = out \union {cookie[b]}
    /\ cookie' = [cookie EXCEPT ![b] = NoToken]
    /\ UNCHANGED <<request, drawn, used, now>>

\* Clear: the token of the request's cookie, and the cookie, are gone.
Logout(b) ==
    /\ cookie[b] # NoToken
    /\ expiry' = [expiry EXCEPT ![cookie[b]] = 0]
    /\ out' = out \union {cookie[b]}
    /\ cookie' = [cookie EXCEPT ![b] = NoToken]
    /\ UNCHANGED <<request, drawn, used, now>>

\* The cookie lives in the browser, the tokens do not survive the process.
SessionsRestart ==
    /\ expiry' = [t \in Tokens |-> 0]
    /\ request' = [b \in Browsers |-> NoToken]
    /\ UNCHANGED <<cookie, drawn, out, used, now>>

SessionsTick ==
    /\ now < MaxNow
    /\ now' = now + 1
    /\ UNCHANGED <<expiry, cookie, request, drawn, out, used>>

SessionsNext ==
    \/ \E b \in Browsers : (\E t \in Tokens : Login(b, t)) \/ Send(b) \/ Serve(b) \/ Logout(b)
    \/ SessionsRestart
    \/ SessionsTick

SessionsSpec == SessionsInit /\ [][SessionsNext]_sessionVars

-----------------------------------------------------------------------------
(* Properties *)

\* The types of the manager's map and of the browsers' cookies.
SessionsTypeOK ==
    /\ expiry \in [Tokens -> Nat] /\ used \in [Tokens -> Nat] /\ now \in Nat
    /\ cookie \in [Browsers -> Tokens \union {NoToken}]
    /\ request \in [Browsers -> Tokens \union {NoToken}]
    /\ drawn \subseteq Tokens /\ out \subseteq Tokens

\* The inductive invariant behind the next two: no cookie that is not drawn, and the
\* manager holds no token of a session the user ended.
SessionsInvariant ==
    /\ SessionsTypeOK
    /\ \A b \in Browsers : {cookie[b], request[b]} \subseteq drawn \union {NoToken}
    /\ out \subseteq drawn
    /\ \A t \in out : expiry[t] = 0
    /\ \A t \in Tokens : t \notin drawn => expiry[t] = 0
    /\ now # 0
    /\ PasswordSet => \A t \in Tokens : expiry[t] # 0 => expiry[t] = used[t] + TTL

\* Logging out ends the session: a request that left the browser before and is
\* served afterwards neither gets in nor brings the session back by renewing it.
LogoutIsFinal ==
    PasswordSet => \A t \in out : ~Accepted(t)

\* A session lives for TTL after its last use and no longer, unless the user or a
\* restart ends it before.
SessionsExpire ==
    PasswordSet => \A t \in Tokens : Accepted(t) => now <= used[t] + TTL

=============================================================================
