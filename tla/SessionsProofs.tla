--------------------------- MODULE SessionsProofs ---------------------------
(* Console sessions end when the user logs out and when nobody uses them,    *)
(* for any number of browsers and tokens and any lifetime.                   *)
EXTENDS Sessions, TLAPS

LEMMA SessionsInvariantStarts == SessionsInit => SessionsInvariant
BY SessionsAssumption DEF SessionsInit, SessionsInvariant, SessionsTypeOK

\* Serving is the step to look at: it renews a token only if the manager holds it.
LEMMA SessionsInvariantIsInductive ==
  SessionsInvariant /\ [SessionsNext]_sessionVars => SessionsInvariant'
<1> SUFFICES ASSUME SessionsInvariant, [SessionsNext]_sessionVars
             PROVE  SessionsInvariant'
  OBVIOUS
<1> USE SessionsAssumption DEF SessionsInvariant, SessionsTypeOK
<1>1. ASSUME NEW b \in Browsers, NEW t \in Tokens, Login(b, t)
      PROVE  SessionsInvariant'
  BY <1>1 DEF Login
<1>2. ASSUME NEW b \in Browsers, Send(b)
      PROVE  SessionsInvariant'
  BY <1>2 DEF Send
<1>3. ASSUME NEW b \in Browsers, Serve(b)
      PROVE  SessionsInvariant'
  BY <1>3 DEF Serve, Accepted, Expired
<1>4. ASSUME NEW b \in Browsers, Logout(b)
      PROVE  SessionsInvariant'
  BY <1>4 DEF Logout
<1>5. CASE SessionsRestart
  BY <1>5 DEF SessionsRestart
<1>6. CASE SessionsTick
  BY <1>6 DEF SessionsTick
<1>7. CASE UNCHANGED sessionVars
  BY <1>7 DEF sessionVars
<1> QED
  BY <1>1, <1>2, <1>3, <1>4, <1>5, <1>6, <1>7 DEF SessionsNext

\* The manager never holds a token of a session the user ended, and every expiry it
\* holds is the last use plus the TTL, for any browsers, tokens and TTL.
THEOREM SessionsInvariantHolds == SessionsSpec => []SessionsInvariant
BY SessionsInvariantStarts, SessionsInvariantIsInductive, PTL DEF SessionsSpec

\* No request of a session the user ended gets in, not even one sent before.
THEOREM LogoutAlwaysFinal == SessionsSpec => []LogoutIsFinal
<1>1. SessionsInvariant => LogoutIsFinal
  BY DEF SessionsInvariant, LogoutIsFinal, Accepted
<1> QED
  BY <1>1, SessionsInvariantHolds, PTL

\* A session nobody used for longer than its lifetime is not accepted.
THEOREM IdleSessionsExpire == SessionsSpec => []SessionsExpire
<1>1. SessionsInvariant => SessionsExpire
  BY SessionsAssumption
     DEF SessionsInvariant, SessionsTypeOK, SessionsExpire, Accepted, Expired
<1> QED
  BY <1>1, SessionsInvariantHolds, PTL

=============================================================================
