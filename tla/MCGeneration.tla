---------------------------- MODULE MCGeneration ----------------------------
(* Instances of Generation for TLC.                                         *)
EXTENDS Generation

\* A token pasted without expiry and refresh token: nothing to renew.
NoExpiry == [tok |-> 1, rt |-> 0, exp |-> 0, credits |-> 2, disabled |-> FALSE,
           until |-> 0, err |-> "none", auth |-> "valid"]
\* A login whose access token has to be renewed, and expires at time 1.
Login == [NoExpiry EXCEPT !.rt = 1, !.exp = 1]

JustPasted == {NoExpiry}
JustLogin == {Login}

RequestLeases == Requests \X {1, 2}

RateLimit == [cooldown |-> 9, err |-> "other"]
RateLimits == {RateLimit}

\* Whatever a handler may ask the pool to do: the first tokens, and renewed ones.
HandlerCalls == {"MarkError", "UpdateCredits", "UpdateTokens"}
TokenPairs ==
    {[tok |-> 1, rt |-> Login.rt, exp |-> Login.exp], [tok |-> 1, rt |-> 0, exp |-> 0]}
    \union {[tok |-> n, rt |-> n, exp |-> t + Lifetime] : n \in 2 .. MaxIssued, t \in 0 .. MaxNow}
=============================================================================
