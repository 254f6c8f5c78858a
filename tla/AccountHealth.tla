--------------------------- MODULE AccountHealth ---------------------------
(* The account record (internal/account/account.go) and the pure functions  *)
(* that decide whether the scheduler may use it and what the console shows. *)
(* Tokens are generation numbers and 0 is the empty string; times are ticks *)
(* and 0 is the Go zero value (ExpiresAt 0, CooldownUntil nil); credits are *)
(* counted in units of the configured threshold's resolution.               *)
EXTENDS Naturals

CONSTANTS
    ExpirySkew,     \* ticks before expires_at at which a token counts as expired
    MinCredits      \* config min_credits

ASSUME HealthAssumption == ExpirySkew \in Nat /\ MinCredits \in Nat

\* last_error as isAuthFailureError sees it: none, an auth failure, any other.
ErrorKinds == {"none", "auth", "other"}

AuthStatuses == {"", "valid", "expired", "refresh_failed", "no_token", "disabled"}

Account == [tok : Nat, rt : Nat, exp : Nat, credits : Nat, disabled : BOOLEAN,
            until : Nat, err : ErrorKinds, auth : AuthStatuses]

\* Mutant of TokenExpired: the comparison turned round.
TokenExpiredBackwards(a, t) ==
    \/ a.tok = 0
    \/ a.exp > 0 /\ t + ExpirySkew <= a.exp

TokenExpired(a, t) ==
    \/ a.tok = 0
    \/ a.exp > 0 /\ t + ExpirySkew >= a.exp

CanRefresh(a) == a.rt # 0

CoolingDown(a, t) == a.until > t

IsAuthFailureStatus(s) == s \in {"expired", "refresh_failed", "no_token", "disabled"}

\* Mutant of Healthy: a disabled account stays in rotation.
HealthyThoughDisabled(a, minCredits, t) ==
    /\ a.tok # 0
    /\ ~CoolingDown(a, t)
    /\ ~(a.credits > 0 /\ a.credits < minCredits)
    /\ TokenExpired(a, t) => ~IsAuthFailureStatus(a.auth) /\ a.err # "auth" /\ CanRefresh(a)

Healthy(a, minCredits, t) ==
    /\ ~a.disabled
    /\ a.tok # 0
    /\ ~CoolingDown(a, t)
    /\ ~(a.credits > 0 /\ a.credits < minCredits)
    /\ TokenExpired(a, t) => /\ ~IsAuthFailureStatus(a.auth)
                             /\ a.err # "auth"
                             /\ CanRefresh(a)

\* Mutant of StatusLabel: the cooldown is not looked at.
StatusLabelIgnoresCooldown(a, t) ==
    CASE a.disabled -> "disabled"
      [] ~a.disabled /\ a.tok = 0 -> "no_token"
      [] OTHER -> IF TokenExpired(a, t) THEN "expired"
                  ELSE IF a.auth = "" THEN "valid" ELSE a.auth

\* The labels are tried in the order StatusLabel tries them.
StatusLabel(a, t) ==
    CASE a.disabled -> "disabled"
      [] ~a.disabled /\ CoolingDown(a, t) -> "cooldown"
      [] ~a.disabled /\ ~CoolingDown(a, t) /\ a.tok = 0 -> "no_token"
      [] OTHER -> IF TokenExpired(a, t)
                  THEN IF a.auth = "refresh_failed" \/ a.err = "auth"
                       THEN "refresh_failed" ELSE "expired"
                  ELSE IF a.auth = "" THEN "valid" ELSE a.auth

\* The "ready" field of Public().
Ready(a, t) == Healthy(a, 0, t) /\ StatusLabel(a, t) = "valid"

=============================================================================
